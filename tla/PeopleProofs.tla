----------------------------- MODULE PeopleProofs -----------------------------
(***************************************************************************)
(* Proofs about the services around people that MCPlatform checks on small *)
(* instances, for any number of people, rows and handlers in flight: who   *)
(* owns a team and a company, what a closed account leaves behind, when a  *)
(* referral is paid for, and what a recorded consent resolves to.          *)
(***************************************************************************)
EXTENDS Teams, Companies, Accounts, SalesReps, Policies, TLAPS, FiniteSetTheorems

-----------------------------------------------------------------------------
(* A slot takes a state, or is free again; the others keep theirs.         *)

LEMMA SlotWritten ==
  ASSUME NEW Calls, call \in [Procs -> Calls \cup {NoCall}],
         NEW p \in Procs, NEW x \in Calls \cup {NoCall}, call' = [call EXCEPT ![p] = x]
  PROVE  /\ call' \in [Procs -> Calls \cup {NoCall}] /\ call'[p] = x
         /\ \A q \in Procs \ {p} : call'[q] = call[q]
  OBVIOUS

-----------------------------------------------------------------------------
(* Teams.  A team that is not odd has one member, active or not, with the  *)
(* role of owner: the one its row names.  So the guard against removing    *)
(* the last owner is what keeps him, a former member never comes back as a *)
(* second one, and no handler in flight has the row of an owner to save.   *)

Granting(u)   == \E p \in Procs : Grants(call[p], u)
Recounting(t) == \E p \in Procs : Recounts(call[p], t)
LookedAt(u)   == \E p \in Procs : LooksAt(call[p], u)
HasRole(u)    == u \in teamOwner \cup roleOdd \/ Granting(u)

Owned(t) ==
  /\ OwnersIn(member, t) = {team[t].owner}
  /\ \A u \in People : member[t][u].role = "owner" => u = team[t].owner

TeamRight(t) ==
  /\ team[t].exists /\ t \notin teamOdd => Owned(t)
  /\ ~team[t].exists => \A u \in People : member[t][u].role = "none" /\ ~member[t][u].active

Synced(t) ==
  team[t].exists /\ t \notin teamOdd /\ deaths = 0 =>
    /\ HasRole(team[t].owner)
    /\ team[t].count = Cardinality(ActiveIn(member, t)) \/ Recounting(t)

Settled ==
  deaths = 0 /\ teamOdd = {} =>
    \A u \in teamOwner \ roleOdd : OwnsATeam(member, u) \/ LookedAt(u)

HandlerOf(c) ==
  /\ c.pc = "saveTeam" => c.op \in {"update", "delete", "remove"} /\ c.teamRow.exists
  /\ c.pc = "saveMember" => c.op \in {"add", "remove", "role"}
  /\ c.pc = "repoint" => c.op = "remove"
  /\ c.pc \in {"owners", "transfer", "grant", "grantSave", "admins"} =>
       c.op = "transfer" /\ c.who \subseteq People
  /\ c.pc \in {"owners", "transfer"} => c.who = {} /\ c.losing = {}
  /\ c.pc = "scrub" => c.op # "add"
  /\ c.pc \in {"count", "countSave"} => c.op # "transfer"
  /\ c.pc \in {"saveMember", "owners", "transfer", "grant", "grantSave"} => c.user \in People

Harmless(c) ==
  /\ c.pc = "saveTeam" =>
       c.teamRow.owner = c.teamSeen.owner /\ c.teamRow.count = c.teamSeen.count
  /\ c.pc = "saveMember" =>
       /\ c.seen.role # "owner" /\ c.row.role # "owner"
       /\ c.op = "role" => c.row.active = c.seen.active
  /\ c.pc # "repoint"

TeamHandlerOK(p) ==
  call[p] # NoCall =>
    /\ team[call[p].team].exists /\ HandlerOf(call[p])
    /\ call[p].team \notin teamOdd => Harmless(call[p])

TeamIInv ==
  /\ TeamsTypeOK /\ deaths \in Nat
  /\ call \in [Procs -> TeamCall \cup {NoCall}]
  /\ \A t \in Teams : TeamRight(t) /\ Synced(t)
  /\ \A p \in Procs : TeamHandlerOK(p)
  /\ Settled

LEMMA TeamInitIInv == RequestsInit /\ TeamsInit => TeamIInv
  <1> SUFFICES ASSUME RequestsInit, TeamsInit PROVE TeamIInv
    OBVIOUS
  <1>1. NoMember \in Member /\ NoMember.role = "none" /\ ~NoMember.active /\ NoTeam \in Team /\ ~NoTeam.exists
    BY DEF Member, Team, NoMember, NoTeam
  <1>2. /\ team = [t \in Teams |-> NoTeam] /\ member = [t \in Teams |-> [u \in People |-> NoMember]]
        /\ teamOwner = {} /\ teamOdd = {} /\ roleOdd = {} /\ deaths = 0
    BY DEF TeamsInit, RequestsInit
  <1>3. TeamsTypeOK /\ \A t \in Teams : TeamRight(t) /\ Synced(t)
    BY <1>1, <1>2 DEF TeamsTypeOK, TeamRight, Synced
  <1>4. call \in [Procs -> TeamCall \cup {NoCall}] /\ \A p \in Procs : call[p] = NoCall
    BY DEF RequestsInit
  <1> QED  BY <1>2, <1>3, <1>4 DEF TeamIInv, TeamHandlerOK, Settled

(* The members of a team that are active are counted with a number.        *)
LEMMA Counted == ASSUME NEW m, NEW t PROVE Cardinality(ActiveIn(m, t)) \in Nat
  BY TeamConstantsOK, FS_Subset, FS_CardinalityType DEF ActiveIn

(* An owner cannot be removed from a team that is not odd: he is the last. *)
LEMMA LastOwnerStays ==
  ASSUME TeamIInv, NEW t \in Teams \ teamOdd, NEW u \in People, team[t].exists, NotLastOwner(t, u)
  PROVE  member[t][u].role # "owner"
  <1>1. OwnersIn(member, t) = {team[t].owner}
    BY DEF TeamIInv, TeamRight, Owned
  <1>2. Cardinality({team[t].owner}) = 1
    BY FS_Singleton
  <1> QED  BY <1>1, <1>2 DEF NotLastOwner

(* What is pending when a slot changes from c to x.                        *)
LEMMA TeamSlot ==
  ASSUME call \in [Procs -> TeamCall \cup {NoCall}], NEW p \in Procs,
         NEW x \in TeamCall \cup {NoCall}, call' = [call EXCEPT ![p] = x]
  PROVE  /\ call' \in [Procs -> TeamCall \cup {NoCall}] /\ call'[p] = x
         /\ \A q \in Procs \ {p} : call'[q] = call[q]
         /\ \A u : Granting(u) => Granting(u)' \/ Grants(call[p], u)
         /\ \A u : Grants(x, u) => Granting(u)'
         /\ \A t : Recounting(t) => Recounting(t)' \/ Recounts(call[p], t)
         /\ \A t : Recounts(x, t) => Recounting(t)'
         /\ \A u : LookedAt(u) => LookedAt(u)' \/ LooksAt(call[p], u)
         /\ \A u : LooksAt(x, u) => LookedAt(u)'
  <1>1. /\ call' \in [Procs -> TeamCall \cup {NoCall}] /\ call'[p] = x
        /\ \A q \in Procs \ {p} : call'[q] = call[q]
    BY SlotWritten
  <1>2. ASSUME NEW u PROVE /\ Granting(u) => Granting(u)' \/ Grants(call[p], u)
                           /\ Grants(x, u) => Granting(u)'
    BY <1>1 DEF Granting, Grants
  <1>3. ASSUME NEW t PROVE /\ Recounting(t) => Recounting(t)' \/ Recounts(call[p], t)
                           /\ Recounts(x, t) => Recounting(t)'
    BY <1>1 DEF Recounting, Recounts
  <1>4. ASSUME NEW u PROVE /\ LookedAt(u) => LookedAt(u)' \/ LooksAt(call[p], u)
                           /\ LooksAt(x, u) => LookedAt(u)'
    BY <1>1 DEF LookedAt, LooksAt
  <1> QED  BY <1>1, <1>2, <1>3, <1>4

(* A step on team t leaves the others as they are.                         *)
LEMMA TeamStep ==
  ASSUME TeamIInv, NEW t \in Teams, TeamsTypeOK', deaths' \in Nat, deaths' = 0 => deaths = 0,
         call' \in [Procs -> TeamCall \cup {NoCall}], teamOdd \subseteq teamOdd',
         \A s \in Teams \ {t} : team'[s] = team[s] /\ member'[s] = member[s],
         team[t].exists => team'[t].exists,
         deaths' = 0 => \A u \in People : OwnsATeam(member', u) /\ HasRole(u) => HasRole(u)',
         deaths' = 0 => \A s \in Teams \ {t} : Recounting(s) => Recounting(s)',
         \A p \in Procs : call'[p] = call[p] \/ TeamHandlerOK(p)',
         TeamRight(t)', Synced(t)', Settled'
  PROVE  TeamIInv'
  <1>1. ASSUME NEW s \in Teams \ {t}
        PROVE  TeamRight(s)' /\ Synced(s)'
    <2>1. TeamRight(s) /\ Synced(s) /\ team'[s] = team[s] /\ member'[s] = member[s]
      BY DEF TeamIInv
    <2>2. OwnersIn(member', s) = OwnersIn(member, s) /\ ActiveIn(member', s) = ActiveIn(member, s)
      BY <2>1 DEF OwnersIn, ActiveIn
    <2>3. TeamRight(s)'
      BY <2>1, <2>2 DEF TeamRight, Owned
    <2>4. ASSUME team'[s].exists, s \notin teamOdd', deaths' = 0
          PROVE  /\ HasRole(team[s].owner)'
                 /\ team'[s].count = Cardinality(ActiveIn(member', s)) \/ Recounting(s)'
      <3>1. /\ HasRole(team[s].owner) /\ team[s].owner \in OwnersIn(member', s)
            /\ team[s].count = Cardinality(ActiveIn(member, s)) \/ Recounting(s)
        BY <2>1, <2>2, <2>4 DEF TeamRight, Owned, Synced
      <3>2. team[s].owner \in People /\ OwnsATeam(member', team[s].owner)
        BY <3>1 DEF OwnsATeam, OwnersIn
      <3>3. PICK u \in People : u = team[s].owner
        BY <3>2
      <3>4. HasRole(u)' /\ u = team'[s].owner
        BY <3>1, <3>2, <3>3, <2>1, <2>4
      <3>5. HasRole(team[s].owner)'
        BY <3>4 DEF HasRole, Granting
      <3> QED  BY <2>1, <2>2, <2>4, <3>1, <3>5
    <2> QED  BY <2>3, <2>4 DEF Synced
  <1>2. ASSUME NEW p \in Procs
        PROVE  TeamHandlerOK(p)'
    <2>1. CASE call'[p] = call[p] /\ call[p] # NoCall
      <3>1. TeamHandlerOK(p) /\ call[p] \in TeamCall
        BY <2>1 DEF TeamIInv
      <3>2. call[p].team \in Teams
        BY <3>1 DEF TeamCall
      <3>3. team'[call[p].team].exists
        BY <2>1, <3>1, <3>2 DEF TeamHandlerOK
      <3> QED  BY <2>1, <3>1, <3>3 DEF TeamHandlerOK
    <2> QED  BY <2>1 DEF TeamHandlerOK
  <1> QED  BY <1>1, <1>2 DEF TeamIInv

(* A step that only reads, or ends.                                        *)
LEMMA QuietStep ==
  ASSUME TeamIInv, NEW p \in Procs, NEW t \in Teams, NEW x \in TeamCall \cup {NoCall},
         call' = [call EXCEPT ![p] = x], deaths' = deaths,
         team' = team, member' = member, teamOwner' = teamOwner, teamOdd' = teamOdd,
         roleOdd \subseteq roleOdd', roleOdd' \subseteq People, TeamHandlerOK(p)',
         \A u \in People : Grants(call[p], u) => Grants(x, u) \/ u \in teamOwner,
         \A s \in Teams : Recounts(call[p], s) => Recounts(x, s),
         \A u \in teamOwner \ roleOdd' : LooksAt(call[p], u) => LooksAt(x, u) \/ OwnsATeam(member, u)
  PROVE  TeamIInv'
  <1>1. TeamsTypeOK' /\ deaths' \in Nat
    BY DEF TeamIInv, TeamsTypeOK
  <1>2. /\ call' \in [Procs -> TeamCall \cup {NoCall}] /\ call'[p] = x
        /\ \A q \in Procs \ {p} : call'[q] = call[q]
        /\ \A u : Granting(u) => Granting(u)' \/ Grants(call[p], u)
        /\ \A u : Grants(x, u) => Granting(u)'
        /\ \A s : Recounting(s) => Recounting(s)' \/ Recounts(call[p], s)
        /\ \A s : Recounts(x, s) => Recounting(s)'
        /\ \A u : LookedAt(u) => LookedAt(u)' \/ LooksAt(call[p], u)
        /\ \A u : LooksAt(x, u) => LookedAt(u)'
    BY TeamSlot DEF TeamIInv
  <1>3. \A u \in People : HasRole(u) => HasRole(u)'
    BY <1>2 DEF HasRole
  <1>4. \A s \in Teams : Recounting(s) => Recounting(s)'
    BY <1>2
  <1>5. TeamRight(t)'
    BY DEF TeamIInv, TeamRight, Owned
  <1>6. Synced(t)'
    <2> SUFFICES ASSUME team[t].exists, t \notin teamOdd, deaths = 0
                 PROVE  /\ HasRole(team[t].owner)'
                        /\ team[t].count = Cardinality(ActiveIn(member, t)) \/ Recounting(t)'
      BY DEF Synced
    <2>1. Synced(t) /\ TeamRight(t)
      BY DEF TeamIInv
    <2>2. team[t].owner \in People
      BY <2>1 DEF TeamRight, Owned, OwnersIn
    <2> QED  BY <2>1, <2>2, <1>3, <1>4 DEF Synced
  <1>7. Settled'
    BY <1>2 DEF TeamIInv, Settled
  <1> HIDE DEF HasRole, Recounting, LookedAt, Granting, Settled, Synced, TeamRight, TeamHandlerOK
  <1>8. \A q \in Procs : call'[q] = call[q] \/ TeamHandlerOK(q)'
    BY <1>2
  <1> QED  BY <1>1, <1>2, <1>3, <1>4, <1>5, <1>6, <1>7, <1>8, TeamStep

(* Member u of team t becomes r.                                           *)
LEMMA MemberBecomes ==
  ASSUME TeamsTypeOK, NEW t \in Teams, NEW u \in People, NEW r \in Member,
         member' = [member EXCEPT ![t][u] = r]
  PROVE  /\ member' \in [Teams -> [People -> Member]] /\ member'[t][u] = r
         /\ \A v \in People \ {u} : member'[t][v] = member[t][v]
         /\ \A s \in Teams \ {t} : member'[s] = member[s]
  BY DEF TeamsTypeOK

(* Row t of the teams becomes r.                                           *)
LEMMA TeamBecomes ==
  ASSUME TeamsTypeOK, NEW t \in Teams, NEW r \in Team, team' = [team EXCEPT ![t] = r]
  PROVE  /\ team' \in [Teams -> Team] /\ team'[t] = r
         /\ \A s \in Teams \ {t} : team'[s] = team[s]
  BY DEF TeamsTypeOK

LEMMA CreateTeamIInv ==
  ASSUME TeamIInv, NEW t \in Teams, NEW u \in People, CreateTeam(t, u)
  PROVE  TeamIInv'
  <1> DEFINE row == [exists |-> TRUE, active |-> TRUE, owner |-> u, count |-> 1]
             own == [role |-> "owner", active |-> TRUE]
  <1>1. row \in Team /\ row.exists /\ row.owner = u /\ row.count = 1
    BY DEF Team
  <1>2. own \in Member /\ own.role = "owner" /\ own.active
    BY DEF Member
  <1>3. /\ ~team[t].exists /\ team' = [team EXCEPT ![t] = row] /\ member' = [member EXCEPT ![t][u] = own]
        /\ teamOwner' = teamOwner \cup {u} /\ teamOdd' = teamOdd /\ roleOdd' = roleOdd
        /\ call' = call /\ deaths' = deaths
    BY DEF CreateTeam, OneStep
  <1> HIDE DEF row, own
  <1>4. TeamsTypeOK /\ \A v \in People : member[t][v].role = "none" /\ ~member[t][v].active
    BY <1>3 DEF TeamIInv, TeamRight
  <1>5. /\ member' \in [Teams -> [People -> Member]] /\ member'[t][u] = own
        /\ \A v \in People \ {u} : member'[t][v] = member[t][v]
        /\ \A s \in Teams \ {t} : member'[s] = member[s]
    BY <1>2, <1>3, <1>4, MemberBecomes
  <1>6. /\ team' \in [Teams -> Team] /\ team'[t] = row
        /\ \A s \in Teams \ {t} : team'[s] = team[s]
    BY <1>1, <1>3, <1>4, TeamBecomes
  <1>7. TeamsTypeOK' /\ deaths' \in Nat
    BY <1>3, <1>4, <1>5, <1>6 DEF TeamsTypeOK, TeamIInv
  <1>8. OwnersIn(member', t) = {u} /\ ActiveIn(member', t) = {u} /\ Cardinality({u}) = 1
    <2>1. \A v \in People : member'[t][v].active <=> v = u
      BY <1>2, <1>4, <1>5
    <2>2. member'[t][u].role = "owner"
      BY <1>2, <1>5
    <2>3. Cardinality({u}) = 1
      BY FS_Singleton
    <2>4. OwnersIn(member', t) = {u}
      BY <2>1, <2>2 DEF OwnersIn
    <2>5. ActiveIn(member', t) = {u}
      BY <2>1 DEF ActiveIn
    <2> QED  BY <2>3, <2>4, <2>5
  <1>9. TeamRight(t)'
    BY <1>1, <1>2, <1>4, <1>5, <1>6, <1>8 DEF TeamRight, Owned
  <1>10. Synced(t)'
    BY <1>1, <1>3, <1>6, <1>8 DEF Synced, HasRole
  <1>11. /\ \A v : HasRole(v) => HasRole(v)'
         /\ \A s : Recounting(s) => Recounting(s)'
         /\ \A v : LookedAt(v) => LookedAt(v)'
    BY <1>3 DEF HasRole, Granting, Recounting, LookedAt
  <1>12. Settled'
    <2> SUFFICES ASSUME teamOdd = {}, deaths = 0, NEW v \in teamOwner' \ roleOdd, ~LookedAt(v)
                 PROVE  OwnsATeam(member', v)
      BY <1>3, <1>11 DEF Settled
    <2>1. CASE v = u
      BY <2>1, <1>8 DEF OwnsATeam
    <2>2. CASE v # u
      <3>1. PICK s \in Teams : v \in OwnersIn(member, s)
        BY <1>3, <2>2 DEF TeamIInv, Settled, OwnsATeam
      <3>2. s # t
        BY <3>1, <1>4 DEF OwnersIn
      <3> QED  BY <3>1, <3>2, <1>5 DEF OwnsATeam, OwnersIn
    <2> QED  BY <2>1, <2>2
  <1>13. call' \in [Procs -> TeamCall \cup {NoCall}]
    BY <1>3 DEF TeamIInv
  <1> HIDE DEF HasRole, Recounting, LookedAt, Settled, Synced, TeamRight
  <1> QED  BY <1>3, <1>5, <1>6, <1>7, <1>9, <1>10, <1>11, <1>12, <1>13, TeamStep

-----------------------------------------------------------------------------
(* A handler that starts on team t.                                        *)
LEMMA Begun ==
  ASSUME TeamIInv, NEW p \in Procs, NEW t \in Teams, NEW x \in TeamCall, x.team = t, team[t].exists,
         HandlerOf(x), t \notin teamOdd => Harmless(x), Begin(p, x), UNCHANGED teamVars
  PROVE  TeamIInv'
  <1>1. call[p] = NoCall /\ call' = [call EXCEPT ![p] = x] /\ deaths' = deaths
    BY DEF Begin
  <1>2. call'[p] = x
    BY <1>1, TeamSlot DEF TeamIInv
  <1>3. TeamHandlerOK(p)'
    BY <1>2 DEF TeamHandlerOK, teamVars
  <1>4. /\ \A u \in People : ~Grants(call[p], u)
        /\ \A s \in Teams : ~Recounts(call[p], s)
        /\ \A u \in teamOwner \ roleOdd' : ~LooksAt(call[p], u)
    BY <1>1 DEF Grants, Recounts, LooksAt
  <1>5. roleOdd' = roleOdd /\ roleOdd \subseteq People
    BY DEF TeamIInv, TeamsTypeOK, teamVars
  <1> QED  BY <1>1, <1>3, <1>4, <1>5, QuietStep DEF teamVars

LEMMA HandlingOK ==
  ASSUME NEW pc \in {"saveTeam", "saveMember", "owners"}, NEW t \in Teams, NEW u \in People \cup {Nobody},
         NEW op \in {"update", "delete", "add", "remove", "role", "transfer"}
  PROVE  /\ Handling(pc, op, t, u) \in TeamCall
         /\ Handling(pc, op, t, u).pc = pc /\ Handling(pc, op, t, u).op = op
         /\ Handling(pc, op, t, u).team = t /\ Handling(pc, op, t, u).user = u
  BY DEF Handling, TeamCall, NoTeam, NoMember, Team, Member

LEMMA ChangeTeamIInv ==
  ASSUME TeamIInv, NEW p \in Procs, NEW t \in Teams, NEW op \in {"update", "delete"}, NEW active \in BOOLEAN,
         NEW who \in SUBSET (People \cup {Nobody}), team[t].exists, ChangeTeam(p, op, t, active, who)
  PROVE  TeamIInv'
  <1> DEFINE h == Handling("saveTeam", op, t, Nobody)
             r == [team[t] EXCEPT !.active = active]
             x == [h EXCEPT !.teamSeen = team[t], !.teamRow = r, !.who = who]
  <1>1. h \in TeamCall /\ h.pc = "saveTeam" /\ h.op = op /\ h.team = t
    BY HandlingOK
  <1>2. team[t] \in Team
    BY DEF TeamIInv, TeamsTypeOK
  <1>3. r \in Team /\ r.exists = team[t].exists /\ r.owner = team[t].owner /\ r.count = team[t].count
    BY <1>2 DEF Team
  <1>4. Begin(p, x) /\ UNCHANGED teamVars
    BY DEF ChangeTeam
  <1> HIDE DEF h, r
  <1>5. /\ x \in TeamCall /\ x.pc = "saveTeam" /\ x.op = op /\ x.team = t
        /\ x.teamRow = r /\ x.teamSeen = team[t]
    BY <1>1, <1>2, <1>3 DEF TeamCall
  <1> HIDE DEF x
  <1>6. HandlerOf(x) /\ Harmless(x)
    BY <1>3, <1>5 DEF HandlerOf, Harmless
  <1> QED  BY <1>4, <1>5, <1>6, Begun

LEMMA UpdateTeamIInv ==
  ASSUME TeamIInv, NEW p \in Procs, NEW t \in Teams, NEW caller, NEW a \in BOOLEAN,
         UpdateTeam(p, t, caller, a) \/ DeleteTeam(p, t, caller)
  PROVE  TeamIInv'
  <1>1. CASE UpdateTeam(p, t, caller, a)
    BY <1>1, ChangeTeamIInv DEF UpdateTeam
  <1>2. CASE DeleteTeam(p, t, caller)
    <2>1. {team[t].owner} \in SUBSET (People \cup {Nobody})
      BY DEF TeamIInv, TeamsTypeOK, Team
    <2> QED  BY <1>2, <2>1, ChangeTeamIInv DEF DeleteTeam
  <1> QED  BY <1>1, <1>2

LEMMA ChangeMemberIInv ==
  ASSUME TeamIInv, NEW p \in Procs, NEW t \in Teams, NEW u \in People, NEW op \in {"add", "remove", "role"},
         NEW r \in Member, team[t].exists, ChangeMember(p, op, t, u, r),
         t \notin teamOdd => member[t][u].role # "owner" /\ r.role # "owner",
         op = "role" => r.active = member[t][u].active
  PROVE  TeamIInv'
  <1> DEFINE h == Handling("saveMember", op, t, u)
             w == IF member[t][u].role = "owner" THEN {u} ELSE {}
             x == [h EXCEPT !.seen = member[t][u], !.row = r, !.who = w]
  <1>1. h \in TeamCall /\ h.pc = "saveMember" /\ h.op = op /\ h.team = t /\ h.user = u
    BY HandlingOK
  <1>2. member[t][u] \in Member
    BY DEF TeamIInv, TeamsTypeOK
  <1>3. Begin(p, x) /\ UNCHANGED teamVars
    BY DEF ChangeMember
  <1>4. w \in SUBSET (People \cup {Nobody})
    OBVIOUS
  <1> HIDE DEF h, w
  <1>5. /\ x \in TeamCall /\ x.pc = "saveMember" /\ x.op = op /\ x.team = t /\ x.user = u
        /\ x.row = r /\ x.seen = member[t][u]
    BY <1>1, <1>2, <1>4 DEF TeamCall
  <1> HIDE DEF x
  <1>6. HandlerOf(x) /\ (t \notin teamOdd => Harmless(x))
    BY <1>5 DEF HandlerOf, Harmless
  <1> QED  BY <1>3, <1>5, <1>6, Begun

LEMMA AddMemberIInv ==
  ASSUME TeamIInv, NEW p \in Procs, NEW t \in Teams, NEW u \in People, NEW caller, AddMember(p, t, u, caller)
  PROVE  TeamIInv'
  <1> DEFINE was == member[t][u].role
             r == [role |-> IF was = "none" THEN "member" ELSE was, active |-> TRUE]
  <1>1. member[t][u] \in Member
    BY DEF TeamIInv, TeamsTypeOK
  <1>2. r \in Member /\ (r.role = "owner" => was = "owner")
    BY <1>1 DEF Member
  <1>3. team[t].exists /\ ~member[t][u].active /\ ChangeMember(p, "add", t, u, r)
    BY DEF AddMember
  <1>4. t \notin teamOdd => was # "owner"
    BY <1>3 DEF TeamIInv, TeamRight, Owned, OwnersIn
  <1> HIDE DEF r
  <1> QED  BY <1>2, <1>3, <1>4, ChangeMemberIInv

LEMMA RemoveMemberIInv ==
  ASSUME TeamIInv, NEW p \in Procs, NEW t \in Teams, NEW u \in People, NEW caller,
         RemoveMember(p, t, u, caller)
  PROVE  TeamIInv'
  <1> DEFINE r == [member[t][u] EXCEPT !.active = FALSE]
  <1>1. member[t][u] \in Member
    BY DEF TeamIInv, TeamsTypeOK
  <1>2. r \in Member /\ r.role = member[t][u].role
    BY <1>1 DEF Member
  <1>3. team[t].exists /\ NotLastOwner(t, u) /\ ChangeMember(p, "remove", t, u, r)
    BY DEF RemoveMember, MayRemove
  <1>4. t \notin teamOdd => member[t][u].role # "owner"
    BY <1>3, LastOwnerStays
  <1> HIDE DEF r
  <1> QED  BY <1>2, <1>3, <1>4, ChangeMemberIInv

LEMMA DemoteMemberIInv ==
  ASSUME TeamIInv, NEW p \in Procs, NEW t \in Teams, NEW u \in People, NEW caller,
         NEW role \in {"admin", "member"}, DemoteMember(p, t, u, caller, role)
  PROVE  TeamIInv'
  <1> DEFINE r == [member[t][u] EXCEPT !.role = role]
  <1>1. member[t][u] \in Member
    BY DEF TeamIInv, TeamsTypeOK
  <1>2. r \in Member /\ r.role # "owner" /\ r.active = member[t][u].active
    BY <1>1 DEF Member
  <1>3. team[t].exists /\ NotLastOwner(t, u) /\ ChangeMember(p, "role", t, u, r)
    BY DEF DemoteMember
  <1>4. t \notin teamOdd => member[t][u].role # "owner"
    BY <1>3, LastOwnerStays
  <1> HIDE DEF r
  <1> QED  BY <1>2, <1>3, <1>4, ChangeMemberIInv

LEMMA TransferOwnershipIInv ==
  ASSUME TeamIInv, NEW p \in Procs, NEW t \in Teams, NEW u \in People, NEW caller,
         TransferOwnership(p, t, u, caller)
  PROVE  TeamIInv'
  <1> DEFINE h == Handling("owners", "transfer", t, u)
             x == [h EXCEPT !.seen = member[t][u]]
  <1>1. h \in TeamCall /\ h.pc = "owners" /\ h.op = "transfer" /\ h.team = t /\ h.user = u /\ h.who = {}
        /\ h.losing = {}
    BY HandlingOK DEF Handling
  <1>2. member[t][u] \in Member
    BY DEF TeamIInv, TeamsTypeOK
  <1>3. Begin(p, x) /\ team[t].exists /\ UNCHANGED teamVars
    BY DEF TransferOwnership
  <1> HIDE DEF h
  <1>4. /\ x \in TeamCall /\ x.pc = "owners" /\ x.op = "transfer" /\ x.team = t /\ x.user = u
        /\ x.who = {} /\ x.losing = {}
    BY <1>1, <1>2 DEF TeamCall
  <1> HIDE DEF x
  <1>5. HandlerOf(x) /\ Harmless(x)
    BY <1>4 DEF HandlerOf, Harmless
  <1> QED  BY <1>3, <1>4, <1>5, Begun

-----------------------------------------------------------------------------
(* A handler in flight, as a value that a step does not touch.             *)
LEMMA TeamHandler ==
  ASSUME TeamIInv, NEW p \in Procs, call[p] # NoCall
  PROVE  \E c \in TeamCall :
           /\ c = call[p] /\ c # NoCall /\ c.team \in Teams /\ team[c.team].exists /\ HandlerOf(c)
           /\ c.team \notin teamOdd => Harmless(c)
  <1>1. call[p] \in TeamCall /\ TeamHandlerOK(p)
    BY DEF TeamIInv
  <1> QED  BY <1>1 DEF TeamHandlerOK, TeamCall

(* It goes on to x, or ends, and nothing else changes but roleOdd.         *)
LEMMA Continues ==
  ASSUME TeamIInv, NEW p \in Procs, NEW c \in TeamCall, c = call[p], c # NoCall, c.team \in Teams,
         NEW x \in TeamCall \cup {NoCall}, call' = [call EXCEPT ![p] = x], deaths' = deaths,
         team' = team, member' = member, teamOwner' = teamOwner, teamOdd' = teamOdd,
         roleOdd \subseteq roleOdd', roleOdd' \subseteq People,
         x # NoCall => x.team = c.team /\ HandlerOf(x) /\ (c.team \notin teamOdd => Harmless(x)),
         \A u \in People : Grants(c, u) => Grants(x, u) \/ u \in teamOwner,
         \A s \in Teams : Recounts(c, s) => Recounts(x, s),
         \A u \in teamOwner \ roleOdd' : LooksAt(c, u) => LooksAt(x, u) \/ OwnsATeam(member, u)
  PROVE  TeamIInv'
  <1>1. call'[p] = x
    BY TeamSlot DEF TeamIInv
  <1>2. team[c.team].exists
    BY DEF TeamIInv, TeamHandlerOK
  <1>3. TeamHandlerOK(p)'
    BY <1>1, <1>2 DEF TeamHandlerOK
  <1> QED  BY <1>3, QuietStep

LEMMA RepointIInv == ASSUME TeamIInv, NEW p \in Procs, Repoint(p) PROVE TeamIInv'
  <1>1. PICK c \in TeamCall :
           /\ c = call[p] /\ c # NoCall /\ c.team \in Teams /\ team[c.team].exists /\ HandlerOf(c)
           /\ c.team \notin teamOdd => Harmless(c)
    BY TeamHandler DEF Repoint, At
  <1> DEFINE t == c.team
             left == OwnersIn(member, t)
  <1>2. c.pc = "repoint" /\ c.op = "remove" /\ t \in teamOdd /\ UNCHANGED teamVars
    BY <1>1 DEF Repoint, At, HandlerOf, Harmless
  <1>3. team[t] \in Team /\ roleOdd \subseteq People
    BY <1>1 DEF TeamIInv, TeamsTypeOK
  <1>4. \/ \E v \in left : GotoState(p, [c EXCEPT !.pc = "saveTeam", !.teamSeen = team[t],
                                                  !.teamRow = [team[t] EXCEPT !.owner = v]])
        \/ GotoState(p, [c EXCEPT !.pc = "scrub"])
    BY <1>1 DEF Repoint, Goto
  <1>5. \E x \in TeamCall : /\ call' = [call EXCEPT ![p] = x] /\ x.team = t /\ x.op = "remove"
                            /\ x.who = c.who /\ x.losing = c.losing /\ deaths' = deaths
                            /\ (x.pc = "scrub" \/ (x.pc = "saveTeam" /\ x.teamRow.exists))
    <2>1. CASE GotoState(p, [c EXCEPT !.pc = "scrub"])
      <3> DEFINE x == [c EXCEPT !.pc = "scrub"]
      <3>1. /\ x \in TeamCall /\ x.pc = "scrub" /\ x.team = t /\ x.op = "remove"
            /\ x.who = c.who /\ x.losing = c.losing
        BY <1>2 DEF TeamCall
      <3>2. call' = [call EXCEPT ![p] = x] /\ deaths' = deaths
        BY <2>1 DEF GotoState
      <3> HIDE DEF x
      <3> QED  BY <3>1, <3>2
    <2>2. ASSUME NEW v \in left, GotoState(p, [c EXCEPT !.pc = "saveTeam", !.teamSeen = team[t],
                                                        !.teamRow = [team[t] EXCEPT !.owner = v]])
          PROVE  \E x \in TeamCall : /\ call' = [call EXCEPT ![p] = x] /\ x.team = t /\ x.op = "remove"
                            /\ x.who = c.who /\ x.losing = c.losing /\ deaths' = deaths
                            /\ (x.pc = "scrub" \/ (x.pc = "saveTeam" /\ x.teamRow.exists))
      <3> DEFINE r == [team[t] EXCEPT !.owner = v]
                 x == [c EXCEPT !.pc = "saveTeam", !.teamSeen = team[t], !.teamRow = r]
      <3>1. r \in Team /\ r.exists
        BY <1>1, <1>3 DEF Team, OwnersIn
      <3>2. call' = [call EXCEPT ![p] = x] /\ deaths' = deaths
        BY <2>2 DEF GotoState
      <3> HIDE DEF r
      <3>3. /\ x \in TeamCall /\ x.pc = "saveTeam" /\ x.team = t /\ x.op = "remove"
            /\ x.who = c.who /\ x.losing = c.losing /\ x.teamRow.exists
        BY <1>2, <1>3, <3>1 DEF TeamCall
      <3> HIDE DEF x
      <3> QED  BY <3>2, <3>3
    <2> QED  BY <1>4, <2>1, <2>2
  <1>6. PICK x \in TeamCall : /\ call' = [call EXCEPT ![p] = x] /\ x.team = t /\ x.op = "remove"
                            /\ x.who = c.who /\ x.losing = c.losing /\ deaths' = deaths
                            /\ (x.pc = "scrub" \/ (x.pc = "saveTeam" /\ x.teamRow.exists))
    BY <1>5
  <1>7. HandlerOf(x) /\ x # NoCall
    BY <1>6, TeamConstantsOK DEF HandlerOf
  <1>8. /\ \A u \in People : ~Grants(c, u)
        /\ \A s \in Teams : Recounts(c, s) => Recounts(x, s)
        /\ \A u : LooksAt(c, u) => LooksAt(x, u)
    BY <1>2, <1>6, <1>7 DEF Grants, Recounts, LooksAt
  <1> HIDE DEF left
  <1> QED  BY <1>1, <1>2, <1>3, <1>6, <1>7, <1>8, Continues DEF teamVars

LEMMA CountMembersIInv == ASSUME TeamIInv, NEW p \in Procs, CountMembers(p) PROVE TeamIInv'
  <1>1. PICK c \in TeamCall :
           /\ c = call[p] /\ c # NoCall /\ c.team \in Teams /\ team[c.team].exists /\ HandlerOf(c)
           /\ c.team \notin teamOdd => Harmless(c)
    BY TeamHandler DEF CountMembers, At
  <1> DEFINE n == Cardinality(ActiveIn(member, c.team))
             x == [c EXCEPT !.pc = "countSave", !.n = n]
  <1>2. /\ c.pc = "count" /\ UNCHANGED teamVars /\ roleOdd \subseteq People
        /\ call' = [call EXCEPT ![p] = x] /\ deaths' = deaths
    BY <1>1 DEF CountMembers, At, GotoState, TeamIInv, TeamsTypeOK
  <1>3. n \in Nat
    BY Counted
  <1> HIDE DEF n
  <1>4. /\ x \in TeamCall /\ x.pc = "countSave" /\ x.team = c.team /\ x.op = c.op
        /\ x.who = c.who /\ x.losing = c.losing
    BY <1>2, <1>3 DEF TeamCall
  <1> HIDE DEF x
  <1>5. x # NoCall /\ HandlerOf(x) /\ Harmless(x)
    BY <1>1, <1>2, <1>4, TeamConstantsOK DEF HandlerOf, Harmless
  <1>6. /\ \A u \in People : ~Grants(c, u)
        /\ \A s \in Teams : Recounts(c, s) => Recounts(x, s)
        /\ \A u : LooksAt(c, u) => LooksAt(x, u)
    BY <1>2, <1>4, <1>5 DEF Grants, Recounts, LooksAt
  <1> QED  BY <1>1, <1>2, <1>4, <1>5, <1>6, Continues DEF teamVars

LEMMA ReadOwnersIInv == ASSUME TeamIInv, NEW p \in Procs, ReadOwners(p) PROVE TeamIInv'
  <1>1. PICK c \in TeamCall :
           /\ c = call[p] /\ c # NoCall /\ c.team \in Teams /\ team[c.team].exists /\ HandlerOf(c)
           /\ c.team \notin teamOdd => Harmless(c)
    BY TeamHandler DEF ReadOwners, At
  <1> DEFINE o == OwnersIn(member, c.team) \ {c.user}
             x == [c EXCEPT !.pc = "transfer", !.owners = o]
  <1>2. /\ c.pc = "owners" /\ UNCHANGED teamVars /\ roleOdd \subseteq People
        /\ call' = [call EXCEPT ![p] = x] /\ deaths' = deaths
    BY <1>1 DEF ReadOwners, At, GotoState, TeamIInv, TeamsTypeOK
  <1>3. o \in SUBSET People
    BY DEF OwnersIn
  <1> HIDE DEF o
  <1>4. /\ x \in TeamCall /\ x.pc = "transfer" /\ x.team = c.team /\ x.op = c.op
        /\ x.who = c.who /\ x.losing = c.losing /\ x.user = c.user
    BY <1>2, <1>3 DEF TeamCall
  <1> HIDE DEF x
  <1>5. x # NoCall /\ HandlerOf(x) /\ Harmless(x)
    BY <1>1, <1>2, <1>4, TeamConstantsOK DEF HandlerOf, Harmless
  <1>6. /\ \A u \in People : ~Grants(c, u)
        /\ \A s \in Teams : ~Recounts(c, s)
        /\ \A u : LooksAt(c, u) => LooksAt(x, u)
    BY <1>1, <1>2, <1>4, <1>5 DEF Grants, Recounts, LooksAt, HandlerOf
  <1> QED  BY <1>1, <1>2, <1>4, <1>5, <1>6, Continues DEF teamVars

LEMMA GrantTeamOwnerIInv == ASSUME TeamIInv, NEW p \in Procs, GrantTeamOwner(p) PROVE TeamIInv'
  <1>1. PICK c \in TeamCall :
           /\ c = call[p] /\ c # NoCall /\ c.team \in Teams /\ team[c.team].exists /\ HandlerOf(c)
           /\ c.team \notin teamOdd => Harmless(c)
    BY TeamHandler DEF GrantTeamOwner, At
  <1> DEFINE pc == IF c.user \in teamOwner THEN "admins" ELSE "grantSave"
             x == [c EXCEPT !.pc = pc]
  <1>2. /\ c.pc = "grant" /\ UNCHANGED teamVars /\ roleOdd \subseteq People
        /\ call' = [call EXCEPT ![p] = x] /\ deaths' = deaths
    BY <1>1 DEF GrantTeamOwner, At, Goto, GotoState, TeamIInv, TeamsTypeOK
  <1>3. pc \in {"admins", "grantSave"} /\ (pc = "admins" => c.user \in teamOwner)
    OBVIOUS
  <1> HIDE DEF pc
  <1>4. /\ x \in TeamCall /\ x.pc = pc /\ x.team = c.team /\ x.op = c.op
        /\ x.who = c.who /\ x.losing = c.losing /\ x.user = c.user
    BY <1>2, <1>3 DEF TeamCall
  <1> HIDE DEF x
  <1>5. x # NoCall /\ HandlerOf(x) /\ Harmless(x)
    BY <1>1, <1>2, <1>3, <1>4, TeamConstantsOK DEF HandlerOf, Harmless
  <1>6. /\ \A u \in People : Grants(c, u) => Grants(x, u) \/ u \in teamOwner
        /\ \A s \in Teams : ~Recounts(c, s)
        /\ \A u : LooksAt(c, u) => LooksAt(x, u)
    BY <1>1, <1>2, <1>3, <1>4, <1>5 DEF Grants, Recounts, LooksAt, HandlerOf
  <1> QED  BY <1>1, <1>2, <1>4, <1>5, <1>6, Continues DEF teamVars

LEMMA PreviousOwnersIInv == ASSUME TeamIInv, NEW p \in Procs, PreviousOwners(p) PROVE TeamIInv'
  <1>1. PICK c \in TeamCall :
           /\ c = call[p] /\ c # NoCall /\ c.team \in Teams /\ team[c.team].exists /\ HandlerOf(c)
           /\ c.team \notin teamOdd => Harmless(c)
    BY TeamHandler DEF PreviousOwners, At
  <1> DEFINE admins == {u \in People : member[c.team][u].active /\ member[c.team][u].role = "admin"}
             x == [c EXCEPT !.pc = "scrub", !.who = admins]
  <1>2. /\ c.pc = "admins" /\ team' = team /\ member' = member /\ teamOwner' = teamOwner
        /\ teamOdd' = teamOdd /\ roleOdd \subseteq People
        /\ call' = [call EXCEPT ![p] = x] /\ deaths' = deaths
        /\ roleOdd' = roleOdd \cup {u \in c.who \ admins : ~OwnsATeam(member, u)}
    BY <1>1 DEF PreviousOwners, At, GotoState, TeamIInv, TeamsTypeOK
  <1>3. admins \in SUBSET (People \cup {Nobody})
    OBVIOUS
  <1> HIDE DEF admins
  <1>4. /\ x \in TeamCall /\ x.pc = "scrub" /\ x.team = c.team /\ x.op = c.op
        /\ x.who = admins /\ x.losing = c.losing
    BY <1>2, <1>3 DEF TeamCall
  <1> HIDE DEF x
  <1>5. x # NoCall /\ HandlerOf(x) /\ Harmless(x) /\ c.who \subseteq People
    BY <1>1, <1>2, <1>4, TeamConstantsOK DEF HandlerOf, Harmless
  <1>6. /\ \A u \in People : ~Grants(c, u)
        /\ \A s \in Teams : ~Recounts(c, s)
        /\ \A u \in teamOwner \ roleOdd' : LooksAt(c, u) => LooksAt(x, u) \/ OwnsATeam(member, u)
    BY <1>1, <1>2, <1>4, <1>5 DEF Grants, Recounts, LooksAt, HandlerOf
  <1>7. roleOdd \subseteq roleOdd' /\ roleOdd' \subseteq People
    BY <1>2, <1>5
  <1> QED  BY <1>1, <1>2, <1>4, <1>5, <1>6, <1>7, Continues

LEMMA LookAtRoleIInv ==
  ASSUME TeamIInv, NEW p \in Procs, NEW u \in People, LookAtRole(p, u) PROVE TeamIInv'
  <1>1. PICK c \in TeamCall :
           /\ c = call[p] /\ c # NoCall /\ c.team \in Teams /\ team[c.team].exists /\ HandlerOf(c)
           /\ c.team \notin teamOdd => Harmless(c)
    BY TeamHandler DEF LookAtRole, At
  <1> DEFINE l == c.losing \cup ({u} \cap {v \in teamOwner : ~OwnsATeam(member, v)})
             w == c.who \ {u}
             x == [c EXCEPT !.who = w, !.losing = l]
  <1>2. /\ c.pc = "scrub" /\ UNCHANGED teamVars /\ roleOdd \subseteq People
        /\ call' = [call EXCEPT ![p] = x] /\ deaths' = deaths
    BY <1>1 DEF LookAtRole, At, GotoState, TeamIInv, TeamsTypeOK
  <1>3. w \in SUBSET (People \cup {Nobody}) /\ l \in SUBSET People
    BY DEF TeamCall
  <1>4. \A v \in teamOwner : v \in c.who \cup c.losing => v \in w \cup l \/ OwnsATeam(member, v)
    OBVIOUS
  <1> HIDE DEF l, w
  <1>5. /\ x \in TeamCall /\ x.pc = "scrub" /\ x.team = c.team /\ x.op = c.op
        /\ x.who = w /\ x.losing = l
    BY <1>2, <1>3 DEF TeamCall
  <1> HIDE DEF x
  <1>6. x # NoCall /\ HandlerOf(x) /\ Harmless(x)
    BY <1>1, <1>2, <1>5, TeamConstantsOK DEF HandlerOf, Harmless
  <1>7. /\ \A v \in People : ~Grants(c, v)
        /\ \A s \in Teams : Recounts(c, s) => Recounts(x, s)
        /\ \A v \in teamOwner \ roleOdd' : LooksAt(c, v) => LooksAt(x, v) \/ OwnsATeam(member, v)
    BY <1>1, <1>2, <1>4, <1>5, <1>6 DEF Grants, Recounts, LooksAt
  <1> QED  BY <1>1, <1>2, <1>5, <1>6, <1>7, Continues DEF teamVars

LEMMA ScrubbedIInv == ASSUME TeamIInv, NEW p \in Procs, Scrubbed(p) PROVE TeamIInv'
  <1>1. PICK c \in TeamCall :
           /\ c = call[p] /\ c # NoCall /\ c.team \in Teams /\ team[c.team].exists /\ HandlerOf(c)
           /\ c.team \notin teamOdd => Harmless(c)
    BY TeamHandler DEF Scrubbed, At
  <1>2. /\ c.pc = "scrub" /\ c.who = {} /\ c.losing = {} /\ UNCHANGED teamVars /\ roleOdd \subseteq People
    BY <1>1 DEF Scrubbed, At, TeamIInv, TeamsTypeOK
  <1>3. /\ \A u \in People : ~Grants(c, u)
        /\ \A u : ~LooksAt(c, u)
    BY <1>2 DEF Grants, LooksAt
  <1>4. CASE c.op = "remove"
    <2> DEFINE x == [c EXCEPT !.pc = "count"]
    <2>1. call' = [call EXCEPT ![p] = x] /\ deaths' = deaths
      BY <1>1, <1>4 DEF Scrubbed, Goto, GotoState
    <2>2. x \in TeamCall /\ x.pc = "count" /\ x.team = c.team /\ x.op = c.op
      BY <1>2 DEF TeamCall
    <2> HIDE DEF x
    <2>3. x # NoCall /\ HandlerOf(x) /\ Harmless(x)
      BY <1>4, <2>2, TeamConstantsOK DEF HandlerOf, Harmless
    <2>4. \A s \in Teams : Recounts(c, s) => Recounts(x, s)
      BY <1>2, <2>2, <2>3 DEF Recounts
    <2> QED  BY <1>1, <1>2, <1>3, <2>1, <2>2, <2>3, <2>4, Continues DEF teamVars
  <1>5. CASE c.op # "remove"
    <2>1. call' = [call EXCEPT ![p] = NoCall] /\ deaths' = deaths
      BY <1>1, <1>5 DEF Scrubbed, End, GotoState
    <2>2. \A s \in Teams : ~Recounts(c, s)
      BY <1>1, <1>2, <1>5 DEF Recounts, HandlerOf
    <2> QED  BY <1>1, <1>2, <1>3, <2>1, <2>2, Continues DEF teamVars
  <1> QED  BY <1>4, <1>5

-----------------------------------------------------------------------------
(* A save of rows of team t, by a handler that goes on to x or ends, which *)
(* leaves the owner as he is unless the team becomes odd.                  *)
LEMMA RowsSaved ==
  ASSUME TeamIInv, NEW p \in Procs, NEW c \in TeamCall, c = call[p], c # NoCall, NEW t \in Teams, c.team = t,
         NEW x \in TeamCall \cup {NoCall}, call' = [call EXCEPT ![p] = x], deaths' = deaths,
         x # NoCall => x.team = t /\ HandlerOf(x) /\ (t \notin teamOdd' => Harmless(x)),
         teamOwner' = teamOwner, roleOdd' = roleOdd, teamOdd \subseteq teamOdd', TeamsTypeOK',
         \A s \in Teams \ {t} : team'[s] = team[s] /\ member'[s] = member[s],
         team[t].exists, team'[t].exists,
         c.op # "transfer",
         \A s \in Teams \ {t} : Recounts(c, s) => Recounts(x, s),
         t \notin teamOdd' =>
           /\ team'[t].owner = team[t].owner
           /\ OwnersIn(member', t) = OwnersIn(member, t)
           /\ \A u \in People : member'[t][u].role = "owner" => member[t][u].role = "owner"
           /\ \/ team'[t].count = Cardinality(ActiveIn(member', t))
              \/ Recounts(x, t)
              \/ /\ team'[t].count = team[t].count /\ ActiveIn(member', t) = ActiveIn(member, t)
                 /\ Recounts(c, t) => Recounts(x, t)
  PROVE  TeamIInv'
  <1>1. /\ call' \in [Procs -> TeamCall \cup {NoCall}] /\ call'[p] = x
        /\ \A q \in Procs \ {p} : call'[q] = call[q]
        /\ \A u : Granting(u) => Granting(u)' \/ Grants(c, u)
        /\ \A s : Recounting(s) => Recounting(s)' \/ Recounts(c, s)
        /\ \A s : Recounts(x, s) => Recounting(s)'
        /\ \A u : LookedAt(u) => LookedAt(u)' \/ LooksAt(c, u)
    BY TeamSlot DEF TeamIInv
  <1>2. HandlerOf(c)
    BY DEF TeamIInv, TeamHandlerOK
  <1>3. \A u : ~Grants(c, u) /\ ~LooksAt(c, u)
    BY <1>2 DEF Grants, LooksAt, HandlerOf
  <1>4. deaths' \in Nat
    BY DEF TeamIInv
  <1>5. \A u : HasRole(u) => HasRole(u)'
    BY <1>1, <1>3 DEF HasRole
  <1>6. \A s \in Teams \ {t} : Recounting(s) => Recounting(s)'
    BY <1>1
  <1>7. TeamHandlerOK(p)'
    BY <1>1 DEF TeamHandlerOK
  <1>8. t \notin teamOdd' => t \notin teamOdd /\ Owned(t)
    BY DEF TeamIInv, TeamRight
  <1>9. TeamRight(t)'
    BY <1>8 DEF TeamRight, Owned
  <1>10. Synced(t)'
    <2> SUFFICES ASSUME t \notin teamOdd', deaths = 0
                 PROVE  /\ HasRole(team[t].owner)'
                        /\ team'[t].count = Cardinality(ActiveIn(member', t)) \/ Recounting(t)'
      BY DEF Synced, HasRole, Granting
    <2>1. /\ HasRole(team[t].owner)
          /\ team[t].count = Cardinality(ActiveIn(member, t)) \/ Recounting(t)
      BY <1>8 DEF TeamIInv, Synced
    <2>2. PICK u : u = team[t].owner
      OBVIOUS
    <2>3. HasRole(u)' /\ u = team'[t].owner
      BY <1>5, <2>1, <2>2
    <2>4. HasRole(team[t].owner)'
      BY <2>3 DEF HasRole, Granting
    <2>5. team'[t].count = Cardinality(ActiveIn(member', t)) \/ Recounting(t)'
      BY <1>1, <2>1
    <2> QED  BY <2>4, <2>5
  <1>11. Settled'
    <2> SUFFICES ASSUME teamOdd' = {}, deaths = 0, NEW u \in teamOwner \ roleOdd, ~LookedAt(u)'
                 PROVE  OwnsATeam(member', u)
      BY DEF Settled
    <2>1. teamOdd = {} /\ ~LookedAt(u) /\ t \notin teamOdd'
      BY <1>1, <1>3
    <2>2. PICK s \in Teams : u \in OwnersIn(member, s)
      BY <2>1 DEF TeamIInv, Settled, OwnsATeam
    <2>3. OwnersIn(member', s) = OwnersIn(member, s)
      BY <2>1 DEF OwnersIn
    <2> QED  BY <2>2, <2>3 DEF OwnsATeam
  <1> HIDE DEF HasRole, Recounting, LookedAt, Granting, Settled, Synced, TeamRight, TeamHandlerOK
  <1>12. \A q \in Procs : call'[q] = call[q] \/ TeamHandlerOK(q)'
    BY <1>1, <1>7
  <1> QED  BY <1>1, <1>4, <1>5, <1>6, <1>9, <1>10, <1>11, <1>12, TeamStep

LEMMA SaveTeamIInv == ASSUME TeamIInv, NEW p \in Procs, SaveTeam(p) PROVE TeamIInv'
  <1>1. PICK c \in TeamCall :
           /\ c = call[p] /\ c # NoCall /\ c.team \in Teams /\ team[c.team].exists /\ HandlerOf(c)
           /\ c.team \notin teamOdd => Harmless(c)
    BY TeamHandler DEF SaveTeam, At
  <1>2. PICK t \in Teams : t = c.team
    BY <1>1
  <1> DEFINE r == c.teamRow
             x == IF c.op = "update" THEN NoCall ELSE [c EXCEPT !.pc = "scrub"]
  <1>3. /\ c.pc = "saveTeam" /\ team' = [team EXCEPT ![t] = r] /\ call' = [call EXCEPT ![p] = x]
        /\ member' = member /\ teamOwner' = teamOwner /\ roleOdd' = roleOdd /\ deaths' = deaths
        /\ teamOdd' = IF team[t] # c.teamSeen THEN teamOdd \cup {t} ELSE teamOdd
    BY <1>1, <1>2 DEF SaveTeam, At, End, Goto, GotoState
  <1>4. r \in Team /\ r.exists /\ c.op \in {"update", "delete", "remove"}
    BY <1>1, <1>3 DEF TeamCall, HandlerOf
  <1>5. TeamsTypeOK
    BY DEF TeamIInv
  <1>6. /\ team' \in [Teams -> Team] /\ team'[t] = r
        /\ \A s \in Teams \ {t} : team'[s] = team[s]
    BY <1>3, <1>4, <1>5, TeamBecomes
  <1>7. /\ TeamsTypeOK' /\ teamOdd \subseteq teamOdd'
        /\ t \notin teamOdd' => t \notin teamOdd /\ team[t] = c.teamSeen
    BY <1>3, <1>5, <1>6 DEF TeamsTypeOK
  <1>8. t \notin teamOdd' => r.owner = team[t].owner /\ r.count = team[t].count
    BY <1>1, <1>2, <1>3, <1>7 DEF Harmless
  <1>9. /\ x \in TeamCall \cup {NoCall}
        /\ x # NoCall => /\ x \in TeamCall /\ x.pc = "scrub" /\ x.team = t /\ x.op = c.op
        /\ c.op # "update" => x # NoCall
    BY <1>2, TeamConstantsOK DEF TeamCall
  <1> HIDE DEF r, x
  <1>10. x # NoCall => HandlerOf(x) /\ Harmless(x)
    BY <1>4, <1>9 DEF HandlerOf, Harmless
  <1>11. \A s : Recounts(c, s) => Recounts(x, s)
    BY <1>2, <1>9 DEF Recounts
  <1> QED  BY <1>1, <1>2, <1>3, <1>4, <1>6, <1>7, <1>8, <1>9, <1>10, <1>11, RowsSaved

LEMMA SaveCountIInv == ASSUME TeamIInv, NEW p \in Procs, SaveCount(p) PROVE TeamIInv'
  <1>1. PICK c \in TeamCall :
           /\ c = call[p] /\ c # NoCall /\ c.team \in Teams /\ team[c.team].exists /\ HandlerOf(c)
           /\ c.team \notin teamOdd => Harmless(c)
    BY TeamHandler DEF SaveCount, At
  <1>2. PICK t \in Teams : t = c.team
    BY <1>1
  <1> DEFINE r == [team[t] EXCEPT !.count = c.n]
  <1>3. /\ c.pc = "countSave" /\ team' = [team EXCEPT ![t] = r] /\ call' = [call EXCEPT ![p] = NoCall]
        /\ member' = member /\ teamOwner' = teamOwner /\ roleOdd' = roleOdd /\ deaths' = deaths
        /\ teamOdd' = IF c.n # Cardinality(ActiveIn(member, t)) THEN teamOdd \cup {t} ELSE teamOdd
    BY <1>1, <1>2 DEF SaveCount, At, End, GotoState
  <1>4. TeamsTypeOK /\ team[t] \in Team /\ c.n \in Nat
    BY DEF TeamIInv, TeamsTypeOK, TeamCall
  <1>5. r \in Team /\ r.exists = team[t].exists /\ r.owner = team[t].owner /\ r.count = c.n
    BY <1>4 DEF Team
  <1> HIDE DEF r
  <1>6. /\ team' \in [Teams -> Team] /\ team'[t] = r
        /\ \A s \in Teams \ {t} : team'[s] = team[s]
    BY <1>3, <1>4, <1>5, TeamBecomes
  <1>7. /\ TeamsTypeOK' /\ teamOdd \subseteq teamOdd'
        /\ t \notin teamOdd' => c.n = Cardinality(ActiveIn(member, t))
    BY <1>3, <1>4, <1>6 DEF TeamsTypeOK
  <1>8. /\ \A s \in Teams \ {t} : ~Recounts(c, s)
        /\ c.op # "transfer"
    BY <1>1, <1>2, <1>3 DEF Recounts, HandlerOf
  <1>9. /\ team[t].exists /\ team'[t].exists /\ team'[t].owner = team[t].owner
        /\ team'[t].count = c.n /\ OwnersIn(member', t) = OwnersIn(member, t)
        /\ ActiveIn(member', t) = ActiveIn(member, t)
    BY <1>1, <1>2, <1>3, <1>5, <1>6
  <1>10. PICK x \in TeamCall \cup {NoCall} : x = NoCall
    OBVIOUS
  <1>11. call' = [call EXCEPT ![p] = x]
    BY <1>3, <1>10
  <1>12. \A u \in People : member'[t][u].role = "owner" => member[t][u].role = "owner"
    BY <1>3
  <1>13. t \notin teamOdd' =>
           /\ team'[t].owner = team[t].owner
           /\ OwnersIn(member', t) = OwnersIn(member, t)
           /\ \A u \in People : member'[t][u].role = "owner" => member[t][u].role = "owner"
           /\ team'[t].count = Cardinality(ActiveIn(member', t))
    BY <1>7, <1>9, <1>12
  <1>14. /\ \A s \in Teams \ {t} : team'[s] = team[s] /\ member'[s] = member[s]
         /\ \A s \in Teams \ {t} : Recounts(c, s) => Recounts(x, s)
         /\ teamOwner' = teamOwner /\ roleOdd' = roleOdd /\ deaths' = deaths /\ c.team = t
         /\ c = call[p] /\ c # NoCall /\ team[t].exists /\ team'[t].exists
    BY <1>1, <1>2, <1>3, <1>6, <1>8, <1>9
  <1> QED  BY <1>7, <1>8, <1>10, <1>11, <1>13, <1>14, RowsSaved

LEMMA SaveMemberIInv == ASSUME TeamIInv, NEW p \in Procs, SaveMember(p) PROVE TeamIInv'
  <1>1. PICK c \in TeamCall :
           /\ c = call[p] /\ c # NoCall /\ c.team \in Teams /\ team[c.team].exists /\ HandlerOf(c)
           /\ c.team \notin teamOdd => Harmless(c)
    BY TeamHandler DEF SaveMember, At
  <1>2. PICK t \in Teams : t = c.team
    BY <1>1
  <1>3. c.pc = "saveMember" /\ c.user \in People /\ c.op \in {"add", "remove", "role"}
    BY <1>1 DEF SaveMember, At, HandlerOf
  <1>4. PICK u \in People : u = c.user
    BY <1>3
  <1>5. /\ \A v : ~Grants(c, v) /\ ~LooksAt(c, v)
        /\ \A s : ~Recounts(c, s)
    BY <1>3 DEF Grants, LooksAt, Recounts
  <1>6. TeamsTypeOK
    BY DEF TeamIInv
  <1>7. CASE call' = [call EXCEPT ![p] = NoCall] /\ deaths' = deaths /\ UNCHANGED teamVars
    BY <1>1, <1>5, <1>6, <1>7, Continues DEF teamVars, TeamsTypeOK
  <1>8. CASE /\ member' = [member EXCEPT ![t][u] = c.row]
             /\ teamOdd' = IF member[t][u] # c.seen THEN teamOdd \cup {t} ELSE teamOdd
             /\ Goto(p, Follows(c)) /\ UNCHANGED <<team, teamOwner, roleOdd>>
    <2> DEFINE pc == Follows(c)
               x == [c EXCEPT !.pc = pc]
               r == c.row
    <2>1. call' = [call EXCEPT ![p] = x] /\ deaths' = deaths
      BY <1>1, <1>8 DEF Goto, GotoState
    <2>2. /\ pc \in {"count", "repoint", "scrub"} /\ r \in Member
          /\ pc = "scrub" => c.op = "role"
          /\ pc = "repoint" => c.op = "remove" /\ c.seen.role = "owner"
          /\ pc = "count" => c.op \in {"add", "remove"}
      BY <1>3 DEF Follows, TeamCall
    <2> HIDE DEF pc
    <2>3. x \in TeamCall /\ x.pc = pc /\ x.team = t /\ x.op = c.op
      BY <1>2, <2>2 DEF TeamCall
    <2> HIDE DEF x, r
    <2>4. /\ member' \in [Teams -> [People -> Member]] /\ member'[t][u] = r
          /\ \A v \in People \ {u} : member'[t][v] = member[t][v]
          /\ \A s \in Teams \ {t} : member'[s] = member[s]
      BY <1>6, <1>8, <2>2, MemberBecomes DEF r
    <2>5. /\ TeamsTypeOK' /\ teamOdd \subseteq teamOdd'
          /\ t \notin teamOdd' => /\ t \notin teamOdd /\ member[t][u] = c.seen
                                /\ member[t][u].role # "owner" /\ r.role # "owner"
                                /\ (c.op = "role" => r.active = member[t][u].active)
      <3>1. TeamsTypeOK' /\ teamOdd \subseteq teamOdd'
        BY <1>6, <1>8, <2>4 DEF TeamsTypeOK
      <3>2. t \notin teamOdd' => t \notin teamOdd /\ member[t][u] = c.seen
        BY <1>8
      <3> QED  BY <1>1, <1>2, <1>3, <3>1, <3>2 DEF Harmless, r
    <2>6. ASSUME t \notin teamOdd'
          PROVE  /\ OwnersIn(member', t) = OwnersIn(member, t)
                 /\ \A v \in People : member'[t][v].role = "owner" => member[t][v].role = "owner"
                 /\ c.op = "role" => ActiveIn(member', t) = ActiveIn(member, t)
      <3>1. \A v \in People : v # u => member'[t][v] = member[t][v]
        BY <2>4
      <3>2. member'[t][u] = r /\ member[t][u].role # "owner" /\ r.role # "owner"
            /\ (c.op = "role" => r.active = member[t][u].active)
        BY <2>4, <2>5, <2>6
      <3> QED  BY <3>1, <3>2 DEF OwnersIn, ActiveIn
    <2>7. x # NoCall /\ HandlerOf(x) /\ (t \notin teamOdd' => Harmless(x))
      BY <2>2, <2>3, <2>5, TeamConstantsOK DEF HandlerOf, Harmless
    <2>8. c.op \in {"add", "remove"} /\ t \notin teamOdd' => Recounts(x, t)
      BY <2>3, <2>7, <2>2 DEF Recounts
    <2>9. team'[t] = team[t] /\ team[t].exists
      BY <1>1, <1>2, <1>8
    <2> QED  BY <1>1, <1>2, <1>3, <1>5, <1>8, <2>1, <2>3, <2>4, <2>5, <2>6, <2>7, <2>8, <2>9, RowsSaved
  <1> QED  BY <1>1, <1>2, <1>4, <1>7, <1>8 DEF SaveMember, End, GotoState

(* A step that changes who has the role, and no row.                       *)
LEMMA RoleSynced ==
  ASSUME TeamIInv, NEW p \in Procs, NEW c \in TeamCall, c = call[p], c # NoCall, c.team \in Teams,
         NEW x \in TeamCall, call' = [call EXCEPT ![p] = x], deaths' = deaths,
         x # NoCall, x.team = c.team, HandlerOf(x), c.team \notin teamOdd => Harmless(x),
         team' = team, member' = member, teamOdd' = teamOdd, TeamsTypeOK',
         \A s : Recounts(c, s) => Recounts(x, s),
         \A u : Grants(c, u) => u \in teamOwner',
         \A u \in teamOwner \cup roleOdd : u \in teamOwner' \cup roleOdd' \/ ~OwnsATeam(member, u),
         \A u \in teamOwner' \ roleOdd' :
           OwnsATeam(member, u) \/ (u \in teamOwner \ roleOdd /\ (LooksAt(c, u) => LooksAt(x, u)))
  PROVE  TeamIInv'
  <1>1. /\ call' \in [Procs -> TeamCall \cup {NoCall}] /\ call'[p] = x
        /\ \A q \in Procs \ {p} : call'[q] = call[q]
        /\ \A u : Granting(u) => Granting(u)' \/ Grants(c, u)
        /\ \A s : Recounting(s) => Recounting(s)' \/ Recounts(c, s)
        /\ \A s : Recounts(x, s) => Recounting(s)'
        /\ \A u : LookedAt(u) => LookedAt(u)' \/ LooksAt(c, u)
        /\ \A u : LooksAt(x, u) => LookedAt(u)'
    BY TeamSlot DEF TeamIInv
  <1>2. PICK t \in Teams : t = c.team
    OBVIOUS
  <1>3. deaths' \in Nat /\ team[t].exists
    BY <1>2 DEF TeamIInv, TeamHandlerOK
  <1>4. TeamHandlerOK(p)'
    BY <1>1, <1>2, <1>3 DEF TeamHandlerOK
  <1>5. \A u : OwnsATeam(member, u) /\ HasRole(u) => HasRole(u)'
    BY <1>1 DEF HasRole
  <1>6. \A s : Recounting(s) => Recounting(s)'
    BY <1>1
  <1>7. TeamRight(t)'
    BY DEF TeamIInv, TeamRight, Owned
  <1>8. Synced(t)'
    <2> SUFFICES ASSUME t \notin teamOdd, deaths = 0
                 PROVE  /\ HasRole(team[t].owner)'
                        /\ team[t].count = Cardinality(ActiveIn(member, t)) \/ Recounting(t)'
      BY <1>3 DEF Synced
    <2>1. Synced(t) /\ Owned(t)
      BY <1>3 DEF TeamIInv, TeamRight
    <2>2. PICK u : u = team[t].owner
      OBVIOUS
    <2>3. OwnsATeam(member, u) /\ HasRole(u)
      BY <1>3, <2>1, <2>2 DEF Synced, Owned, OwnsATeam
    <2>4. HasRole(u)' /\ u = team'[t].owner
      BY <1>5, <2>2, <2>3
    <2>5. HasRole(team[t].owner)'
      BY <2>4 DEF HasRole, Granting
    <2> QED  BY <2>1, <2>5, <1>3, <1>6 DEF Synced
  <1>9. Settled'
    BY <1>1 DEF TeamIInv, Settled
  <1> HIDE DEF HasRole, Recounting, LookedAt, Granting, Settled, Synced, TeamRight, TeamHandlerOK
  <1>10. \A q \in Procs : call'[q] = call[q] \/ TeamHandlerOK(q)'
    BY <1>1, <1>4
  <1> QED  BY <1>1, <1>3, <1>5, <1>6, <1>7, <1>8, <1>9, <1>10, TeamStep

LEMMA SaveGrantIInv == ASSUME TeamIInv, NEW p \in Procs, SaveGrant(p) PROVE TeamIInv'
  <1>1. PICK c \in TeamCall :
           /\ c = call[p] /\ c # NoCall /\ c.team \in Teams /\ team[c.team].exists /\ HandlerOf(c)
           /\ c.team \notin teamOdd => Harmless(c)
    BY TeamHandler DEF SaveGrant, At
  <1> DEFINE x == [c EXCEPT !.pc = "admins"]
  <1>2. /\ c.pc = "grantSave" /\ call' = [call EXCEPT ![p] = x] /\ deaths' = deaths
        /\ team' = team /\ member' = member /\ teamOdd' = teamOdd
        /\ teamOwner' = teamOwner \cup {c.user}
        /\ roleOdd' = roleOdd \cup {u \in {c.user} : ~OwnsATeam(member, u)}
    BY <1>1 DEF SaveGrant, At, Goto, GotoState
  <1>3. c.user \in People /\ c.op = "transfer"
    BY <1>1, <1>2 DEF HandlerOf
  <1>4. /\ x \in TeamCall /\ x.pc = "admins" /\ x.team = c.team /\ x.op = c.op
        /\ x.who = c.who /\ x.losing = c.losing
    BY DEF TeamCall
  <1> HIDE DEF x
  <1>5. x # NoCall /\ HandlerOf(x) /\ Harmless(x)
    BY <1>1, <1>2, <1>3, <1>4, TeamConstantsOK DEF HandlerOf, Harmless
  <1>6. TeamsTypeOK'
    BY <1>2, <1>3 DEF TeamIInv, TeamsTypeOK
  <1>7. /\ \A u : Grants(c, u) => u \in teamOwner'
        /\ \A s : ~Recounts(c, s)
        /\ \A u : LooksAt(c, u) => LooksAt(x, u)
    BY <1>2, <1>3, <1>4, <1>5 DEF Grants, Recounts, LooksAt
  <1>8. /\ \A u \in teamOwner \cup roleOdd : u \in teamOwner' \cup roleOdd'
        /\ \A u \in teamOwner' \ roleOdd' : OwnsATeam(member, u) \/ u \in teamOwner \ roleOdd
    BY <1>2
  <1> QED  BY <1>1, <1>2, <1>4, <1>5, <1>6, <1>7, <1>8, RoleSynced

LEMMA ScrubRoleIInv ==
  ASSUME TeamIInv, NEW p \in Procs, NEW u \in People, ScrubRole(p, u) PROVE TeamIInv'
  <1>1. PICK c \in TeamCall :
           /\ c = call[p] /\ c # NoCall /\ c.team \in Teams /\ team[c.team].exists /\ HandlerOf(c)
           /\ c.team \notin teamOdd => Harmless(c)
    BY TeamHandler DEF ScrubRole, At
  <1> DEFINE l == c.losing \ {u}
             x == [c EXCEPT !.losing = l]
  <1>2. /\ c.pc = "scrub" /\ call' = [call EXCEPT ![p] = x] /\ deaths' = deaths
        /\ team' = team /\ member' = member /\ teamOdd' = teamOdd
        /\ teamOwner' = teamOwner \ {u}
        /\ roleOdd' = roleOdd \cup {v \in {u} : OwnsATeam(member, v)}
    BY <1>1 DEF ScrubRole, At, GotoState
  <1>3. l \in SUBSET People /\ \A v : v # u => (v \in c.losing <=> v \in l)
    BY DEF TeamCall
  <1> HIDE DEF l
  <1>4. /\ x \in TeamCall /\ x.pc = "scrub" /\ x.team = c.team /\ x.op = c.op
        /\ x.who = c.who /\ x.losing = l
    BY <1>2, <1>3 DEF TeamCall
  <1> HIDE DEF x
  <1>5. x # NoCall /\ HandlerOf(x) /\ Harmless(x)
    BY <1>1, <1>2, <1>4, TeamConstantsOK DEF HandlerOf, Harmless
  <1>6. TeamsTypeOK'
    BY <1>2 DEF TeamIInv, TeamsTypeOK
  <1>7. /\ \A v : ~Grants(c, v)
        /\ \A s : Recounts(c, s) => Recounts(x, s)
        /\ \A v : v # u /\ LooksAt(c, v) => LooksAt(x, v)
    BY <1>2, <1>3, <1>4, <1>5 DEF Grants, Recounts, LooksAt
  <1>8. /\ \A v \in teamOwner \cup roleOdd : v \in teamOwner' \cup roleOdd' \/ ~OwnsATeam(member, v)
        /\ \A v \in teamOwner' \ roleOdd' : v # u /\ v \in teamOwner \ roleOdd
    BY <1>2
  <1> QED  BY <1>1, <1>2, <1>4, <1>5, <1>6, <1>7, <1>8, RoleSynced

LEMMA SaveTransferIInv == ASSUME TeamIInv, NEW p \in Procs, SaveTransfer(p) PROVE TeamIInv'
  <1>1. PICK c \in TeamCall :
           /\ c = call[p] /\ c # NoCall /\ c.team \in Teams /\ team[c.team].exists /\ HandlerOf(c)
           /\ c.team \notin teamOdd => Harmless(c)
    BY TeamHandler DEF SaveTransfer, At
  <1>2. PICK t \in Teams : t = c.team
    BY <1>1
  <1>3. /\ c.pc = "transfer" /\ c.op = "transfer" /\ c.user \in People /\ c.who = {} /\ c.losing = {}
    BY <1>1 DEF SaveTransfer, At, HandlerOf
  <1>4. PICK to \in People : to = c.user
    BY <1>3
  <1> DEFINE M == [v \in People |-> IF v = to THEN [role |-> "owner", active |-> c.seen.active]
                                   ELSE IF v \in c.owners THEN [role |-> "admin", active |-> TRUE]
                                   ELSE member[t][v]]
             r == [team[t] EXCEPT !.owner = to]
             x == [c EXCEPT !.pc = "grant", !.who = c.owners]
  <1>5. TeamsTypeOK /\ team[t] \in Team /\ c.seen.active \in BOOLEAN /\ c.owners \subseteq People
    BY DEF TeamIInv, TeamsTypeOK, TeamCall, Member
  <1>6. /\ member' = [member EXCEPT ![t] = M] /\ team' = [team EXCEPT ![t] = r]
        /\ call' = [call EXCEPT ![p] = x] /\ deaths' = deaths
        /\ teamOwner' = teamOwner /\ roleOdd' = roleOdd
    BY <1>1, <1>2, <1>4 DEF SaveTransfer, GotoState
  <1>7. /\ teamOdd \subseteq teamOdd' /\ teamOdd' \subseteq Teams
        /\ t \notin teamOdd' => /\ t \notin teamOdd /\ member[t][to] = c.seen /\ c.seen.active
                              /\ OwnersIn(member, t) \ {to} = c.owners
    BY <1>1, <1>2, <1>4, <1>5 DEF SaveTransfer, TeamsTypeOK
  <1>8. \A v \in People : /\ M[v] \in Member
                        /\ (v = to => M[v].role = "owner" /\ M[v].active = c.seen.active)
                        /\ (v # to /\ v \in c.owners => M[v].role = "admin" /\ M[v].active)
                        /\ (v # to /\ v \notin c.owners => M[v] = member[t][v])
    BY <1>5 DEF TeamsTypeOK, Member
  <1>9. M \in [People -> Member]
    <2>1. \A v \in People : M[v] \in Member
      BY <1>8
    <2>2. M = [v \in People |-> M[v]]
      OBVIOUS
    <2> HIDE DEF M
    <2> QED  BY <2>1, <2>2
  <1>10. r \in Team /\ r.exists = team[t].exists /\ r.owner = to /\ r.count = team[t].count
    BY <1>5 DEF Team
  <1>11. /\ x \in TeamCall /\ x.pc = "grant" /\ x.op = "transfer" /\ x.team = t /\ x.user = to
         /\ x.who = c.owners
    BY <1>2, <1>3, <1>4, <1>5 DEF TeamCall
  <1> HIDE DEF M, r, x
  <1>12. /\ member' \in [Teams -> [People -> Member]] /\ member'[t] = M
         /\ \A s \in Teams \ {t} : member'[s] = member[s]
    BY <1>5, <1>6, <1>9 DEF TeamsTypeOK
  <1>13. /\ team' \in [Teams -> Team] /\ team'[t] = r
         /\ \A s \in Teams \ {t} : team'[s] = team[s]
    BY <1>5, <1>6, <1>10, TeamBecomes
  <1>14. TeamsTypeOK' /\ deaths' \in Nat
    BY <1>5, <1>6, <1>7, <1>12, <1>13 DEF TeamsTypeOK, TeamIInv
  <1>15. /\ call' \in [Procs -> TeamCall \cup {NoCall}] /\ call'[p] = x
         /\ \A q \in Procs \ {p} : call'[q] = call[q]
         /\ \A u : Granting(u) => Granting(u)' \/ Grants(c, u)
         /\ \A u : Grants(x, u) => Granting(u)'
         /\ \A s : Recounting(s) => Recounting(s)' \/ Recounts(c, s)
         /\ \A u : LookedAt(u) => LookedAt(u)' \/ LooksAt(c, u)
         /\ \A u : LooksAt(x, u) => LookedAt(u)'
    BY <1>1, <1>6, <1>11, TeamSlot DEF TeamIInv
  <1>16. x # NoCall /\ HandlerOf(x) /\ Harmless(x)
    BY <1>4, <1>5, <1>11, TeamConstantsOK DEF HandlerOf, Harmless
  <1>17. /\ \A u : ~Grants(c, u) /\ ~LooksAt(c, u)
         /\ \A s : ~Recounts(c, s)
         /\ Grants(x, to) /\ \A u \in c.owners : LooksAt(x, u)
    BY <1>3, <1>11, <1>16 DEF Grants, LooksAt, Recounts
  <1>18. ASSUME t \notin teamOdd'
         PROVE  /\ t \notin teamOdd /\ c.seen.active /\ member[t][to].active
                /\ c.owners = {team[t].owner} \ {to} /\ team[t].owner \in People
                /\ OwnersIn(member, t) = {team[t].owner}
                /\ \A v \in People : member[t][v].role = "owner" => v = team[t].owner
    <2>1. t \notin teamOdd /\ c.seen.active /\ member[t][to].active
      BY <1>7, <1>18
    <2>2. /\ OwnersIn(member, t) = {team[t].owner}
          /\ \A v \in People : member[t][v].role = "owner" => v = team[t].owner
      BY <2>1, <1>1, <1>2 DEF TeamIInv, TeamRight, Owned
    <2>3. team[t].owner \in People
      BY <2>2 DEF OwnersIn
    <2> QED  BY <2>1, <2>2, <2>3, <1>7, <1>18
  <1>19. ASSUME t \notin teamOdd'
         PROVE  /\ OwnersIn(member', t) = {to} /\ ActiveIn(member', t) = ActiveIn(member, t)
                /\ \A v \in People : member'[t][v].role = "owner" => v = to
    <2>1. \A v \in People : member'[t][v].role = "owner" <=> v = to
      BY <1>8, <1>12, <1>18, <1>19
    <2>2. member[t][team[t].owner].active
      BY <1>18, <1>19 DEF OwnersIn
    <2>3. \A v \in People : member'[t][v].active <=> member[t][v].active
      BY <2>2, <1>8, <1>12, <1>18, <1>19
    <2>4. member'[t][to].active
      BY <2>3, <1>18, <1>19
    <2>5. OwnersIn(member', t) = {to}
      BY <2>1, <2>4 DEF OwnersIn
    <2>6. ActiveIn(member', t) = ActiveIn(member, t)
      BY <2>3 DEF ActiveIn
    <2> QED  BY <2>1, <2>5, <2>6
  <1>20. TeamRight(t)'
    BY <1>1, <1>2, <1>10, <1>13, <1>19 DEF TeamRight, Owned
  <1>21. /\ \A u : HasRole(u) => HasRole(u)'
         /\ \A s : Recounting(s) => Recounting(s)'
    BY <1>6, <1>15, <1>17 DEF HasRole
  <1>22. Synced(t)'
    <2>1. Granting(to)' /\ to = team'[t].owner
      BY <1>10, <1>13, <1>15, <1>17
    <2>2. HasRole(team[t].owner)'
      BY <2>1 DEF HasRole, Granting
    <2> SUFFICES ASSUME t \notin teamOdd', deaths = 0
                 PROVE  team'[t].count = Cardinality(ActiveIn(member', t)) \/ Recounting(t)'
      BY <1>6, <2>2 DEF Synced
    <2>3. team[t].count = Cardinality(ActiveIn(member, t)) \/ Recounting(t)
      BY <1>1, <1>2, <1>18 DEF TeamIInv, Synced
    <2> QED  BY <2>3, <1>10, <1>13, <1>19, <1>21
  <1>23. Settled'
    <2> SUFFICES ASSUME teamOdd' = {}, deaths = 0, NEW u \in teamOwner \ roleOdd, ~LookedAt(u)'
                 PROVE  OwnsATeam(member', u)
      BY <1>6 DEF Settled
    <2>1. teamOdd = {} /\ ~LookedAt(u) /\ t \notin teamOdd' /\ u \notin c.owners
      BY <1>7, <1>15, <1>17
    <2>2. PICK s \in Teams : u \in OwnersIn(member, s)
      BY <2>1 DEF TeamIInv, Settled, OwnsATeam
    <2>3. CASE s # t
      BY <2>2, <2>3, <1>12 DEF OwnersIn, OwnsATeam
    <2>4. CASE s = t
      <3>1. u = to
        BY <2>1, <2>2, <2>4, <1>18
      <3> QED  BY <3>1, <2>1, <1>19 DEF OwnsATeam
    <2> QED  BY <2>3, <2>4
  <1> HIDE DEF HasRole, Recounting, LookedAt, Granting, Settled, Synced, TeamRight, TeamHandlerOK
  <1>24. TeamHandlerOK(p)'
    BY <1>1, <1>2, <1>10, <1>11, <1>13, <1>15, <1>16 DEF TeamHandlerOK
  <1>25. /\ \A q \in Procs : call'[q] = call[q] \/ TeamHandlerOK(q)'
         /\ team[t].exists => team'[t].exists
    BY <1>10, <1>13, <1>15, <1>24
  <1> QED  BY <1>6, <1>7, <1>12, <1>13, <1>14, <1>15, <1>20, <1>21, <1>22, <1>23, <1>25, TeamStep

LEMMA TeamDiesIInv == ASSUME TeamIInv, NEW p \in Procs, Dies(p), UNCHANGED teamVars PROVE TeamIInv'
  <1>1. PICK c \in TeamCall :
           /\ c = call[p] /\ c # NoCall /\ c.team \in Teams /\ team[c.team].exists /\ HandlerOf(c)
           /\ c.team \notin teamOdd => Harmless(c)
    BY TeamHandler DEF Dies
  <1>2. call' = [call EXCEPT ![p] = NoCall] /\ deaths' = deaths + 1 /\ deaths \in Nat
    BY DEF Dies, TeamIInv
  <1>3. /\ call' \in [Procs -> TeamCall \cup {NoCall}] /\ call'[p] = NoCall
        /\ \A q \in Procs \ {p} : call'[q] = call[q]
    BY <1>2, TeamSlot DEF TeamIInv
  <1>4. \A q \in Procs : call'[q] = call[q] \/ TeamHandlerOK(q)'
    BY <1>3 DEF TeamHandlerOK
  <1>5. deaths' \in Nat /\ deaths' # 0
    BY <1>2
  <1>6. TeamsTypeOK' /\ Settled' /\ \A t \in Teams : TeamRight(t)' /\ Synced(t)'
    BY <1>5 DEF TeamIInv, TeamsTypeOK, TeamRight, Owned, Synced, Settled, teamVars
  <1> HIDE DEF Settled, Synced, TeamRight, TeamHandlerOK
  <1> QED  BY <1>1, <1>3, <1>4, <1>5, <1>6, TeamStep DEF teamVars

LEMMA TeamNextIInv == TeamIInv /\ [TeamsNext]_<<teamVars, requestVars>> => TeamIInv'
  <1> SUFFICES ASSUME TeamIInv, [TeamsNext]_<<teamVars, requestVars>> PROVE TeamIInv'
    OBVIOUS
  <1>1. ASSUME NEW t \in Teams, NEW u \in People, CreateTeam(t, u) PROVE TeamIInv'
    BY <1>1, CreateTeamIInv
  <1>2. ASSUME NEW p \in Procs, NEW t \in Teams, NEW caller \in Callers,
               \/ \E a \in BOOLEAN : UpdateTeam(p, t, caller, a)
               \/ DeleteTeam(p, t, caller)
        PROVE  TeamIInv'
    BY <1>2, UpdateTeamIInv
  <1>3. ASSUME NEW p \in Procs, NEW t \in Teams, NEW caller \in Callers, NEW u \in People,
               \/ AddMember(p, t, u, caller) \/ RemoveMember(p, t, u, caller)
               \/ \E r \in {"admin", "member"} : DemoteMember(p, t, u, caller, r)
               \/ TransferOwnership(p, t, u, caller)
        PROVE  TeamIInv'
    BY <1>3, AddMemberIInv, RemoveMemberIInv, DemoteMemberIInv, TransferOwnershipIInv
  <1>4. ASSUME NEW p \in Procs,
               \/ SaveTeam(p) \/ SaveMember(p) \/ Repoint(p) \/ CountMembers(p) \/ SaveCount(p)
               \/ ReadOwners(p) \/ SaveTransfer(p) \/ GrantTeamOwner(p) \/ SaveGrant(p)
               \/ PreviousOwners(p) \/ Scrubbed(p)
        PROVE  TeamIInv'
    BY <1>4, SaveTeamIInv, SaveMemberIInv, RepointIInv, CountMembersIInv, SaveCountIInv, ReadOwnersIInv,
       SaveTransferIInv, GrantTeamOwnerIInv, SaveGrantIInv, PreviousOwnersIInv, ScrubbedIInv
  <1>5. ASSUME NEW p \in Procs, NEW u \in People, LookAtRole(p, u) \/ ScrubRole(p, u) PROVE TeamIInv'
    BY <1>5, LookAtRoleIInv, ScrubRoleIInv
  <1>6. ASSUME NEW p \in Procs, Dies(p), UNCHANGED teamVars PROVE TeamIInv'
    BY <1>6, TeamDiesIInv
  <1>7. CASE UNCHANGED <<teamVars, requestVars>>
    BY <1>7 DEF TeamIInv, TeamsTypeOK, TeamRight, Owned, Synced, Settled, TeamHandlerOK, HasRole, Granting,
                Recounting, LookedAt, teamVars, requestVars
  <1> QED  BY <1>1, <1>2, <1>3, <1>4, <1>5, <1>6, <1>7 DEF TeamsNext

(* A team that no outdated copy was saved over, and that was not given to  *)
(* one who had left, has exactly one active owner, the one its row names,  *)
(* at every point of every handler and whichever of them fail.  Without    *)
(* failures he has the role TEAM_OWNER and the row counts the members, but *)
(* while a handler is about to see to it; and when no team is odd nobody   *)
(* but those whose role was synced by outdated reads keeps the role        *)
(* without owning a team (createTeam, removeMember, changeMemberRole and   *)
(* the helpers they call in teams.service.ts).                             *)
THEOREM TeamOwner == TeamsSpec => []OneTeamOwner
  <1>1. RequestsInit /\ TeamsInit => TeamIInv
    BY TeamInitIInv
  <1>2. TeamIInv /\ [TeamsNext]_<<teamVars, requestVars>> => TeamIInv'
    BY TeamNextIInv
  <1>3. TeamIInv => OneTeamOwner
    BY DEF TeamIInv, TeamRight, Owned, Synced, Settled, HasRole, Granting, Recounting, LookedAt, OneTeamOwner
  <1> QED  BY <1>1, <1>2, <1>3, PTL DEF TeamsSpec

-----------------------------------------------------------------------------
(* Companies.  A company lives once it is active or about to be; it then   *)
(* has an owner, and keeps one when the demotion or removal under way, of  *)
(* which there is at most one, is through.  Which tiers employees are on   *)
(* is a separate invariant.                                                *)

CompanyTyped == CompaniesTypeOK /\ call \in [Procs -> CompanyCall \cup {NoCall}]

Removes(p, c)   == Leaves(call[p], c)
Activates(p, c) == call[p] # NoCall /\ call[p].pc = "activate" /\ call[p].company = c
Lives(c) == company[c].activation = "active" \/ \E p \in Procs : Activates(p, c)

HasOwner(c) ==
  /\ Lives(c) => Owners(companyAdmin, c) # {}
  /\ \A p \in Procs : Removes(p, c) =>
       /\ Lives(c) => Owners(companyAdmin, c) \ {call[p].user} # {}
       /\ \A q \in Procs : Removes(q, c) => q = p

OwnersStay == \A c \in CompanyIds \ companyOdd : HasOwner(c)

OwnTier(c, u) == employee[c][u].tier # NoTier => tier[employee[c][u].tier].company = c
OwnTiers      == \A c \in CompanyIds, u \in Persons : OwnTier(c, u)

LEMMA CompanyInitTyped == RequestsInit /\ CompaniesInit => CompanyTyped
  <1> SUFFICES ASSUME RequestsInit, CompaniesInit PROVE CompanyTyped
    OBVIOUS
  <1>1. PICK old \in SUBSET CompanyIds :
          /\ company = [c \in CompanyIds |->
               [activation |-> IF c \in old THEN "active" ELSE "none", active |-> TRUE, frozen |-> FALSE]]
          /\ companyAdmin = [c \in CompanyIds |-> [u \in Persons |->
                                IF c \in old /\ u = OwnerOf[c] THEN "OWNER" ELSE "none"]]
          /\ companyRoles = [u \in Persons |->
                                {r \in {"COMPANY_OWNER"} : \E c \in old : OwnerOf[c] = u}]
    BY DEF CompaniesInit
  <1>2. company \in [CompanyIds -> Company]
    BY <1>1 DEF Company
  <1>3. companyAdmin \in [CompanyIds -> [Persons -> {"none", "ADMIN", "OWNER"}]]
    BY <1>1
  <1>4. companyRoles \in [Persons -> CompanyRoles]
    BY <1>1 DEF CompanyRoles
  <1>5. account \in [Persons -> AccountStatus]
    BY DEF CompaniesInit, AccountStatus
  <1>6. tier \in [TierIds -> Tier] /\ inviteToken \subseteq CompanyIds /\ companyOdd \subseteq CompanyIds
    BY DEF CompaniesInit, Tier
  <1>7. employee \in [CompanyIds -> [Persons -> Employee]]
    BY DEF CompaniesInit, Employee
  <1>8. call \in [Procs -> CompanyCall \cup {NoCall}]
    BY DEF RequestsInit
  <1> QED  BY <1>2, <1>3, <1>4, <1>5, <1>6, <1>7, <1>8 DEF CompanyTyped, CompaniesTypeOK

LEMMA CompanyInitOwned == RequestsInit /\ CompaniesInit => OwnersStay /\ OwnTiers
  <1> SUFFICES ASSUME RequestsInit, CompaniesInit PROVE OwnersStay /\ OwnTiers
    OBVIOUS
  <1>1. PICK old \in SUBSET CompanyIds :
          /\ company = [c \in CompanyIds |->
               [activation |-> IF c \in old THEN "active" ELSE "none", active |-> TRUE, frozen |-> FALSE]]
          /\ companyAdmin = [c \in CompanyIds |-> [u \in Persons |->
                                IF c \in old /\ u = OwnerOf[c] THEN "OWNER" ELSE "none"]]
    BY DEF CompaniesInit
  <1>2. \A p \in Procs : call[p] = NoCall
    BY DEF RequestsInit
  <1>3. ASSUME NEW c \in CompanyIds PROVE HasOwner(c)
    <2>1. Lives(c) => c \in old
      BY <1>1, <1>2 DEF Lives, Activates
    <2>2. c \in old => OwnerOf[c] \in Owners(companyAdmin, c)
      BY <1>1, CompanyConstantsOK DEF Owners
    <2> QED  BY <2>1, <2>2, <1>2 DEF HasOwner, Removes, Leaves
  <1>4. OwnTiers
    BY DEF CompaniesInit, OwnTiers, OwnTier
  <1> QED  BY <1>3, <1>4 DEF OwnersStay

(* What is read of a handler.                                              *)
LEMMA CompanyCalls ==
  ASSUME CompanyTyped, NEW p \in Procs, call[p] # NoCall
  PROVE  /\ call[p].company \in CompanyIds /\ OwnerOf[call[p].company] \in Persons
         /\ call[p].pc \in {"consume", "owner", "admin", "activate"} => call[p] \in Activation
         /\ call[p].pc \notin {"consume", "owner", "admin", "activate"} => call[p] \in AdminCall
  BY CompanyConstantsOK DEF CompanyTyped, CompanyCall, Activation, AdminCall

(* A slot takes a state.                                                   *)
LEMMA CompanySlot ==
  ASSUME CompanyTyped, NEW p \in Procs, NEW x \in CompanyCall \cup {NoCall},
         call' = [call EXCEPT ![p] = x]
  PROVE  /\ call' \in [Procs -> CompanyCall \cup {NoCall}] /\ call'[p] = x
         /\ \A q \in Procs \ {p} : call'[q] = call[q]
  BY SlotWritten DEF CompanyTyped

(* An activation goes on.                                                  *)
LEMMA CompanyGoes ==
  ASSUME CompanyTyped, NEW p \in Procs, call[p] # NoCall,
         call[p].pc \in {"consume", "owner", "admin", "activate"},
         NEW pc \in {"owner", "admin", "activate"}, Goto(p, pc)
  PROVE  /\ call' \in [Procs -> CompanyCall \cup {NoCall}]
         /\ call'[p] # NoCall /\ call'[p].pc = pc /\ call'[p].company = call[p].company
         /\ \A q \in Procs \ {p} : call'[q] = call[q]
  <1> DEFINE x == [call[p] EXCEPT !.pc = pc]
  <1>1. call[p] \in Activation
    BY CompanyCalls
  <1>2. x \in CompanyCall /\ x.pc = pc /\ x.company = call[p].company
    BY <1>1 DEF CompanyCall, Activation
  <1>3. call' = [call EXCEPT ![p] = x]
    BY DEF Goto, GotoState
  <1>4. x # NoCall
    BY <1>2, CompanyConstantsOK
  <1> HIDE DEF x
  <1> QED  BY <1>2, <1>3, <1>4, CompanySlot

(* A change of an admin begins.                                            *)
LEMMA AdminBegins ==
  ASSUME CompanyTyped, NEW p \in Procs, NEW c \in CompanyIds, NEW u \in Persons,
         NEW pc \in {"owned", "saveAdmin", "removeAdmin"}, NEW op \in {"grant", "change", "demote", "remove"},
         NEW role \in {"ADMIN", "OWNER"}, BeginAdmin(p, pc, op, c, u, role),
         pc = "removeAdmin" => op = "remove" /\ role = "ADMIN"
  PROVE  \E x \in AdminCall :
           /\ x.pc = pc /\ x.op = op /\ x.company = c /\ x.user = u /\ x.role = role
           /\ call[p] = NoCall /\ call' = [call EXCEPT ![p] = x]
           /\ companyOdd' = IF op # "grant" /\ role = "ADMIN" THEN Overlapping(c) ELSE companyOdd
           /\ UNCHANGED <<company, inviteToken, account, companyRoles, companyAdmin, tier, employee>>
  <1> DEFINE x == [pc |-> pc, op |-> op, company |-> c, user |-> u, role |-> role,
                   roles |-> companyRoles[u], status |-> account[u]]
  <1>1. companyRoles[u] \in CompanyRoles /\ account[u] \in AccountStatus
    BY DEF CompanyTyped, CompaniesTypeOK
  <1>2. x \in AdminCall /\ x.pc = pc /\ x.op = op /\ x.company = c /\ x.user = u /\ x.role = role
    BY <1>1 DEF AdminCall
  <1>3. call[p] = NoCall /\ call' = [call EXCEPT ![p] = x]
    BY DEF BeginAdmin, Begin
  <1> HIDE DEF x
  <1> QED  BY <1>2, <1>3 DEF BeginAdmin

(* The steps of addAdmin and removeAdmin on rows they have read: each goes *)
(* on to x, or ends.                                                       *)
LEMMA LookAtStep ==
  ASSUME CompanyTyped, NEW p \in Procs, LookAtOwnerships(p) \/ ScrubRoles(p)
  PROVE  \E a, x \in AdminCall :
           /\ a = call[p] /\ a # NoCall /\ call' = [call EXCEPT ![p] = x] /\ UNCHANGED companyVars
           /\ x.company = a.company /\ x.user = a.user /\ x.op = a.op /\ x.role = a.role
           /\ \A b : Leaves(x, b) => Leaves(a, b)
  <1>1. call[p] # NoCall /\ call[p].pc \in {"owned", "scrub"} /\ UNCHANGED companyVars
    BY DEF LookAtOwnerships, ScrubRoles, At
  <1>2. PICK a \in AdminCall : a = call[p]
    BY <1>1, CompanyCalls
  <1>3. CASE LookAtOwnerships(p)
    <2> DEFINE x == [a EXCEPT !.pc = "roles", !.roles = @ \ {"COMPANY_OWNER"}]
               y == [a EXCEPT !.pc = "saveAdmin"]
    <2>1. a.pc = "owned"
      BY <1>2, <1>3 DEF LookAtOwnerships, At
    <2>2. a.roles \ {"COMPANY_OWNER"} \in CompanyRoles
      BY DEF AdminCall, CompanyRoles
    <2>3. /\ x \in AdminCall /\ x.company = a.company /\ x.user = a.user /\ x.op = a.op /\ x.role = a.role
          /\ y \in AdminCall /\ y.company = a.company /\ y.user = a.user /\ y.op = a.op /\ y.role = a.role
      BY <2>2 DEF AdminCall
    <2>4. call' = [call EXCEPT ![p] = x] \/ call' = [call EXCEPT ![p] = y]
      BY <1>2, <1>3 DEF LookAtOwnerships, GotoState, Goto
    <2> HIDE DEF x, y
    <2>5. \A b : (Leaves(x, b) => Leaves(a, b)) /\ (Leaves(y, b) => Leaves(a, b))
      BY <1>1, <1>2, <2>1, <2>3 DEF Leaves
    <2> QED  BY <1>1, <1>2, <2>3, <2>4, <2>5
  <1>4. CASE ScrubRoles(p)
    <2>1. PICK kept, s : /\ kept \subseteq companyRoles[a.user] /\ s = account[a.user]
                         /\ call' = [call EXCEPT ![p] = [a EXCEPT !.pc = "roles", !.roles = kept, !.status = s]]
      BY <1>2, <1>4 DEF ScrubRoles, GotoState
    <2> DEFINE x == [a EXCEPT !.pc = "roles", !.roles = kept, !.status = s]
    <2>2. kept \in CompanyRoles /\ s \in AccountStatus
      BY <2>1 DEF AdminCall, CompanyTyped, CompaniesTypeOK, CompanyRoles
    <2>3. /\ x \in AdminCall /\ x.pc = "roles" /\ x.company = a.company /\ x.user = a.user
          /\ x.op = a.op /\ x.role = a.role
      BY <2>2 DEF AdminCall
    <2>4. a.pc = "scrub" /\ call' = [call EXCEPT ![p] = x]
      BY <1>2, <1>4, <2>1 DEF ScrubRoles, At
    <2> HIDE DEF x
    <2>5. a.op = "remove"
      BY <2>4 DEF AdminCall
    <2>6. \A b : ~Leaves(x, b)
      BY <2>3, <2>5 DEF Leaves
    <2> QED  BY <1>1, <1>2, <2>3, <2>4, <2>6
  <1> QED  BY <1>3, <1>4

(* A field of a row is written.                                            *)
LEMMA CompanyField ==
  ASSUME NEW r \in Company
  PROVE  /\ \A a \in {"pending", "active"} :
              /\ [r EXCEPT !.activation = a] \in Company /\ [r EXCEPT !.activation = a].activation = a
         /\ \A a, f \in BOOLEAN : /\ [r EXCEPT !.active = a, !.frozen = f] \in Company
                                /\ [r EXCEPT !.active = a, !.frozen = f].activation = r.activation
  BY DEF Company

LEMMA TierField ==
  ASSUME NEW r \in Tier, NEW v \in Rules
  PROVE  /\ [r EXCEPT !.rule = v] \in Tier /\ [r EXCEPT !.rule = v].company = r.company
         /\ [r EXCEPT !.staged = v] \in Tier /\ [r EXCEPT !.staged = v].company = r.company
  BY DEF Tier

LEMMA EmployeeField ==
  ASSUME NEW r \in Employee
  PROVE  /\ \A t \in TierIds \cup {NoTier} :
              [r EXCEPT !.tier = t] \in Employee /\ [r EXCEPT !.tier = t].tier = t
         /\ [r EXCEPT !.status = "inactive"] \in Employee
         /\ [r EXCEPT !.status = "inactive"].tier = r.tier
  BY DEF Employee

(* The rows change as follows.                                             *)
LEMMA CompanyBecomes ==
  ASSUME CompanyTyped, NEW c \in CompanyIds, NEW r \in Company, company' = [company EXCEPT ![c] = r]
  PROVE  /\ company' \in [CompanyIds -> Company] /\ company'[c] = r
         /\ \A b \in CompanyIds \ {c} : company'[b] = company[b]
  BY DEF CompanyTyped, CompaniesTypeOK

LEMMA TierBecomes ==
  ASSUME CompanyTyped, NEW t \in TierIds, NEW r \in Tier, tier' = [tier EXCEPT ![t] = r]
  PROVE  /\ tier' \in [TierIds -> Tier] /\ tier'[t] = r
         /\ \A s \in TierIds \ {t} : tier'[s] = tier[s]
  BY DEF CompanyTyped, CompaniesTypeOK

LEMMA EmployeeBecomes ==
  ASSUME CompanyTyped, NEW c \in CompanyIds, NEW u \in Persons, NEW r \in Employee,
         employee' = [employee EXCEPT ![c][u] = r]
  PROVE  /\ employee' \in [CompanyIds -> [Persons -> Employee]] /\ employee'[c][u] = r
         /\ \A b \in CompanyIds, v \in Persons : b # c \/ v # u => employee'[b][v] = employee[b][v]
  BY DEF CompanyTyped, CompaniesTypeOK

(* What the steps on companies, tiers and employees do to them.            *)
LEMMA UpdateStatusStep ==
  ASSUME CompanyTyped, NEW c \in CompanyIds, NEW b \in BOOLEAN, UpdateCompanyStatus(c, b)
  PROVE  /\ company' \in [CompanyIds -> Company]
         /\ \A d \in CompanyIds : company'[d].activation = company[d].activation
  <1>1. PICK done \in BOOLEAN :
          company' = [company EXCEPT ![c].active = b, ![c].frozen = IF done THEN ~b ELSE @]
    BY DEF UpdateCompanyStatus
  <1>2. PICK f \in BOOLEAN : f = IF done THEN ~b ELSE company[c].frozen
    BY DEF CompanyTyped, CompaniesTypeOK, Company
  <1> DEFINE x == [company[c] EXCEPT !.active = b, !.frozen = f]
  <1>3. company[c] \in Company /\ company \in [CompanyIds -> Company]
    BY DEF CompanyTyped, CompaniesTypeOK
  <1>4. x \in Company /\ x.activation = company[c].activation
    BY <1>3, CompanyField
  <1>5. company' = [company EXCEPT ![c] = x]
    BY <1>1, <1>2, <1>3
  <1> HIDE DEF x
  <1> QED  BY <1>3, <1>4, <1>5, CompanyBecomes

LEMMA TierStep ==
  ASSUME CompanyTyped, NEW c \in CompanyIds, NEW t \in TierIds, NEW r \in Rules, NEW caller,
         CreateTier(c, t, r, caller) \/ UpdateTier(c, t, r, caller)
  PROVE  /\ tier' \in [TierIds -> Tier]
         /\ \A s \in TierIds : tier[s].company # Nowhere => tier'[s].company = tier[s].company
  <1>1. tier[t] \in Tier
    BY DEF CompanyTyped, CompaniesTypeOK
  <1>2. CASE CreateTier(c, t, r, caller)
    <2> DEFINE x == [company |-> c, rule |-> r, staged |-> NoRule]
    <2>1. x \in Tier /\ tier' = [tier EXCEPT ![t] = x] /\ tier[t].company = Nowhere
      BY <1>2 DEF CreateTier, Tier
    <2> HIDE DEF x
    <2> QED  BY <2>1, TierBecomes
  <1>3. CASE UpdateTier(c, t, r, caller)
    <2> DEFINE x == [tier[t] EXCEPT !.rule = r]
               y == [tier[t] EXCEPT !.staged = r]
    <2>1. x \in Tier /\ y \in Tier /\ x.company = tier[t].company /\ y.company = tier[t].company
      BY <1>1, TierField
    <2>2. tier' = [tier EXCEPT ![t] = x] \/ tier' = [tier EXCEPT ![t] = y]
      BY <1>3 DEF UpdateTier
    <2> HIDE DEF x, y
    <2> QED  BY <2>1, <2>2, TierBecomes
  <1> QED  BY <1>2, <1>3

LEMMA EmployeeStep ==
  ASSUME CompanyTyped, NEW c \in CompanyIds, NEW u \in Persons, NEW t \in TierIds \cup {NoTier},
         NEW caller, \/ AddEmployee(c, u, t, caller) \/ ReassignTier(c, u, t, caller)
                     \/ RemoveEmployee(c, u, caller)
  PROVE  /\ employee' \in [CompanyIds -> [Persons -> Employee]] /\ tier' = tier
         /\ \A b \in CompanyIds, v \in Persons :
              \/ employee'[b][v].tier = employee[b][v].tier
              \/ b = c /\ (employee'[b][v].tier # NoTier => tier[employee'[b][v].tier].company = c)
  <1>1. employee[c][u] \in Employee
    BY DEF CompanyTyped, CompaniesTypeOK
  <1>2. CASE AddEmployee(c, u, t, caller)
    <2> DEFINE x == [status |-> "active", tier |-> t]
    <2>1. x \in Employee /\ x.tier = t
      BY DEF Employee
    <2>2. tier' = tier /\ (t # NoTier => tier[t].company = c)
      BY <1>2 DEF AddEmployee
    <2>3. employee' = [employee EXCEPT ![c][u] = x]
      BY <1>2 DEF AddEmployee
    <2> HIDE DEF x
    <2>4. x \in Employee
      BY <2>1
    <2>5. /\ employee' \in [CompanyIds -> [Persons -> Employee]] /\ employee'[c][u] = x
          /\ \A b \in CompanyIds, v \in Persons : b # c \/ v # u => employee'[b][v] = employee[b][v]
      BY <2>3, <2>4, EmployeeBecomes
    <2> QED  BY <2>1, <2>2, <2>5
  <1>3. CASE ReassignTier(c, u, t, caller)
    <2> DEFINE x == [employee[c][u] EXCEPT !.tier = t]
    <2>1. x \in Employee /\ x.tier = t
      BY <1>1, EmployeeField
    <2>2. tier' = tier /\ (t # NoTier => tier[t].company = c)
      BY <1>3 DEF ReassignTier
    <2>3. employee' = [employee EXCEPT ![c][u] = x]
      BY <1>3 DEF ReassignTier
    <2> HIDE DEF x
    <2>4. x \in Employee
      BY <2>1
    <2>5. /\ employee' \in [CompanyIds -> [Persons -> Employee]] /\ employee'[c][u] = x
          /\ \A b \in CompanyIds, v \in Persons : b # c \/ v # u => employee'[b][v] = employee[b][v]
      BY <2>3, <2>4, EmployeeBecomes
    <2> QED  BY <2>1, <2>2, <2>5
  <1>4. CASE RemoveEmployee(c, u, caller)
    <2> DEFINE x == [employee[c][u] EXCEPT !.status = "inactive"]
    <2>1. x \in Employee /\ x.tier = employee[c][u].tier
      BY <1>1, EmployeeField
    <2>2. employee' = [employee EXCEPT ![c][u] = x] /\ tier' = tier
      BY <1>4 DEF RemoveEmployee
    <2> HIDE DEF x
    <2>3. x \in Employee /\ employee' = [employee EXCEPT ![c][u] = x]
      BY <2>1, <2>2
    <2>4. /\ employee' \in [CompanyIds -> [Persons -> Employee]] /\ employee'[c][u] = x
          /\ \A b \in CompanyIds, v \in Persons : b # c \/ v # u => employee'[b][v] = employee[b][v]
      BY <2>3, EmployeeBecomes
    <2> QED  BY <2>1, <2>2, <2>4
  <1> QED  BY <1>2, <1>3, <1>4

LEMMA DeleteTierStep ==
  ASSUME CompanyTyped, NEW c \in CompanyIds, NEW t \in TierIds, NEW caller, DeleteTier(c, t, caller)
  PROVE  /\ tier' \in [TierIds -> Tier] /\ \A s \in TierIds \ {t} : tier'[s] = tier[s]
         /\ employee' \in [CompanyIds -> [Persons -> Employee]]
         /\ \A b \in CompanyIds, v \in Persons :
              \/ employee'[b][v].tier = NoTier
              \/ employee'[b][v].tier = employee[b][v].tier /\ employee[b][v].tier # t
  <1> DEFINE none == [company |-> Nowhere, rule |-> NoRule, staged |-> NoRule]
             E(b, v) == IF employee[b][v].tier = t THEN [employee[b][v] EXCEPT !.tier = NoTier]
                                                  ELSE employee[b][v]
  <1>1. none \in Tier
    BY DEF Tier
  <1>2. tier' = [tier EXCEPT ![t] = none]
    BY DEF DeleteTier
  <1>3. employee' = [b \in CompanyIds |-> [v \in Persons |-> E(b, v)]]
    BY DEF DeleteTier
  <1>4. ASSUME NEW b \in CompanyIds, NEW v \in Persons
        PROVE  /\ E(b, v) \in Employee
               /\ E(b, v).tier = NoTier \/ (E(b, v).tier = employee[b][v].tier /\ employee[b][v].tier # t)
    <2>1. employee[b][v] \in Employee
      BY DEF CompanyTyped, CompaniesTypeOK
    <2>2. CASE employee[b][v].tier = t
      BY <2>1, <2>2, EmployeeField
    <2>3. CASE employee[b][v].tier # t
      BY <2>1, <2>3
    <2> QED  BY <2>2, <2>3
  <1> HIDE DEF none, E
  <1>5. tier' \in [TierIds -> Tier] /\ \A s \in TierIds \ {t} : tier'[s] = tier[s]
    BY <1>1, <1>2, TierBecomes
  <1>6. \A b \in CompanyIds, v \in Persons : employee'[b][v] = E(b, v)
    BY <1>3
  <1>7. employee' \in [CompanyIds -> [Persons -> Employee]]
    BY <1>3, <1>4
  <1> QED  BY <1>4, <1>5, <1>6, <1>7

LEMMA ActivatedStep ==
  ASSUME CompanyTyped, NEW c \in CompanyIds, NEW a \in {"pending", "active"},
         company' = [company EXCEPT ![c].activation = a]
  PROVE  /\ company' \in [CompanyIds -> Company] /\ company'[c].activation = a
         /\ \A d \in CompanyIds \ {c} : company'[d] = company[d]
  <1> DEFINE x == [company[c] EXCEPT !.activation = a]
  <1>1. company[c] \in Company
    BY DEF CompanyTyped, CompaniesTypeOK
  <1>2. x \in Company /\ x.activation = a /\ company' = [company EXCEPT ![c] = x]
    BY <1>1, CompanyField
  <1> HIDE DEF x
  <1> QED  BY <1>2, CompanyBecomes

(* The user's row is saved.                                                *)
LEMMA SaveRolesStep ==
  ASSUME CompanyTyped, NEW p \in Procs, SaveRoles(p)
  PROVE  /\ CompanyTyped'
         /\ \E a \in AdminCall, x \in AdminCall \cup {NoCall} :
              /\ a = call[p] /\ a # NoCall /\ call' = [call EXCEPT ![p] = x]
              /\ x # NoCall => x.company = a.company /\ x.user = a.user
              /\ \A b : Leaves(x, b) => Leaves(a, b)
         /\ UNCHANGED <<company, inviteToken, companyAdmin, tier, employee, companyOdd>>
  <1>1. call[p] # NoCall /\ call[p].pc = "roles"
    BY DEF SaveRoles, At
  <1>2. PICK a \in AdminCall : a = call[p]
    BY <1>1, CompanyCalls
  <1> DEFINE y == [a EXCEPT !.pc = "saveAdmin"]
             x == IF a.op = "demote" THEN y ELSE NoCall
  <1>3. y \in AdminCall /\ y.company = a.company /\ y.user = a.user /\ y.op = a.op /\ y.role = a.role
    BY DEF AdminCall
  <1>4. call' = [call EXCEPT ![p] = x]
    BY <1>2 DEF SaveRoles, Goto, End, GotoState
  <1> HIDE DEF y
  <1>5. x \in AdminCall \cup {NoCall} /\ (x # NoCall => x.company = a.company /\ x.user = a.user)
        /\ \A b : Leaves(x, b) => Leaves(a, b)
    BY <1>1, <1>2, <1>3 DEF Leaves
  <1> HIDE DEF x
  <1>6. call' \in [Procs -> CompanyCall \cup {NoCall}]
    BY <1>4, <1>5 DEF CompanyTyped, CompanyCall
  <1>7. /\ companyRoles' = [companyRoles EXCEPT ![a.user] = a.roles]
        /\ account' = [account EXCEPT ![a.user] = a.status]
        /\ UNCHANGED <<company, inviteToken, companyAdmin, tier, employee, companyOdd>>
        /\ a.user \in Persons /\ a.roles \in CompanyRoles /\ a.status \in AccountStatus
    BY <1>2 DEF SaveRoles, AdminCall
  <1>8. companyRoles' \in [Persons -> CompanyRoles] /\ account' \in [Persons -> AccountStatus]
    BY <1>7 DEF CompanyTyped, CompaniesTypeOK
  <1>9. CompanyTyped'
    BY <1>6, <1>7, <1>8 DEF CompanyTyped, CompaniesTypeOK
  <1> QED  BY <1>1, <1>2, <1>4, <1>5, <1>7, <1>9

(* The row of a membership becomes r; it stops being an owner's only when  *)
(* the handler was about to take the ownership away.                       *)
LEMMA RowStep ==
  ASSUME CompanyTyped, NEW p \in Procs, SaveAdmin(p) \/ RemoveAdmin(p)
  PROVE  /\ CompanyTyped'
         /\ \E a \in AdminCall, x \in AdminCall \cup {NoCall}, r \in {"none", "ADMIN", "OWNER"} :
              /\ a = call[p] /\ a # NoCall /\ call' = [call EXCEPT ![p] = x]
              /\ companyAdmin' = [companyAdmin EXCEPT ![a.company][a.user] = r]
              /\ \A b : ~Leaves(x, b)
              /\ companyAdmin[a.company][a.user] = "OWNER" /\ r # "OWNER" => Leaves(a, a.company)
         /\ UNCHANGED <<company, inviteToken, account, companyRoles, tier, employee, companyOdd>>
  <1>1. call[p] # NoCall /\ call[p].pc \in {"saveAdmin", "removeAdmin"}
    BY DEF SaveAdmin, RemoveAdmin, At
  <1>2. PICK a \in AdminCall : a = call[p]
    BY <1>1, CompanyCalls
  <1> DEFINE was == companyAdmin[a.company][a.user]
  <1>3. /\ a.company \in CompanyIds /\ a.user \in Persons /\ a.role \in {"ADMIN", "OWNER"}
        /\ companyAdmin \in [CompanyIds -> [Persons -> {"none", "ADMIN", "OWNER"}]]
        /\ was \in {"none", "ADMIN", "OWNER"}
    BY DEF AdminCall, CompanyTyped, CompaniesTypeOK
  <1>4. UNCHANGED <<company, inviteToken, account, companyRoles, tier, employee, companyOdd>>
    BY DEF SaveAdmin, RemoveAdmin
  <1>5. \A b : ~Leaves(NoCall, b)
    BY DEF Leaves
  <1>6. \E x \in AdminCall \cup {NoCall}, r \in {"none", "ADMIN", "OWNER"} :
          /\ call' = [call EXCEPT ![p] = x]
          /\ companyAdmin' = [companyAdmin EXCEPT ![a.company][a.user] = r]
          /\ \A b : ~Leaves(x, b)
          /\ was = "OWNER" /\ r # "OWNER" => Leaves(a, a.company)
    <2>1. CASE SaveAdmin(p) /\ a.op = "grant" /\ was # "none"
      <3>1. companyAdmin' = companyAdmin /\ call' = [call EXCEPT ![p] = NoCall]
        BY <1>2, <2>1 DEF SaveAdmin, End, GotoState
      <3>2. companyAdmin' = [companyAdmin EXCEPT ![a.company][a.user] = was]
        BY <1>3, <3>1
      <3> QED  BY <1>3, <1>5, <3>1, <3>2
    <2>2. CASE SaveAdmin(p) /\ ~(a.op = "grant" /\ was # "none")
      <3>1. PICK new \in {{"COMPANY_OWNER"}, {"COMPANY_ADMIN"}} :
               /\ companyAdmin' = [companyAdmin EXCEPT ![a.company][a.user] = a.role]
               /\ IF a.op = "grant" /\ ~(new \subseteq a.roles)
                  THEN call' = [call EXCEPT ![p] = [a EXCEPT !.pc = "roles", !.roles = @ \cup new]]
                  ELSE call' = [call EXCEPT ![p] = NoCall]
        BY <1>2, <2>2 DEF SaveAdmin, End, GotoState
      <3>2. was = "OWNER" /\ a.role # "OWNER" => Leaves(a, a.company)
        <4>1. a.pc = "saveAdmin"
          BY <1>2, <2>2 DEF SaveAdmin, At
        <4> QED  BY <1>1, <1>2, <1>3, <2>2, <4>1 DEF Leaves
      <3>3. CASE a.op = "grant" /\ ~(new \subseteq a.roles)
        <4> DEFINE x == [a EXCEPT !.pc = "roles", !.roles = a.roles \cup new]
        <4>1. a.roles \cup new \in CompanyRoles
          BY DEF AdminCall, CompanyRoles
        <4>2. x \in AdminCall /\ x.op = "grant"
          BY <3>3, <4>1 DEF AdminCall
        <4>3. call' = [call EXCEPT ![p] = x]
          BY <3>1, <3>3
        <4> HIDE DEF x
        <4>4. \A b : ~Leaves(x, b)
          BY <4>2 DEF Leaves
        <4> QED  BY <1>3, <3>1, <3>2, <4>2, <4>3, <4>4
      <3>4. CASE ~(a.op = "grant" /\ ~(new \subseteq a.roles))
        BY <1>3, <1>5, <3>1, <3>2, <3>4
      <3> QED  BY <3>3, <3>4
    <2>3. CASE RemoveAdmin(p)
      <3> DEFINE x == [a EXCEPT !.pc = "scrub"]
      <3>1. a.pc = "removeAdmin"
        BY <1>2, <2>3 DEF RemoveAdmin, At
      <3>2. a.op = "remove" /\ a.role = "ADMIN"
        BY <3>1 DEF AdminCall
      <3>3. x \in AdminCall /\ x.pc = "scrub"
        BY <3>2 DEF AdminCall
      <3>4. /\ companyAdmin' = [companyAdmin EXCEPT ![a.company][a.user] = "none"]
            /\ call' = [call EXCEPT ![p] = x]
        BY <1>2, <2>3 DEF RemoveAdmin, Goto, GotoState
      <3> HIDE DEF x
      <3>5. (\A b : ~Leaves(x, b)) /\ Leaves(a, a.company)
        BY <1>1, <1>2, <3>1, <3>2, <3>3 DEF Leaves
      <3> QED  BY <3>3, <3>4, <3>5
    <2> QED  BY <2>1, <2>2, <2>3
  <1>7. PICK x \in AdminCall \cup {NoCall}, r \in {"none", "ADMIN", "OWNER"} :
          /\ call' = [call EXCEPT ![p] = x]
          /\ companyAdmin' = [companyAdmin EXCEPT ![a.company][a.user] = r]
          /\ \A b : ~Leaves(x, b)
          /\ was = "OWNER" /\ r # "OWNER" => Leaves(a, a.company)
    BY <1>6
  <1>8. companyAdmin' \in [CompanyIds -> [Persons -> {"none", "ADMIN", "OWNER"}]]
    BY <1>3, <1>7
  <1>9. call' \in [Procs -> CompanyCall \cup {NoCall}]
    BY <1>7 DEF CompanyTyped, CompanyCall
  <1>10. CompanyTyped'
    BY <1>4, <1>8, <1>9 DEF CompanyTyped, CompaniesTypeOK
  <1> QED  BY <1>1, <1>2, <1>4, <1>7, <1>10

LEMMA CompanyNextTyped ==
  CompanyTyped /\ [CompaniesNext]_<<companyVars, requestVars>> => CompanyTyped'
  <1> SUFFICES ASSUME CompanyTyped, [CompaniesNext]_<<companyVars, requestVars>> PROVE CompanyTyped'
    OBVIOUS
  <1> USE DEF CompanyTyped, CompaniesTypeOK, AccountStatus, CompanyRoles
  <1>1. ASSUME NEW c \in CompanyIds, CreateCompany(c) PROVE CompanyTyped'
    <2>1. company' \in [CompanyIds -> Company]
      BY <1>1, ActivatedStep DEF CreateCompany
    <2> QED  BY <1>1, <2>1 DEF CreateCompany, OneStep
  <1>2. ASSUME NEW c \in CompanyIds, InviteExpires(c) PROVE CompanyTyped'
    BY <1>2 DEF InviteExpires, requestVars
  <1>3. ASSUME NEW c \in CompanyIds, NEW b \in BOOLEAN, UpdateCompanyStatus(c, b) PROVE CompanyTyped'
    <2>1. company' \in [CompanyIds -> Company]
      BY <1>3, UpdateStatusStep
    <2> QED  BY <1>3, <2>1 DEF UpdateCompanyStatus, OneStep
  <1>4. ASSUME NEW u \in Persons, SuspendAccount(u) PROVE CompanyTyped'
    BY <1>4 DEF SuspendAccount, OneStep
  <1>5. ASSUME NEW c \in CompanyIds, NEW t \in TierIds, NEW caller, DeleteTier(c, t, caller) PROVE CompanyTyped'
    <2>1. tier' \in [TierIds -> Tier] /\ employee' \in [CompanyIds -> [Persons -> Employee]]
      BY <1>5, DeleteTierStep
    <2> QED  BY <1>5, <2>1 DEF DeleteTier, OneStep
  <1>6. ASSUME NEW c \in CompanyIds, NEW t \in TierIds, NEW r \in Rules, NEW caller,
               CreateTier(c, t, r, caller) \/ UpdateTier(c, t, r, caller)
        PROVE  CompanyTyped'
    <2>1. tier' \in [TierIds -> Tier]
      BY <1>6, TierStep
    <2> QED  BY <1>6, <2>1 DEF CreateTier, UpdateTier, OneStep
  <1>7. ASSUME NEW c \in CompanyIds, NEW u \in Persons, NEW t \in TierIds \cup {NoTier}, NEW caller,
               \/ AddEmployee(c, u, t, caller) \/ ReassignTier(c, u, t, caller)
               \/ RemoveEmployee(c, u, caller)
        PROVE  CompanyTyped'
    <2>1. employee' \in [CompanyIds -> [Persons -> Employee]]
      BY <1>7, EmployeeStep
    <2> QED  BY <1>7, <2>1 DEF AddEmployee, ReassignTier, RemoveEmployee, OneStep
  <1>10. ASSUME NEW p \in Procs, NEW c \in CompanyIds, NEW u \in Persons, NEW r \in {"ADMIN", "OWNER"},
                NEW caller, AddAdmin(p, c, u, r, caller) \/ CheckRemoval(p, c, u, caller)
         PROVE  CompanyTyped'
    <2>1. \E pc \in {"owned", "saveAdmin", "removeAdmin"}, op \in {"grant", "change", "demote", "remove"},
             role \in {"ADMIN", "OWNER"} :
            /\ BeginAdmin(p, pc, op, c, u, role)
            /\ pc = "removeAdmin" => op = "remove" /\ role = "ADMIN"
      <3>1. CASE AddAdmin(p, c, u, r, caller)
        BY <3>1 DEF AddAdmin
      <3>2. CASE CheckRemoval(p, c, u, caller)
        BY <3>2 DEF CheckRemoval
      <3> QED  BY <1>10, <3>1, <3>2
    <2> HIDE DEF CompanyTyped, CompaniesTypeOK
    <2>5. PICK x \in AdminCall :
            /\ call' = [call EXCEPT ![p] = x] /\ companyOdd' \in {Overlapping(c), companyOdd}
            /\ UNCHANGED <<company, inviteToken, account, companyRoles, companyAdmin, tier, employee>>
      BY <2>1, AdminBegins
    <2>2. companyOdd' \subseteq CompanyIds
      BY <2>5 DEF Overlapping, CompanyTyped, CompaniesTypeOK
    <2>3. x \in CompanyCall
      BY DEF CompanyCall
    <2>4. call' \in [Procs -> CompanyCall \cup {NoCall}]
      BY <2>5, <2>3 DEF CompanyTyped
    <2> QED  BY <2>5, <2>2, <2>4 DEF CompanyTyped, CompaniesTypeOK
  <1>11. ASSUME NEW p \in Procs, LookAtOwnerships(p) \/ ScrubRoles(p) PROVE CompanyTyped'
    <2>1. PICK a, x \in AdminCall : call' = [call EXCEPT ![p] = x] /\ UNCHANGED companyVars
      BY <1>11, LookAtStep
    <2>2. x \in CompanyCall
      BY DEF CompanyCall
    <2>3. call' \in [Procs -> CompanyCall \cup {NoCall}]
      BY <2>1, <2>2
    <2> QED  BY <2>1, <2>3 DEF companyVars
  <1>12. ASSUME NEW p \in Procs, SaveRoles(p) \/ SaveAdmin(p) \/ RemoveAdmin(p) PROVE CompanyTyped'
    BY <1>12, SaveRolesStep, RowStep
  <1>13. ASSUME NEW p \in Procs, ConsumeInvite(p) PROVE CompanyTyped'
    <2>1. call[p] # NoCall /\ call[p].pc = "consume" /\ (Goto(p, "owner") \/ End(p))
      BY <1>13 DEF ConsumeInvite, At
    <2>2. End(p) => call' \in [Procs -> CompanyCall \cup {NoCall}]
      BY DEF End, GotoState
    <2>3. call' \in [Procs -> CompanyCall \cup {NoCall}]
      BY <2>1, <2>2, CompanyGoes
    <2> QED  BY <1>13, <2>3 DEF ConsumeInvite
  <1>14. ASSUME NEW p \in Procs, GrantOwner(p) PROVE CompanyTyped'
    <2>1. call[p] # NoCall /\ call[p].pc = "owner" /\ Goto(p, "admin")
      BY <1>14 DEF GrantOwner, At
    <2>2. call' \in [Procs -> CompanyCall \cup {NoCall}]
      BY <2>1, CompanyGoes
    <2> QED  BY <1>14, <2>1, <2>2, CompanyCalls DEF GrantOwner
  <1>15. ASSUME NEW p \in Procs, SaveOwner(p) PROVE CompanyTyped'
    <2>1. call[p] # NoCall /\ call[p].pc = "admin" /\ Goto(p, "activate")
      BY <1>15 DEF SaveOwner, At
    <2>2. call' \in [Procs -> CompanyCall \cup {NoCall}]
      BY <2>1, CompanyGoes
    <2>3. companyAdmin' \in [CompanyIds -> [Persons -> {"none", "ADMIN", "OWNER"}]]
      BY <1>15, <2>1 DEF SaveOwner
    <2>4. companyOdd' \subseteq CompanyIds
      BY <1>15, <2>1, CompanyCalls DEF SaveOwner, Overlapping
    <2> QED  BY <1>15, <2>2, <2>3, <2>4 DEF SaveOwner
  <1>16. ASSUME NEW p \in Procs, ActivateCompany(p) PROVE CompanyTyped'
    <2>1. call' \in [Procs -> CompanyCall \cup {NoCall}]
      BY <1>16 DEF ActivateCompany, End, GotoState
    <2>2. company' = [company EXCEPT ![call[p].company].activation = "active"] /\ call[p] # NoCall
      BY <1>16 DEF ActivateCompany, At
    <2>3. company' \in [CompanyIds -> Company]
      BY <2>2, CompanyCalls, ActivatedStep
    <2> QED  BY <1>16, <2>1, <2>3 DEF ActivateCompany
  <1>17. ASSUME NEW p \in Procs, NEW c \in CompanyIds, ReadInvite(p, c) PROVE CompanyTyped'
    <2> DEFINE x == [pc |-> "consume", company |-> c]
    <2>1. x \in CompanyCall /\ call' = [call EXCEPT ![p] = x]
      BY <1>17 DEF CompanyCall, Activation, ReadInvite, Begin
    <2> HIDE DEF x
    <2>2. call' \in [Procs -> CompanyCall \cup {NoCall}]
      BY <2>1
    <2> QED  BY <1>17, <2>2 DEF ReadInvite, companyVars
  <1>18. ASSUME NEW p \in Procs, Dies(p), UNCHANGED companyVars PROVE CompanyTyped'
    BY <1>18 DEF Dies, companyVars
  <1>19. CASE UNCHANGED <<companyVars, requestVars>>
    BY <1>19 DEF companyVars, requestVars
  <1> HIDE DEF CompanyTyped, CompaniesTypeOK
  <1> QED
    BY <1>1, <1>2, <1>3, <1>4, <1>5, <1>6, <1>7, <1>10, <1>11, <1>12, <1>13, <1>14, <1>15,
       <1>16, <1>17, <1>18, <1>19 DEF CompaniesNext

(* A company is owned as before when it does not come to life, no owner    *)
(* leaves and no removal begins.                                           *)
LEMMA HasOwnerKept ==
  ASSUME NEW c \in CompanyIds, HasOwner(c), Lives(c)' => Lives(c),
         Owners(companyAdmin, c) \subseteq Owners(companyAdmin', c),
         \A p \in Procs : Removes(p, c)' => Removes(p, c) /\ call'[p].user = call[p].user
  PROVE  HasOwner(c)'
  <1>1. Lives(c)' => Owners(companyAdmin', c) # {}
    BY DEF HasOwner
  <1>2. ASSUME NEW p \in Procs, Removes(p, c)'
        PROVE  /\ Lives(c)' => Owners(companyAdmin', c) \ {call'[p].user} # {}
               /\ \A q \in Procs : Removes(q, c)' => q = p
    BY <1>2 DEF HasOwner
  <1> QED  BY <1>1, <1>2 DEF HasOwner

(* A step that changes no admin, and starts no life and no removal.        *)
LEMMA OwnersKept ==
  ASSUME OwnersStay, companyAdmin' = companyAdmin, companyOdd' = companyOdd,
         \A c \in CompanyIds : company'[c].activation = "active" => Lives(c),
         \A p \in Procs, c \in CompanyIds :
           /\ Activates(p, c)' => Activates(p, c)
           /\ Removes(p, c)' => Removes(p, c) /\ call'[p].user = call[p].user
  PROVE  OwnersStay'
  <1>1. ASSUME NEW c \in CompanyIds, c \notin companyOdd PROVE HasOwner(c)'
    <2>1. Lives(c)' => Lives(c)
      BY DEF Lives
    <2>2. HasOwner(c) /\ Owners(companyAdmin, c) \subseteq Owners(companyAdmin', c)
      BY <1>1 DEF OwnersStay
    <2> QED  BY <2>1, <2>2, HasOwnerKept
  <1> QED  BY <1>1 DEF OwnersStay

(* A step on the owners of company c leaves the others as they are.        *)
LEMMA OtherOwnersKept ==
  ASSUME OwnersStay, NEW c \in CompanyIds, companyOdd \subseteq companyOdd',
         \A b \in CompanyIds \ {c} : companyAdmin'[b] = companyAdmin[b], company' = company,
         \A p \in Procs, b \in CompanyIds \ {c} :
           /\ Activates(p, b)' => Activates(p, b)
           /\ Removes(p, b)' => Removes(p, b) /\ call'[p].user = call[p].user,
         c \notin companyOdd' => HasOwner(c)'
  PROVE  OwnersStay'
  <1>1. ASSUME NEW b \in CompanyIds \ {c}, b \notin companyOdd' PROVE HasOwner(b)'
    <2>1. Lives(b)' => Lives(b)
      BY DEF Lives
    <2>2. HasOwner(b) /\ Owners(companyAdmin, b) \subseteq Owners(companyAdmin', b)
      BY <1>1 DEF OwnersStay, Owners
    <2> QED  BY <2>1, <2>2, HasOwnerKept
  <1> QED  BY <1>1 DEF OwnersStay

(* More than one owner: another one than u.                                *)
LEMMA AnotherOwner ==
  ASSUME NEW c \in CompanyIds, NEW u, Cardinality(Owners(companyAdmin, c)) > 1
  PROVE  Owners(companyAdmin, c) \ {u} # {}
  <1> DEFINE S == Owners(companyAdmin, c)
  <1> SUFFICES ASSUME S \ {u} = {} PROVE FALSE
    OBVIOUS
  <1>1. S = {} \/ S = {u}
    OBVIOUS
  <1>2. Cardinality({}) = 0 /\ Cardinality({u}) = 1
    BY FS_EmptySet, FS_Singleton
  <1>3. Cardinality(S) = 0 \/ Cardinality(S) = 1
    BY <1>1, <1>2
  <1> HIDE DEF S
  <1>4. Cardinality(S) > 1
    BY DEF S
  <1> QED  BY <1>3, <1>4

(* A handler begins that will take an ownership away, or save a row as an  *)
(* admin's: an owner remains without its user.                             *)
LEMMA LeaveBegins ==
  ASSUME CompanyTyped, OwnersStay, NEW p \in Procs, NEW c \in CompanyIds, NEW u \in Persons,
         companyAdmin[c][u] = "OWNER" => Cardinality(Owners(companyAdmin, c)) > 1,
         NEW x \in AdminCall, x.company = c, x.user = u, call[p] = NoCall,
         call' = [call EXCEPT ![p] = x], companyOdd' = Overlapping(c),
         companyAdmin' = companyAdmin, company' = company
  PROVE  OwnersStay'
  <1>1. x \in CompanyCall /\ x.pc # "activate"
    BY DEF CompanyCall, AdminCall
  <1>2. call'[p] = x /\ \A q \in Procs \ {p} : call'[q] = call[q]
    BY <1>1, CompanySlot
  <1>3. \A q \in Procs, b \in CompanyIds : Activates(q, b)' => Activates(q, b)
    BY <1>1, <1>2 DEF Activates
  <1>4. \A q \in Procs, b \in CompanyIds \ {c} :
          Removes(q, b)' => Removes(q, b) /\ call'[q].user = call[q].user
    BY <1>2 DEF Removes, Leaves
  <1>5. companyOdd \subseteq companyOdd'
    BY DEF Overlapping
  <1>6. ASSUME c \notin companyOdd' PROVE HasOwner(c)'
    <2>1. HasOwner(c)
      BY <1>5, <1>6 DEF OwnersStay
    <2>2. Lives(c)' => Lives(c)
      BY <1>3 DEF Lives
    <2>3. \A q \in Procs : ~Removes(q, c)
      BY <1>6 DEF Overlapping, Removes
    <2>4. \A q \in Procs : Removes(q, c)' => q = p /\ call'[q].user = u
      BY <2>3, <1>2 DEF Removes
    <2>5. Lives(c) => Owners(companyAdmin, c) \ {u} # {}
      <3>1. CASE companyAdmin[c][u] = "OWNER"
        BY <3>1, AnotherOwner
      <3>2. CASE companyAdmin[c][u] # "OWNER"
        <4>1. u \notin Owners(companyAdmin, c)
          BY <3>2 DEF Owners
        <4> QED  BY <4>1, <2>1 DEF HasOwner
      <3> QED  BY <3>1, <3>2
    <2> QED  BY <2>1, <2>2, <2>4, <2>5 DEF HasOwner
  <1> QED  BY <1>3, <1>4, <1>5, <1>6, OtherOwnersKept

(* A handler begins that will not.                                         *)
LEMMA OtherBegins ==
  ASSUME CompanyTyped, OwnersStay, NEW p \in Procs, NEW x \in AdminCall, x.op = "grant" \/ x.role = "OWNER",
         call[p] = NoCall, call' = [call EXCEPT ![p] = x],
         companyOdd' = companyOdd, companyAdmin' = companyAdmin, company' = company
  PROVE  OwnersStay'
  <1>1. x \in CompanyCall /\ x.pc # "activate"
    BY DEF CompanyCall, AdminCall
  <1>2. call'[p] = x /\ \A q \in Procs \ {p} : call'[q] = call[q]
    BY <1>1, CompanySlot
  <1>3. \A q \in Procs, b \in CompanyIds :
          /\ Activates(q, b)' => Activates(q, b)
          /\ Removes(q, b)' => Removes(q, b) /\ call'[q].user = call[q].user
    BY <1>1, <1>2 DEF Activates, Removes, Leaves
  <1>4. \A b \in CompanyIds : company'[b].activation = "active" => Lives(b)
    BY DEF Lives
  <1> QED  BY <1>3, <1>4, OwnersKept

LEMMA AddAdminOwned ==
  ASSUME CompanyTyped, OwnersStay, NEW p \in Procs, NEW c \in CompanyIds, NEW u \in Persons,
         NEW r \in {"ADMIN", "OWNER"}, NEW caller, AddAdmin(p, c, u, r, caller)
  PROVE  OwnersStay'
  <1>1. CASE companyAdmin[c][u] = "none"
    <2>1. BeginAdmin(p, "saveAdmin", "grant", c, u, r)
      BY <1>1 DEF AddAdmin
    <2>2. PICK x \in AdminCall :
            /\ x.op = "grant" /\ call[p] = NoCall /\ call' = [call EXCEPT ![p] = x]
            /\ companyOdd' = companyOdd /\ companyAdmin' = companyAdmin /\ company' = company
      BY <2>1, AdminBegins
    <2> QED  BY <2>2, OtherBegins
  <1>2. CASE companyAdmin[c][u] # "none" /\ r = "OWNER"
    <2>1. BeginAdmin(p, "saveAdmin", "change", c, u, r)
      BY <1>2 DEF AddAdmin
    <2>2. PICK x \in AdminCall :
            /\ x.role = "OWNER" /\ call[p] = NoCall /\ call' = [call EXCEPT ![p] = x]
            /\ companyOdd' = companyOdd /\ companyAdmin' = companyAdmin /\ company' = company
      BY <1>2, <2>1, AdminBegins
    <2> QED  BY <2>2, OtherBegins
  <1>3. CASE companyAdmin[c][u] # "none" /\ r = "ADMIN"
    <2>1. PICK pc \in {"owned", "saveAdmin"}, op \in {"demote", "change"} :
            /\ BeginAdmin(p, pc, op, c, u, r)
            /\ companyAdmin[c][u] = "OWNER" => Cardinality(Owners(companyAdmin, c)) > 1
      BY <1>3 DEF AddAdmin
    <2>2. PICK x \in AdminCall :
            /\ x.company = c /\ x.user = u /\ call[p] = NoCall /\ call' = [call EXCEPT ![p] = x]
            /\ companyOdd' = Overlapping(c) /\ companyAdmin' = companyAdmin /\ company' = company
      BY <1>3, <2>1, AdminBegins
    <2> QED  BY <2>1, <2>2, LeaveBegins
  <1> QED  BY <1>1, <1>2, <1>3

LEMMA CheckRemovalOwned ==
  ASSUME CompanyTyped, OwnersStay, NEW p \in Procs, NEW c \in CompanyIds, NEW u \in Persons,
         NEW caller, CheckRemoval(p, c, u, caller)
  PROVE  OwnersStay'
  <1>1. /\ BeginAdmin(p, "removeAdmin", "remove", c, u, "ADMIN")
        /\ companyAdmin[c][u] = "OWNER" => Cardinality(Owners(companyAdmin, c)) > 1
    BY DEF CheckRemoval
  <1>2. PICK x \in AdminCall :
          /\ x.company = c /\ x.user = u /\ call[p] = NoCall /\ call' = [call EXCEPT ![p] = x]
          /\ companyOdd' = Overlapping(c) /\ companyAdmin' = companyAdmin /\ company' = company
    BY <1>1, AdminBegins
  <1> QED  BY <1>1, <1>2, LeaveBegins

(* The row of a membership is saved or removed.                            *)
LEMMA RowOwned ==
  ASSUME CompanyTyped, OwnersStay, NEW p \in Procs, SaveAdmin(p) \/ RemoveAdmin(p)
  PROVE  OwnersStay'
  <1>1. PICK a \in AdminCall, x \in AdminCall \cup {NoCall}, r \in {"none", "ADMIN", "OWNER"} :
          /\ a = call[p] /\ a # NoCall /\ call' = [call EXCEPT ![p] = x]
          /\ companyAdmin' = [companyAdmin EXCEPT ![a.company][a.user] = r]
          /\ \A b : ~Leaves(x, b)
          /\ companyAdmin[a.company][a.user] = "OWNER" /\ r # "OWNER" => Leaves(a, a.company)
    BY RowStep
  <1>2. PICK c \in CompanyIds, u \in Persons : c = a.company /\ u = a.user
    BY DEF AdminCall
  <1>3. company' = company /\ companyOdd' = companyOdd
    BY RowStep
  <1>4. x \in CompanyCall \cup {NoCall} /\ (x # NoCall => x.pc # "activate")
    BY DEF CompanyCall, AdminCall
  <1>5. call'[p] = x /\ \A q \in Procs \ {p} : call'[q] = call[q]
    BY <1>1, <1>4, CompanySlot
  <1>6. /\ companyAdmin'[c][u] = r
        /\ \A v \in Persons \ {u} : companyAdmin'[c][v] = companyAdmin[c][v]
        /\ \A b \in CompanyIds \ {c} : companyAdmin'[b] = companyAdmin[b]
    BY <1>1, <1>2 DEF CompanyTyped, CompaniesTypeOK
  <1>7. \A q \in Procs, b \in CompanyIds :
          /\ Activates(q, b)' => Activates(q, b)
          /\ Removes(q, b)' => q # p /\ Removes(q, b) /\ call'[q].user = call[q].user
    BY <1>1, <1>4, <1>5 DEF Activates, Removes
  <1>8. ASSUME c \notin companyOdd PROVE HasOwner(c)'
    <2>1. HasOwner(c)
      BY <1>8 DEF OwnersStay
    <2>2. Lives(c)' => Lives(c)
      BY <1>3, <1>7 DEF Lives
    <2>3. CASE companyAdmin[c][u] = "OWNER" /\ r # "OWNER"
      <3>1. Removes(p, c)
        BY <1>1, <1>2, <2>3 DEF Removes
      <3>2. \A q \in Procs : ~Removes(q, c)'
        BY <2>1, <3>1, <1>7 DEF HasOwner
      <3>3. Owners(companyAdmin, c) \ {u} \subseteq Owners(companyAdmin', c)
        BY <1>6 DEF Owners
      <3>4. Lives(c) => Owners(companyAdmin, c) \ {u} # {}
        BY <2>1, <3>1, <1>1, <1>2 DEF HasOwner
      <3> QED  BY <2>2, <3>2, <3>3, <3>4 DEF HasOwner
    <2>4. CASE ~(companyAdmin[c][u] = "OWNER" /\ r # "OWNER")
      <3>1. Owners(companyAdmin, c) \subseteq Owners(companyAdmin', c)
        BY <1>6, <2>4 DEF Owners
      <3>2. \A q \in Procs : Removes(q, c)' => Removes(q, c) /\ call'[q].user = call[q].user
        BY <1>7
      <3> QED  BY <2>1, <2>2, <3>1, <3>2, HasOwnerKept
    <2> QED  BY <2>3, <2>4
  <1> QED  BY <1>3, <1>6, <1>7, <1>8, OtherOwnersKept

(* The steps of addAdmin and removeAdmin that touch no membership.         *)
LEMMA UserRowOwned ==
  ASSUME CompanyTyped, OwnersStay, NEW p \in Procs,
         LookAtOwnerships(p) \/ ScrubRoles(p) \/ SaveRoles(p)
  PROVE  OwnersStay'
  <1>1. \E a \in AdminCall, x \in AdminCall \cup {NoCall} :
          /\ a = call[p] /\ a # NoCall /\ call' = [call EXCEPT ![p] = x]
          /\ x # NoCall => x.company = a.company /\ x.user = a.user
          /\ \A b : Leaves(x, b) => Leaves(a, b)
    <2>1. CASE LookAtOwnerships(p) \/ ScrubRoles(p)
      BY <2>1, LookAtStep
    <2>2. CASE SaveRoles(p)
      BY <2>2, SaveRolesStep
    <2> QED  BY <2>1, <2>2
  <1>2. PICK a \in AdminCall, x \in AdminCall \cup {NoCall} :
          /\ a = call[p] /\ a # NoCall /\ call' = [call EXCEPT ![p] = x]
          /\ x # NoCall => x.company = a.company /\ x.user = a.user
          /\ \A b : Leaves(x, b) => Leaves(a, b)
    BY <1>1
  <1>3. x \in CompanyCall \cup {NoCall} /\ (x # NoCall => x.pc # "activate")
    BY DEF CompanyCall, AdminCall
  <1>4. call'[p] = x /\ \A q \in Procs \ {p} : call'[q] = call[q]
    BY <1>2, <1>3, CompanySlot
  <1>5. companyAdmin' = companyAdmin /\ companyOdd' = companyOdd /\ company' = company
    BY DEF LookAtOwnerships, ScrubRoles, SaveRoles, companyVars
  <1>6. \A b : Leaves(x, b) => x # NoCall
    BY DEF Leaves
  <1>7. \A q \in Procs, b \in CompanyIds :
          /\ Activates(q, b)' => Activates(q, b)
          /\ Removes(q, b)' => Removes(q, b) /\ call'[q].user = call[q].user
    BY <1>2, <1>3, <1>4, <1>6 DEF Activates, Removes
  <1>8. \A b \in CompanyIds : company'[b].activation = "active" => Lives(b)
    BY <1>5 DEF Lives
  <1> QED  BY <1>5, <1>7, <1>8, OwnersKept

LEMMA SaveOwnerOwned ==
  ASSUME CompanyTyped, OwnersStay, NEW p \in Procs, SaveOwner(p)
  PROVE  OwnersStay'
  <1>1. call[p] # NoCall /\ call[p].pc = "admin" /\ Goto(p, "activate")
    BY DEF SaveOwner, At
  <1>2. PICK c \in CompanyIds : c = call[p].company
    BY <1>1, CompanyCalls
  <1>3. OwnerOf[c] \in Persons
    BY CompanyConstantsOK
  <1>4. /\ companyAdmin' = [companyAdmin EXCEPT ![c][OwnerOf[c]] = "OWNER"]
        /\ company' = company /\ companyOdd' = Overlapping(c)
    BY <1>2 DEF SaveOwner
  <1>5. /\ call'[p] # NoCall /\ call'[p].pc = "activate" /\ call'[p].company = c
        /\ \A q \in Procs \ {p} : call'[q] = call[q]
    BY <1>1, <1>2, CompanyGoes
  <1>6. companyAdmin'[c][OwnerOf[c]] = "OWNER" /\ \A b \in CompanyIds \ {c} : companyAdmin'[b] = companyAdmin[b]
    BY <1>3, <1>4 DEF CompanyTyped, CompaniesTypeOK
  <1>7. \A q \in Procs, b \in CompanyIds : Removes(q, b)' => Removes(q, b) /\ call'[q].user = call[q].user
    BY <1>5 DEF Removes, Leaves
  <1>8. \A q \in Procs, b \in CompanyIds \ {c} : Activates(q, b)' => Activates(q, b)
    BY <1>5 DEF Activates
  <1>9. companyOdd \subseteq companyOdd'
    BY <1>4 DEF Overlapping
  <1>10. ASSUME c \notin companyOdd' PROVE HasOwner(c)'
    <2>1. \A q \in Procs : ~Removes(q, c)
      BY <1>4, <1>10 DEF Overlapping, Removes
    <2>2. OwnerOf[c] \in Owners(companyAdmin', c)
      BY <1>3, <1>6 DEF Owners
    <2> QED  BY <2>1, <2>2, <1>7 DEF HasOwner
  <1> QED  BY <1>4, <1>6, <1>7, <1>8, <1>9, <1>10, OtherOwnersKept

LEMMA ActivateCompanyOwned ==
  ASSUME CompanyTyped, OwnersStay, NEW p \in Procs, ActivateCompany(p)
  PROVE  OwnersStay'
  <1>1. call[p] # NoCall /\ call[p].pc = "activate"
    BY DEF ActivateCompany, At
  <1>2. PICK c \in CompanyIds : c = call[p].company
    BY <1>1, CompanyCalls
  <1>3. /\ company' = [company EXCEPT ![c].activation = "active"] /\ call' = [call EXCEPT ![p] = NoCall]
        /\ companyAdmin' = companyAdmin /\ companyOdd' = companyOdd
    BY <1>2 DEF ActivateCompany, End, GotoState
  <1>4. call'[p] = NoCall /\ \A q \in Procs \ {p} : call'[q] = call[q]
    BY <1>3, CompanySlot
  <1>5. Lives(c)
    BY <1>1, <1>2 DEF Lives, Activates
  <1>6. \A b \in CompanyIds \ {c} : company'[b] = company[b]
    BY <1>3, ActivatedStep
  <1>7. \A b \in CompanyIds : company'[b].activation = "active" => Lives(b)
    BY <1>5, <1>6 DEF Lives
  <1>8. \A q \in Procs, b \in CompanyIds :
          /\ Activates(q, b)' => Activates(q, b)
          /\ Removes(q, b)' => Removes(q, b) /\ call'[q].user = call[q].user
    BY <1>4 DEF Activates, Removes, Leaves
  <1> QED  BY <1>3, <1>7, <1>8, OwnersKept

(* The steps of handlers that neither start a life nor remove.             *)
LEMMA HandlersOwned ==
  ASSUME CompanyTyped, OwnersStay, NEW p \in Procs,
         \/ ConsumeInvite(p) \/ GrantOwner(p) \/ \E c \in CompanyIds : ReadInvite(p, c)
         \/ Dies(p) /\ UNCHANGED companyVars
  PROVE  OwnersStay'
  <1>1. companyAdmin' = companyAdmin /\ companyOdd' = companyOdd /\ company' = company
    BY DEF ConsumeInvite, GrantOwner, ReadInvite, companyVars
  <1>2. /\ \A q \in Procs \ {p} : call'[q] = call[q]
        /\ call'[p] # NoCall => call'[p].pc \in {"consume", "owner", "admin"}
    <2>1. CASE ConsumeInvite(p)
      <3>1. call[p] # NoCall /\ call[p].pc = "consume" /\ (Goto(p, "owner") \/ End(p))
        BY <2>1 DEF ConsumeInvite, At
      <3>2. CASE Goto(p, "owner")
        BY <3>1, <3>2, CompanyGoes
      <3>3. CASE End(p)
        BY <3>3, CompanySlot DEF End, GotoState
      <3> QED  BY <3>1, <3>2, <3>3
    <2>2. CASE GrantOwner(p)
      <3>1. call[p] # NoCall /\ call[p].pc = "owner" /\ Goto(p, "admin")
        BY <2>2 DEF GrantOwner, At
      <3> QED  BY <3>1, CompanyGoes
    <2>3. ASSUME NEW c \in CompanyIds, ReadInvite(p, c)
          PROVE  /\ \A q \in Procs \ {p} : call'[q] = call[q]
                 /\ call'[p] # NoCall => call'[p].pc \in {"consume", "owner", "admin"}
      <3> DEFINE x == [pc |-> "consume", company |-> c]
      <3>1. x \in CompanyCall /\ x.pc = "consume" /\ call' = [call EXCEPT ![p] = x]
        BY <2>3 DEF CompanyCall, Activation, ReadInvite, Begin
      <3> HIDE DEF x
      <3>2. call'[p] = x /\ \A q \in Procs \ {p} : call'[q] = call[q]
        BY <3>1, CompanySlot
      <3> QED  BY <3>1, <3>2
    <2>4. CASE Dies(p)
      <3>1. call'[p] = NoCall /\ \A q \in Procs \ {p} : call'[q] = call[q]
        BY <2>4, CompanySlot DEF Dies
      <3> QED  BY <3>1
    <2> QED  BY <2>1, <2>2, <2>3, <2>4
  <1>3. \A q \in Procs, b \in CompanyIds :
          /\ Activates(q, b)' => Activates(q, b)
          /\ Removes(q, b)' => Removes(q, b) /\ call'[q].user = call[q].user
    BY <1>2 DEF Activates, Removes, Leaves
  <1>4. \A b \in CompanyIds : company'[b].activation = "active" => Lives(b)
    BY <1>1 DEF Lives
  <1> QED  BY <1>1, <1>3, <1>4, OwnersKept

(* The steps of one piece that touch no admin and activate nothing.        *)
LEMMA OneStepOwned ==
  ASSUME OwnersStay, companyAdmin' = companyAdmin, companyOdd' = companyOdd, call' = call,
         \A c \in CompanyIds : company'[c].activation = "active" => company[c].activation = "active"
  PROVE  OwnersStay'
  <1>1. \A q \in Procs, b \in CompanyIds :
          /\ Activates(q, b)' => Activates(q, b)
          /\ Removes(q, b)' => Removes(q, b) /\ call'[q].user = call[q].user
    BY DEF Activates, Removes
  <1>2. \A b \in CompanyIds : company'[b].activation = "active" => Lives(b)
    BY DEF Lives
  <1> QED  BY <1>1, <1>2, OwnersKept

LEMMA CompanyNextOwned ==
  CompanyTyped /\ OwnersStay /\ [CompaniesNext]_<<companyVars, requestVars>> => OwnersStay'
  <1> SUFFICES ASSUME CompanyTyped, OwnersStay, [CompaniesNext]_<<companyVars, requestVars>>
               PROVE  OwnersStay'
    OBVIOUS
  <1>1. ASSUME NEW c \in CompanyIds, CreateCompany(c) PROVE OwnersStay'
    <2>1. /\ companyAdmin' = companyAdmin /\ companyOdd' = companyOdd /\ call' = call
          /\ company' = [company EXCEPT ![c].activation = "pending"]
      BY <1>1 DEF CreateCompany, OneStep
    <2>2. company'[c].activation = "pending" /\ \A d \in CompanyIds \ {c} : company'[d] = company[d]
      BY <2>1, ActivatedStep
    <2>3. \A d \in CompanyIds : company'[d].activation = "active" => company[d].activation = "active"
      BY <2>2
    <2> QED  BY <2>1, <2>3, OneStepOwned
  <1>2. ASSUME NEW c \in CompanyIds, NEW b \in BOOLEAN, UpdateCompanyStatus(c, b) PROVE OwnersStay'
    <2>1. companyAdmin' = companyAdmin /\ companyOdd' = companyOdd /\ call' = call
      BY <1>2 DEF UpdateCompanyStatus, OneStep
    <2>2. \A d \in CompanyIds : company'[d].activation = company[d].activation
      BY <1>2, UpdateStatusStep
    <2> QED  BY <2>1, <2>2, OneStepOwned
  <1>3. ASSUME \/ \E c \in CompanyIds : InviteExpires(c)
               \/ \E u \in Persons : SuspendAccount(u)
               \/ \E c \in CompanyIds, caller \in CompanyCallers, t \in TierIds :
                    \/ DeleteTier(c, t, caller)
                    \/ \E r \in Rules : CreateTier(c, t, r, caller) \/ UpdateTier(c, t, r, caller)
               \/ \E c \in CompanyIds, caller \in CompanyCallers, u \in Persons :
                    \/ \E t \in TierIds \cup {NoTier} :
                         AddEmployee(c, u, t, caller) \/ ReassignTier(c, u, t, caller)
                    \/ RemoveEmployee(c, u, caller)
               \/ UNCHANGED <<companyVars, requestVars>>
        PROVE  OwnersStay'
    <2>1. companyAdmin' = companyAdmin /\ companyOdd' = companyOdd /\ call' = call /\ company' = company
      BY <1>3 DEF InviteExpires, SuspendAccount, DeleteTier, CreateTier, UpdateTier, AddEmployee,
                  ReassignTier, RemoveEmployee, OneStep, requestVars, companyVars
    <2> QED  BY <2>1, OneStepOwned
  <1>4. ASSUME NEW c \in CompanyIds, NEW caller \in CompanyCallers, NEW u \in Persons,
               \E p \in Procs : \/ \E r \in {"ADMIN", "OWNER"} : AddAdmin(p, c, u, r, caller)
                              \/ CheckRemoval(p, c, u, caller)
        PROVE  OwnersStay'
    BY <1>4, AddAdminOwned, CheckRemovalOwned
  <1>5. ASSUME NEW p \in Procs,
               \/ LookAtOwnerships(p) \/ SaveRoles(p) \/ SaveAdmin(p) \/ RemoveAdmin(p) \/ ScrubRoles(p)
               \/ ConsumeInvite(p) \/ GrantOwner(p) \/ SaveOwner(p)
               \/ ActivateCompany(p) \/ \E c \in CompanyIds : ReadInvite(p, c)
               \/ Dies(p) /\ UNCHANGED companyVars
        PROVE  OwnersStay'
    BY <1>5, RowOwned, UserRowOwned, SaveOwnerOwned, ActivateCompanyOwned, HandlersOwned
  <1> QED  BY <1>1, <1>2, <1>3, <1>4, <1>5 DEF CompaniesNext

LEMMA CompanyNextTiers ==
  CompanyTyped /\ OwnTiers /\ [CompaniesNext]_<<companyVars, requestVars>> => OwnTiers'
  <1> SUFFICES ASSUME CompanyTyped, OwnTiers, [CompaniesNext]_<<companyVars, requestVars>>
               PROVE  OwnTiers'
    OBVIOUS
  <1>1. ASSUME NEW c \in CompanyIds, NEW u \in Persons
        PROVE  /\ employee[c][u].tier \in TierIds \cup {NoTier}
               /\ employee[c][u].tier # NoTier => tier[employee[c][u].tier].company = c
               /\ c # Nowhere
    BY CompanyConstantsOK DEF OwnTiers, OwnTier, CompanyTyped, CompaniesTypeOK, Employee
  <1>2. ASSUME NEW c \in CompanyIds, NEW t \in TierIds, NEW caller, DeleteTier(c, t, caller)
        PROVE  OwnTiers'
    <2>1. /\ \A s \in TierIds \ {t} : tier'[s] = tier[s]
          /\ \A b \in CompanyIds, v \in Persons :
               \/ employee'[b][v].tier = NoTier
               \/ employee'[b][v].tier = employee[b][v].tier /\ employee[b][v].tier # t
      BY <1>2, DeleteTierStep
    <2> QED  BY <1>1, <2>1 DEF OwnTiers, OwnTier
  <1>3. ASSUME NEW c \in CompanyIds, NEW t \in TierIds, NEW r \in Rules, NEW caller,
               CreateTier(c, t, r, caller) \/ UpdateTier(c, t, r, caller)
        PROVE  OwnTiers'
    <2>1. \A s \in TierIds : tier[s].company # Nowhere => tier'[s].company = tier[s].company
      BY <1>3, TierStep
    <2>2. employee' = employee
      BY <1>3 DEF CreateTier, UpdateTier
    <2> QED  BY <1>1, <2>1, <2>2 DEF OwnTiers, OwnTier
  <1>4. ASSUME NEW c \in CompanyIds, NEW u \in Persons, NEW t \in TierIds \cup {NoTier}, NEW caller,
               \/ AddEmployee(c, u, t, caller) \/ ReassignTier(c, u, t, caller)
               \/ RemoveEmployee(c, u, caller)
        PROVE  OwnTiers'
    <2>1. /\ tier' = tier
          /\ \A b \in CompanyIds, v \in Persons :
               \/ employee'[b][v].tier = employee[b][v].tier
               \/ b = c /\ (employee'[b][v].tier # NoTier => tier[employee'[b][v].tier].company = c)
      BY <1>4, EmployeeStep
    <2> QED  BY <1>1, <2>1 DEF OwnTiers, OwnTier
  <1>5. ASSUME \/ \E c \in CompanyIds : CreateCompany(c) \/ InviteExpires(c)
                                       \/ \E b \in BOOLEAN : UpdateCompanyStatus(c, b)
               \/ \E u \in Persons : SuspendAccount(u)
               \/ \E c \in CompanyIds, caller \in CompanyCallers, u \in Persons :
                    \E p \in Procs : \/ \E r \in {"ADMIN", "OWNER"} : AddAdmin(p, c, u, r, caller)
                                   \/ CheckRemoval(p, c, u, caller)
               \/ \E p \in Procs :
                    \/ LookAtOwnerships(p) \/ SaveRoles(p) \/ SaveAdmin(p) \/ RemoveAdmin(p) \/ ScrubRoles(p)
                    \/ ConsumeInvite(p) \/ GrantOwner(p) \/ SaveOwner(p)
                    \/ ActivateCompany(p) \/ \E c \in CompanyIds : ReadInvite(p, c)
                    \/ Dies(p) /\ UNCHANGED companyVars
               \/ UNCHANGED <<companyVars, requestVars>>
        PROVE  OwnTiers'
    <2> DEFINE Kept == tier' = tier /\ employee' = employee
    <2>1. ASSUME \E c \in CompanyIds : CreateCompany(c) \/ InviteExpires(c)
                                        \/ \E b \in BOOLEAN : UpdateCompanyStatus(c, b)
        PROVE  Kept
      BY <2>1 DEF CreateCompany, InviteExpires, UpdateCompanyStatus
    <2>2. ASSUME \/ \E u \in Persons : SuspendAccount(u)
                 \/ \E c \in CompanyIds, caller \in CompanyCallers, u \in Persons :
                      \E p \in Procs : \/ \E r \in {"ADMIN", "OWNER"} : AddAdmin(p, c, u, r, caller)
                                     \/ CheckRemoval(p, c, u, caller)
        PROVE  Kept
      <3>1. \A u \in Persons : SuspendAccount(u) => Kept
        BY DEF SuspendAccount
      <3>2. \A p, c, caller, u, r : AddAdmin(p, c, u, r, caller) => Kept
        BY DEF AddAdmin, BeginAdmin
      <3>3. \A p, c, caller, u : CheckRemoval(p, c, u, caller) => Kept
        BY DEF CheckRemoval, BeginAdmin
      <3> HIDE DEF Kept
      <3> QED  BY <2>2, <3>1, <3>2, <3>3
    <2>3. ASSUME \E p \in Procs :
                   \/ LookAtOwnerships(p) \/ SaveRoles(p) \/ SaveAdmin(p) \/ RemoveAdmin(p) \/ ScrubRoles(p)
                   \/ ConsumeInvite(p) \/ GrantOwner(p) \/ SaveOwner(p)
                   \/ ActivateCompany(p) \/ \E c \in CompanyIds : ReadInvite(p, c)
        PROVE  Kept
      <3>1. \A p \in Procs : SaveRoles(p) \/ SaveAdmin(p) \/ RemoveAdmin(p) => Kept
        BY DEF SaveRoles, SaveAdmin, RemoveAdmin
      <3>6. \A p \in Procs : LookAtOwnerships(p) \/ ScrubRoles(p) => Kept
        BY DEF LookAtOwnerships, ScrubRoles, companyVars
      <3>2. \A p \in Procs : ConsumeInvite(p) => Kept
        BY DEF ConsumeInvite, companyVars
      <3>3. \A p \in Procs : GrantOwner(p) \/ SaveOwner(p) => Kept
        BY DEF GrantOwner, SaveOwner, companyVars
      <3>4. \A p \in Procs : ActivateCompany(p) => Kept
        BY DEF ActivateCompany, companyVars
      <3>5. \A p, c : ReadInvite(p, c) => Kept
        BY DEF ReadInvite, companyVars
      <3> HIDE DEF Kept
      <3> QED  BY <2>3, <3>1, <3>2, <3>3, <3>4, <3>5, <3>6
    <2>4. ASSUME UNCHANGED companyVars
        PROVE  Kept
      BY <2>4 DEF companyVars
    <2>5. Kept
      <3> HIDE DEF Kept
      <3> QED  BY <1>5, <2>1, <2>2, <2>3, <2>4
    <2> QED  BY <2>5 DEF OwnTiers, OwnTier
  <1> QED  BY <1>2, <1>3, <1>4, <1>5 DEF CompaniesNext

(* A company that is active has an owner, whoever leaves, is demoted or    *)
(* activates it twice, unless its owners change, or another of them is on  *)
(* the way out, between a demotion's or removal's count and its save; and  *)
(* an employee's tier is the company's own (removeAdmin, addAdmin,         *)
(* activateCompany and reassignTier of companies.service.ts).              *)
THEOREM CompanyOwner == CompaniesSpec => []CompanyHasOwner
  <1> DEFINE I == CompanyTyped /\ OwnersStay /\ OwnTiers
  <1>1. RequestsInit /\ CompaniesInit => I
    BY CompanyInitTyped, CompanyInitOwned
  <1>2. I /\ [CompaniesNext]_<<companyVars, requestVars>> => I'
    BY CompanyNextTyped, CompanyNextOwned, CompanyNextTiers
  <1>3. I => CompanyHasOwner
    BY DEF OwnersStay, OwnTiers, OwnTier, HasOwner, Lives, CompanyHasOwner
  <1> HIDE DEF I
  <1> QED  BY <1>1, <1>2, <1>3, PTL DEF CompaniesSpec

-----------------------------------------------------------------------------
(* Accounts.  A handler that suspends or deletes an account revokes its    *)
(* session once the row is saved, and one that signs in has read a row     *)
(* that is neither.  So what a closed account still has, a handler is      *)
(* about to take away, but for the accounts two handlers overlapped on and *)
(* those one of them failed to sign out.                                   *)

RowOK(r) == r.deleted => r.status = "deactivated"

(* The row a handler has at hand, the one it read, and what it will do.    *)
SavesOK(row, read, after) ==
  /\ row.status = "suspended" => after.session = "none" \/ read.status = "suspended"
  /\ row.deleted => (after.session = "none" /\ after.unregister) \/ read.deleted
SignsInOK(row, after) == after.session = "new" => row.status # "suspended" /\ ~row.deleted

HandlerOK(p) ==
  call[p] # NoCall =>
    /\ RowOK(call[p].row)
    /\ SignsInOK(call[p].row, call[p].after)
    /\ call[p].pc = "user" => SavesOK(call[p].row, call[p].read, call[p].after)

Revoking(p, u) ==
  /\ call[p] # NoCall /\ call[p].pc \in {"after", "session"}
  /\ call[p].user = u /\ call[p].after.session = "none"
Unregistering(p, u) ==
  call[p] # NoCall /\ call[p].pc = "after" /\ call[p].user = u /\ call[p].after.unregister

Closing(u) ==
  /\ (user[u].status = "suspended" \/ user[u].deleted) /\ u \in session => \E p \in Procs : Revoking(p, u)
  /\ user[u].deleted /\ u \in device => \E p \in Procs : Unregistering(p, u)

AccountIInv ==
  /\ AccountsTypeOK
  /\ call \in [Procs -> UserCall \cup {NoCall}]
  /\ \A u \in Persona : RowOK(user[u])
  /\ \A p \in Procs : HandlerOK(p)
  /\ \A u \in Persona \ (overlapped \cup lingering) : Closing(u)

(* The records.                                                            *)
LEMMA UserRows ==
  /\ NewUser \in UserRow /\ NewUser.status = "active" /\ ~NewUser.deleted
  /\ NoUser \in UserRow /\ ~NoUser.deleted /\ NoUser.status = "none"
  /\ Founder \in UserRow /\ ~Founder.deleted /\ Founder.status = "active"
  BY DEF NewUser, NoUser, Founder, UserRow

LEMMA UserField ==
  ASSUME NEW r \in UserRow
  PROVE  /\ \A s \in {"active", "pending", "suspended", "deactivated"} :
              /\ [r EXCEPT !.status = s] \in UserRow
              /\ [r EXCEPT !.status = s].status = s /\ [r EXCEPT !.status = s].deleted = r.deleted
         /\ \A R \in SUBSET {"admin", "company_admin", "vendor"} :
              /\ [r EXCEPT !.roles = R] \in UserRow
              /\ [r EXCEPT !.roles = R].status = r.status /\ [r EXCEPT !.roles = R].deleted = r.deleted
         /\ \A V \in SUBSET {"email", "phone"} :
              /\ [r EXCEPT !.verified = V] \in UserRow
              /\ [r EXCEPT !.verified = V].status = r.status
              /\ [r EXCEPT !.verified = V].deleted = r.deleted
  BY DEF UserRow

LEMMA Afters ==
  /\ Nothing \in After /\ Nothing.session = "keep"
  /\ SignIn \in After /\ SignIn.session = "new"
  /\ Revoke \in After /\ Revoke.session = "none"
  /\ [Revoke EXCEPT !.unregister = TRUE] \in After
  /\ [Revoke EXCEPT !.unregister = TRUE].session = "none"
  /\ [Revoke EXCEPT !.unregister = TRUE].unregister
  BY DEF Nothing, SignIn, Revoke, After

LEMMA AfterField ==
  ASSUME NEW a \in After
  PROVE  /\ \A S \in SUBSET Codes :
              [a EXCEPT !.send = S] \in After /\ [a EXCEPT !.send = S].session = a.session
         /\ \A D \in SUBSET (Codes \cup {"invite"}) :
              [a EXCEPT !.drop = D] \in After /\ [a EXCEPT !.drop = D].session = a.session
  BY DEF After

LEMMA AccountInitIInv == RequestsInit /\ AccountsInit => AccountIInv
  <1> SUFFICES ASSUME RequestsInit, AccountsInit PROVE AccountIInv
    OBVIOUS
  <1>1. PICK first \in Persona : user = [u \in Persona |-> IF u = first THEN Founder ELSE NoUser]
    BY DEF AccountsInit
  <1>2. user \in [Persona -> UserRow]
    BY <1>1, UserRows
  <1>3. \A u \in Persona : ~user[u].deleted
    BY <1>1, UserRows
  <1>4. AccountsTypeOK
    BY <1>2 DEF AccountsInit, AccountsTypeOK
  <1>5. call \in [Procs -> UserCall \cup {NoCall}] /\ \A p \in Procs : call[p] = NoCall
    BY DEF RequestsInit
  <1>6. session = {} /\ device = {}
    BY DEF AccountsInit
  <1> QED  BY <1>3, <1>4, <1>5, <1>6 DEF AccountIInv, RowOK, HandlerOK, Closing

LEMMA UserSlot ==
  ASSUME AccountIInv, NEW p \in Procs, NEW x \in UserCall \cup {NoCall},
         call' = [call EXCEPT ![p] = x]
  PROVE  /\ call' \in [Procs -> UserCall \cup {NoCall}] /\ call'[p] = x
         /\ \A q \in Procs \ {p} : call'[q] = call[q]
  BY SlotWritten DEF AccountIInv

SavingRow == [pc : {"user"}, user : Persona, row : UserRow, read : UserRow, after : After]
RowSaved  == [pc : {"after", "session"}, user : Persona, row : UserRow, after : After]

(* What is read of a handler.                                              *)
LEMMA UserCalls ==
  ASSUME AccountIInv, NEW p \in Procs, call[p] # NoCall
  PROVE  /\ call[p] \in UserCall /\ call[p].user \in Persona /\ call[p].row \in UserRow
         /\ call[p].after \in After
         /\ call[p].pc = "user" => call[p] \in SavingRow
         /\ call[p].pc \in {"after", "session"} => call[p] \in RowSaved
  BY DEF AccountIInv, UserCall, SavingRow, RowSaved

(* A handler takes a slot: nothing else changes.                           *)
LEMMA BeginsIInv ==
  ASSUME AccountIInv, NEW p \in Procs, NEW x \in UserCall, call[p] = NoCall,
         call' = [call EXCEPT ![p] = x], UNCHANGED accountVars,
         RowOK(x.row), SignsInOK(x.row, x.after), x.pc = "user" => SavesOK(x.row, x.read, x.after)
  PROVE  AccountIInv'
  <1>1. /\ call' \in [Procs -> UserCall \cup {NoCall}] /\ call'[p] = x
        /\ \A q \in Procs \ {p} : call'[q] = call[q]
    BY UserSlot
  <1>2. AccountsTypeOK' /\ \A u \in Persona : RowOK(user[u])'
    BY DEF AccountIInv, AccountsTypeOK, accountVars
  <1>3. ASSUME NEW q \in Procs PROVE HandlerOK(q)'
    <2>1. CASE q = p
      BY <2>1, <1>1 DEF HandlerOK
    <2>2. CASE q # p
      BY <2>2, <1>1 DEF HandlerOK, AccountIInv
    <2> QED  BY <2>1, <2>2
  <1>4. ASSUME NEW u \in Persona \ (overlapped \cup lingering) PROVE Closing(u)'
    <2>1. Closing(u)
      BY DEF AccountIInv
    <2>2. user' = user /\ session' = session /\ device' = device
      BY DEF accountVars
    <2>3. \A q \in Procs : /\ Revoking(q, u) => Revoking(q, u)'
                           /\ Unregistering(q, u) => Unregistering(q, u)'
      BY <1>1 DEF Revoking, Unregistering
    <2> QED  BY <2>1, <2>2, <2>3 DEF Closing
  <1>5. overlapped' = overlapped /\ lingering' = lingering
    BY DEF accountVars
  <1> QED  BY <1>1, <1>2, <1>3, <1>4, <1>5 DEF AccountIInv

(* A handler that will save a row.                                         *)
LEMMA ChangeUserIInv ==
  ASSUME AccountIInv, NEW p \in Procs, NEW u \in Persona, NEW row \in UserRow, NEW after \in After,
         ChangeUser(p, u, row, after),
         RowOK(row), SignsInOK(row, after), SavesOK(row, user[u], after)
  PROVE  AccountIInv'
  <1> DEFINE x == [pc |-> "user", user |-> u, row |-> row, read |-> user[u], after |-> after]
  <1>1. user[u] \in UserRow
    BY DEF AccountIInv, AccountsTypeOK
  <1>2. x \in UserCall /\ x.row = row /\ x.read = user[u] /\ x.after = after
    BY <1>1 DEF UserCall
  <1>3. call[p] = NoCall /\ call' = [call EXCEPT ![p] = x] /\ UNCHANGED accountVars
    BY DEF ChangeUser, Begin
  <1> HIDE DEF x
  <1> QED  BY <1>2, <1>3, BeginsIInv

(* A handler that saves none.                                              *)
LEMMA SessionOnlyIInv ==
  ASSUME AccountIInv, NEW p \in Procs, NEW u \in Persona, NEW after \in After,
         Begin(p, [pc |-> "session", user |-> u, row |-> user[u], after |-> after]),
         UNCHANGED accountVars, SignsInOK(user[u], after)
  PROVE  AccountIInv'
  <1> DEFINE x == [pc |-> "session", user |-> u, row |-> user[u], after |-> after]
  <1>1. user[u] \in UserRow /\ RowOK(user[u])
    BY DEF AccountIInv, AccountsTypeOK
  <1>2. x \in UserCall /\ x.row = user[u] /\ x.after = after /\ x.pc = "session"
    BY <1>1 DEF UserCall
  <1>3. call[p] = NoCall /\ call' = [call EXCEPT ![p] = x]
    BY DEF Begin
  <1> HIDE DEF x
  <1> QED  BY <1>1, <1>2, <1>3, BeginsIInv

(* A step of one piece on account u: its row is closed no further, and what *)
(* it gains an account that is not closed may have.                        *)
LEMMA AccountStep ==
  ASSUME AccountIInv, NEW u \in Persona, AccountsTypeOK', call' = call,
         overlapped' = overlapped, lingering' = lingering,
         \A v \in Persona \ {u} : user'[v] = user[v],
         session' \subseteq session \cup {u}, device' \subseteq device \cup {u},
         RowOK(user'[u]),
         user'[u].status = "suspended" => user[u].status = "suspended",
         user'[u].deleted => user[u].deleted,
         u \in session' \ session => user'[u].status # "suspended" /\ ~user'[u].deleted,
         u \in device' \ device => ~user'[u].deleted
  PROVE  AccountIInv'
  <1>1. \A v \in Persona : RowOK(user[v])'
    <2>1. ASSUME NEW v \in Persona PROVE RowOK(user'[v])
      BY DEF AccountIInv
    <2> QED  BY <2>1 DEF RowOK
  <1>2. ASSUME NEW v \in Persona \ (overlapped \cup lingering) PROVE Closing(v)'
    <2>1. Closing(v)
      BY DEF AccountIInv
    <2>2. \A q \in Procs : /\ Revoking(q, v)' <=> Revoking(q, v)
                           /\ Unregistering(q, v)' <=> Unregistering(q, v)
      BY DEF Revoking, Unregistering
    <2>3. CASE v = u
      BY <2>1, <2>2, <2>3 DEF Closing
    <2>4. CASE v # u
      BY <2>1, <2>2, <2>4 DEF Closing
    <2> QED  BY <2>3, <2>4
  <1>3. \A q \in Procs : HandlerOK(q)'
    BY DEF AccountIInv, HandlerOK
  <1>4. call' \in [Procs -> UserCall \cup {NoCall}]
    BY DEF AccountIInv
  <1> QED  BY <1>1, <1>2, <1>3, <1>4 DEF AccountIInv

(* A new row, active or pending.                                           *)
LEMMA NewAccountIInv ==
  ASSUME AccountIInv, NEW u \in Persona, NEW r \in UserRow,
         user' = [user EXCEPT ![u] = r], r.status \in {"active", "pending"}, ~r.deleted,
         UNCHANGED <<call, overlapped, lingering, device>>, session' \subseteq session \cup {u},
         invited' \subseteq Persona, tied' = tied, cooling' = cooling,
         codes' \in [Persona -> SUBSET Codes]
  PROVE  AccountIInv'
  <1>1. user' \in [Persona -> UserRow] /\ user'[u] = r /\ \A v \in Persona \ {u} : user'[v] = user[v]
    BY DEF AccountIInv, AccountsTypeOK
  <1>2. AccountsTypeOK'
    BY <1>1 DEF AccountIInv, AccountsTypeOK
  <1>3. RowOK(user'[u])
    BY <1>1 DEF RowOK
  <1> QED  BY <1>1, <1>2, <1>3, AccountStep

(* A new account whose handler goes on to send codes and sign in.          *)
LEMMA RegisterIInv ==
  ASSUME AccountIInv, NEW p \in Procs, NEW u \in Persona, NEW rs \in {{}, {"vendor"}}, Register(p, u, rs)
  PROVE  AccountIInv'
  <1> DEFINE r == [NewUser EXCEPT !.roles = rs]
             a == [SignIn EXCEPT !.send = {"email", "phone"}]
             x == [pc |-> "after", user |-> u, row |-> r, after |-> a]
  <1>1. r \in UserRow /\ r.status = "active" /\ ~r.deleted
    BY DEF NewUser, UserRow
  <1>2. a \in After
    BY Afters, AfterField DEF Codes
  <1>3. /\ user' = [user EXCEPT ![u] = r] /\ call[p] = NoCall /\ call' = [call EXCEPT ![p] = x]
        /\ UNCHANGED <<session, codes, cooling, invited, tied, device, overlapped, lingering>>
    BY DEF Register, Begin
  <1> HIDE DEF r, a
  <1>4. x \in UserCall /\ x.row = r /\ x.after = a /\ x.pc = "after"
    BY <1>1, <1>2 DEF UserCall
  <1> HIDE DEF x
  <1>5. /\ call' \in [Procs -> UserCall \cup {NoCall}] /\ call'[p] = x
        /\ \A q \in Procs \ {p} : call'[q] = call[q]
    BY <1>3, <1>4, UserSlot
  <1>6. user' \in [Persona -> UserRow] /\ user'[u] = r /\ \A v \in Persona \ {u} : user'[v] = user[v]
    BY <1>1, <1>3 DEF AccountIInv, AccountsTypeOK
  <1>7. AccountsTypeOK'
    BY <1>3, <1>6 DEF AccountIInv, AccountsTypeOK
  <1>8. \A v \in Persona : RowOK(user[v])'
    <2>1. ASSUME NEW v \in Persona PROVE RowOK(user'[v])
      BY <1>1, <1>6 DEF AccountIInv, RowOK
    <2> QED  BY <2>1 DEF RowOK
  <1>9. ASSUME NEW q \in Procs PROVE HandlerOK(q)'
    <2>1. CASE q = p
      BY <2>1, <1>1, <1>4, <1>5 DEF HandlerOK, RowOK, SignsInOK
    <2>2. CASE q # p
      BY <2>2, <1>5 DEF HandlerOK, AccountIInv
    <2> QED  BY <2>1, <2>2
  <1>10. ASSUME NEW v \in Persona \ (overlapped \cup lingering) PROVE Closing(v)'
    <2>1. Closing(v)
      BY DEF AccountIInv
    <2>2. \A q \in Procs : /\ Revoking(q, v) => Revoking(q, v)'
                           /\ Unregistering(q, v) => Unregistering(q, v)'
      BY <1>3, <1>5 DEF Revoking, Unregistering
    <2>3. CASE v = u
      BY <2>3, <1>1, <1>6 DEF Closing
    <2>4. CASE v # u
      BY <2>1, <2>2, <2>4, <1>3, <1>6 DEF Closing
    <2> QED  BY <2>3, <2>4
  <1> QED  BY <1>3, <1>5, <1>7, <1>8, <1>9, <1>10 DEF AccountIInv

LEMMA RegisterCompanyContactIInv ==
  ASSUME AccountIInv, NEW u \in Persona, RegisterCompanyContact(u)
  PROVE  AccountIInv'
  <1> DEFINE r == [NewUser EXCEPT !.status = "pending"]
  <1>1. r \in UserRow /\ r.status = "pending" /\ ~r.deleted
    BY UserRows, UserField
  <1>2. /\ user' = [user EXCEPT ![u] = r]
        /\ codes' = [codes EXCEPT ![u] = {"email", "phone"}] /\ call' = call
        /\ UNCHANGED <<session, cooling, invited, tied, device, overlapped, lingering>>
    BY DEF RegisterCompanyContact, OneStep
  <1> HIDE DEF r
  <1>3. codes' \in [Persona -> SUBSET Codes] /\ invited' \subseteq Persona
    BY <1>2 DEF AccountIInv, AccountsTypeOK, Codes
  <1> QED  BY <1>1, <1>2, <1>3, NewAccountIInv

LEMMA InviteStaffIInv ==
  ASSUME AccountIInv, NEW u \in Persona, NEW rs \in {{}, {"admin"}}, InviteStaff(u, rs)
  PROVE  AccountIInv'
  <1> DEFINE r == [NewUser EXCEPT !.status = "pending", !.roles = rs]
  <1>1. r \in UserRow /\ r.status = "pending" /\ ~r.deleted
    BY DEF NewUser, UserRow
  <1>2. /\ user' = [user EXCEPT ![u] = r] /\ invited' = invited \cup {u} /\ call' = call
        /\ UNCHANGED <<session, codes, cooling, tied, device, overlapped, lingering>>
    BY DEF InviteStaff, OneStep
  <1> HIDE DEF r
  <1>3. codes' \in [Persona -> SUBSET Codes] /\ invited' \subseteq Persona
    BY <1>2 DEF AccountIInv, AccountsTypeOK
  <1> QED  BY <1>1, <1>2, <1>3, NewAccountIInv

(* The steps of one piece that save no row.                                *)
LEMMA NoRowIInv ==
  ASSUME AccountIInv, NEW u \in Persona,
         \/ Logout(u) \/ Expire(u) \/ \E purpose \in Purposes : SendCode(u, purpose)
         \/ \E b \in BOOLEAN : FcmToken(u, b) \/ Ties(u, b)
  PROVE  AccountIInv'
  <1>1. /\ call' = call /\ user' = user /\ overlapped' = overlapped /\ lingering' = lingering
        /\ session' \subseteq session /\ device' \subseteq device \cup {u}
        /\ device' \subseteq device \/ user[u].status = "active"
    BY DEF Logout, Expire, SendCode, FcmToken, Ties, OneStep
  <1>2. codes' \in [Persona -> SUBSET Codes]
    BY DEF Logout, Expire, SendCode, FcmToken, Ties, AccountIInv, AccountsTypeOK, Codes, Unverified
  <1>3. cooling' \in [Persona -> SUBSET Purposes]
    BY DEF Logout, Expire, SendCode, FcmToken, Ties, AccountIInv, AccountsTypeOK
  <1>4. tied' \subseteq Persona /\ invited' \subseteq Persona
    BY DEF Logout, Expire, SendCode, FcmToken, Ties, AccountIInv, AccountsTypeOK
  <1>5. AccountsTypeOK'
    BY <1>1, <1>2, <1>3, <1>4 DEF AccountIInv, AccountsTypeOK
  <1>6. RowOK(user[u]) /\ (user[u].status = "active" => ~user[u].deleted)
    BY DEF AccountIInv, RowOK
  <1> QED  BY <1>1, <1>5, <1>6, AccountStep

(* Sign-in and refresh.                                                    *)
LEMMA LoginIInv ==
  ASSUME AccountIInv, NEW p \in Procs, NEW u \in Persona,
         Login(p, u) \/ \E b \in BOOLEAN : Refresh(p, u, b)
  PROVE  AccountIInv'
  <1>1. user[u].status = "active" => ~user[u].deleted
    BY DEF AccountIInv, RowOK
  <1>2. CASE Login(p, u)
    <2>1. SignsInOK(user[u], SignIn)
      BY <1>2 DEF Login, Found, SignsInOK
    <2> QED  BY <1>2, <2>1, Afters, SessionOnlyIInv DEF Login
  <1>3. ASSUME NEW b \in BOOLEAN, Refresh(p, u, b)
        PROVE  AccountIInv'
    <2>1. CASE b /\ u \in session
      <3>1. SignsInOK(user[u], SignIn)
        BY <1>1, <1>3, <2>1 DEF Refresh, SignsInOK
      <3> QED  BY <1>3, <2>1, <3>1, Afters, SessionOnlyIInv DEF Refresh
    <2>2. CASE ~(b /\ u \in session)
      <3>1. SignsInOK(user[u], Revoke)
        BY Afters DEF SignsInOK
      <3> QED  BY <1>3, <2>2, <3>1, Afters, SessionOnlyIInv DEF Refresh
    <2> QED  BY <2>1, <2>2
  <1> QED  BY <1>2, <1>3

(* The handlers that save a row.                                           *)
LEMMA ActivateIInv ==
  ASSUME AccountIInv, NEW p \in Procs, NEW u \in Persona, Activate(p, u) PROVE AccountIInv'
  <1> DEFINE row == [user[u] EXCEPT !.status = "active"]
             after == [SignIn EXCEPT !.send = Unverified(user[u])]
  <1>1. user[u] \in UserRow /\ ~user[u].deleted /\ ChangeUser(p, u, row, after)
    BY DEF Activate, Found, AccountIInv, AccountsTypeOK
  <1>2. row \in UserRow /\ row.status = "active" /\ row.deleted = user[u].deleted
    BY <1>1, UserField
  <1>3. Unverified(user[u]) \in SUBSET Codes
    BY DEF Unverified, Codes
  <1>4. after \in After
    BY <1>3, Afters, AfterField
  <1> HIDE DEF row, after
  <1>5. RowOK(row) /\ SignsInOK(row, after) /\ SavesOK(row, user[u], after)
    BY <1>1, <1>2 DEF RowOK, SignsInOK, SavesOK
  <1> QED  BY <1>1, <1>2, <1>4, <1>5, ChangeUserIInv

LEMMA SetPasswordIInv ==
  ASSUME AccountIInv, NEW p \in Procs, NEW u \in Persona, SetPassword(p, u) PROVE AccountIInv'
  <1> DEFINE row == [user[u] EXCEPT !.status = "active", !.verified = @ \cup {"email"}]
             after == [SignIn EXCEPT !.drop = {"invite"}]
  <1>1. user[u] \in UserRow /\ RowOK(user[u]) /\ user[u].status = "pending" /\ ChangeUser(p, u, row, after)
    BY DEF SetPassword, AccountIInv, AccountsTypeOK
  <1>2. row \in UserRow /\ row.status = "active" /\ row.deleted = user[u].deleted
    BY <1>1 DEF UserRow
  <1>3. {"invite"} \in SUBSET (Codes \cup {"invite"})
    OBVIOUS
  <1>4. after \in After
    BY <1>3, Afters, AfterField
  <1> HIDE DEF row, after
  <1>5. RowOK(row) /\ SignsInOK(row, after) /\ SavesOK(row, user[u], after)
    BY <1>1, <1>2 DEF RowOK, SignsInOK, SavesOK
  <1> QED  BY <1>1, <1>2, <1>4, <1>5, ChangeUserIInv

LEMMA VerifyOtpIInv ==
  ASSUME AccountIInv, NEW p \in Procs, NEW u \in Persona, NEW channel \in {"email", "phone"},
         VerifyOtp(p, u, channel)
  PROVE  AccountIInv'
  <1> DEFINE row == [user[u] EXCEPT !.verified = @ \cup {channel}]
             after == [Nothing EXCEPT !.drop = {channel}]
  <1>1. user[u] \in UserRow /\ ~user[u].deleted /\ ChangeUser(p, u, row, after)
    BY DEF VerifyOtp, Found, AccountIInv, AccountsTypeOK
  <1>2. row \in UserRow /\ row.status = user[u].status /\ row.deleted = user[u].deleted
    BY <1>1 DEF UserRow
  <1>3. {channel} \in SUBSET (Codes \cup {"invite"})
    BY DEF Codes
  <1>4. after \in After /\ after.session = "keep"
    BY <1>3, Afters, AfterField
  <1> HIDE DEF row, after
  <1>5. RowOK(row) /\ SignsInOK(row, after) /\ SavesOK(row, user[u], after)
    BY <1>1, <1>2, <1>4 DEF RowOK, SignsInOK, SavesOK
  <1> QED  BY <1>1, <1>2, <1>4, <1>5, ChangeUserIInv

LEMMA ResetPasswordIInv ==
  ASSUME AccountIInv, NEW p \in Procs, NEW u \in Persona, ResetPassword(p, u) PROVE AccountIInv'
  <1> DEFINE after == [Revoke EXCEPT !.drop = {"reset"}]
  <1>1. user[u] \in UserRow /\ RowOK(user[u]) /\ ChangeUser(p, u, user[u], after)
    BY DEF ResetPassword, AccountIInv, AccountsTypeOK
  <1>2. {"reset"} \in SUBSET (Codes \cup {"invite"})
    BY DEF Codes
  <1>3. after \in After /\ after.session = "none"
    BY <1>2, Afters, AfterField
  <1> HIDE DEF after
  <1>4. SignsInOK(user[u], after) /\ SavesOK(user[u], user[u], after)
    BY <1>3 DEF SignsInOK, SavesOK
  <1> QED  BY <1>1, <1>3, <1>4, ChangeUserIInv

LEMMA UpdateProfileIInv ==
  ASSUME AccountIInv, NEW p \in Procs, NEW u \in Persona, UpdateProfile(p, u) PROVE AccountIInv'
  <1>1. user[u] \in UserRow /\ RowOK(user[u]) /\ ChangeUser(p, u, user[u], Nothing)
    BY DEF UpdateProfile, AccountIInv, AccountsTypeOK
  <1>2. SignsInOK(user[u], Nothing) /\ SavesOK(user[u], user[u], Nothing)
    BY Afters DEF SignsInOK, SavesOK
  <1> QED  BY <1>1, <1>2, Afters, ChangeUserIInv

LEMMA DeleteAccountIInv ==
  ASSUME AccountIInv, NEW p \in Procs, NEW u \in Persona, NEW self \in BOOLEAN, DeleteAccount(p, u, self)
  PROVE  AccountIInv'
  <1> DEFINE row == [user[u] EXCEPT !.status = "deactivated", !.verified = {}, !.deleted = TRUE]
             after == [Revoke EXCEPT !.unregister = TRUE]
  <1>1. user[u] \in UserRow /\ ChangeUser(p, u, row, after)
    BY DEF DeleteAccount, AccountIInv, AccountsTypeOK
  <1>2. row \in UserRow /\ row.status = "deactivated"
    BY <1>1 DEF UserRow
  <1>3. after \in After /\ after.session = "none" /\ after.unregister
    BY Afters
  <1> HIDE DEF row, after
  <1>4. RowOK(row) /\ SignsInOK(row, after) /\ SavesOK(row, user[u], after)
    BY <1>2, <1>3 DEF RowOK, SignsInOK, SavesOK
  <1> QED  BY <1>1, <1>2, <1>3, <1>4, ChangeUserIInv

LEMMA SetUserStatusIInv ==
  ASSUME AccountIInv, NEW p \in Procs, NEW u \in Persona, NEW status \in {"active", "suspended"},
         SetUserStatus(p, u, status)
  PROVE  AccountIInv'
  <1> DEFINE row == [user[u] EXCEPT !.status = status]
             after == IF status = "suspended" THEN Revoke ELSE Nothing
  <1>1. user[u] \in UserRow /\ ~user[u].deleted /\ ChangeUser(p, u, row, after)
    BY DEF SetUserStatus, AccountIInv, AccountsTypeOK
  <1>2. row \in UserRow /\ row.status = status /\ row.deleted = user[u].deleted
    BY <1>1 DEF UserRow
  <1>3. after \in After /\ after.session # "new" /\ (status = "suspended" => after.session = "none")
    BY Afters
  <1> HIDE DEF row, after
  <1>4. RowOK(row) /\ SignsInOK(row, after) /\ SavesOK(row, user[u], after)
    BY <1>1, <1>2, <1>3 DEF RowOK, SignsInOK, SavesOK
  <1> QED  BY <1>1, <1>2, <1>3, <1>4, ChangeUserIInv

(* The handlers that change the roles of a row, or deactivate it, and do   *)
(* nothing after.                                                          *)
LEMMA StaffIInv ==
  ASSUME AccountIInv, NEW p \in Procs, NEW u \in Persona,
         \/ MakeCompanyAdmin(p, u)
         \/ \E caller \in Persona : UpdateStaffRole(p, u, caller) \/ DeactivateStaff(p, u, caller)
  PROVE  AccountIInv'
  <1> DEFINE more == [user[u] EXCEPT !.roles = @ \cup {"company_admin"}]
             less == [user[u] EXCEPT !.roles = @ \ {"admin"}]
             out  == [user[u] EXCEPT !.status = "deactivated"]
  <1>1. user[u] \in UserRow /\ RowOK(user[u])
    BY DEF AccountIInv, AccountsTypeOK
  <1>2. \/ ChangeUser(p, u, more, Nothing) \/ ChangeUser(p, u, less, Nothing)
        \/ ChangeUser(p, u, out, Nothing)
    BY DEF MakeCompanyAdmin, UpdateStaffRole, DeactivateStaff
  <1>3. more \in UserRow /\ more.status = user[u].status /\ more.deleted = user[u].deleted
    BY <1>1 DEF UserRow
  <1>4. less \in UserRow /\ less.status = user[u].status /\ less.deleted = user[u].deleted
    BY <1>1 DEF UserRow
  <1>5. out \in UserRow /\ out.status = "deactivated" /\ out.deleted = user[u].deleted
    BY <1>1 DEF UserRow
  <1> HIDE DEF more, less, out
  <1>6. ASSUME NEW row \in UserRow, ChangeUser(p, u, row, Nothing), row.deleted = user[u].deleted,
               row.status \in {user[u].status, "deactivated"}
        PROVE  AccountIInv'
    <2>1. RowOK(row) /\ SignsInOK(row, Nothing) /\ SavesOK(row, user[u], Nothing)
      BY <1>1, <1>6, Afters DEF RowOK, SignsInOK, SavesOK
    <2> QED  BY <1>6, <2>1, Afters, ChangeUserIInv
  <1> QED  BY <1>2, <1>3, <1>4, <1>5, <1>6

(* The row is saved: what an account that it closes still has, this very   *)
(* handler takes away, or the one that had closed it before.               *)
LEMMA SaveUserIInv == ASSUME AccountIInv, NEW p \in Procs, SaveUser(p) PROVE AccountIInv'
  <1>1. call[p] # NoCall /\ call[p].pc = "user" /\ call[p] \in UserCall /\ HandlerOK(p)
    BY DEF SaveUser, At, AccountIInv
  <1>2. PICK c \in SavingRow : c = call[p]
    BY <1>1, UserCalls
  <1> DEFINE u == c.user
             x == [pc |-> "after", user |-> u, row |-> c.row, after |-> c.after]
  <1>3. u \in Persona /\ c.row \in UserRow /\ c.read \in UserRow /\ c.after \in After /\ c.pc = "user"
    BY <1>1, <1>2 DEF SavingRow
  <1>4. /\ x \in UserCall /\ x.pc = "after" /\ x.user = u /\ x.row = c.row /\ x.after = c.after
        /\ x # NoCall
    BY <1>3, AccountConstantsOK DEF UserCall
  <1>5. /\ call' = [call EXCEPT ![p] = x] /\ user' = [user EXCEPT ![u] = c.row]
        /\ overlapped' = (IF user[u] = c.read THEN overlapped ELSE overlapped \cup {u})
        /\ session' = session /\ device' = device /\ lingering' = lingering
        /\ UNCHANGED <<codes, cooling, invited, tied>>
    BY <1>2 DEF SaveUser, GotoState
  <1> HIDE DEF x
  <1>6. /\ call' \in [Procs -> UserCall \cup {NoCall}] /\ call'[p] = x
        /\ \A q \in Procs \ {p} : call'[q] = call[q]
    BY <1>4, <1>5, UserSlot
  <1>7. /\ user' \in [Persona -> UserRow] /\ user'[u] = c.row
        /\ \A v \in Persona \ {u} : user'[v] = user[v]
    BY <1>3, <1>5 DEF AccountIInv, AccountsTypeOK
  <1>8. RowOK(c.row) /\ SignsInOK(c.row, c.after) /\ SavesOK(c.row, c.read, c.after)
    BY <1>1, <1>2 DEF HandlerOK
  <1>9. AccountsTypeOK'
    BY <1>3, <1>5, <1>7 DEF AccountIInv, AccountsTypeOK
  <1>10. ASSUME NEW v \in Persona PROVE RowOK(user[v])'
    <2>1. RowOK(user'[v])
      BY <1>7, <1>8 DEF AccountIInv
    <2> QED  BY <2>1 DEF RowOK
  <1>11. ASSUME NEW q \in Procs PROVE HandlerOK(q)'
    <2>1. CASE q = p
      BY <2>1, <1>4, <1>6, <1>8 DEF HandlerOK
    <2>2. CASE q # p
      BY <2>2, <1>6 DEF HandlerOK, AccountIInv
    <2> QED  BY <2>1, <2>2
  <1>12. \A q \in Procs, v \in Persona :
           /\ Revoking(q, v) => Revoking(q, v)'
           /\ Unregistering(q, v) => Unregistering(q, v)'
    BY <1>1, <1>6 DEF Revoking, Unregistering
  <1>13. ASSUME NEW v \in Persona \ (overlapped' \cup lingering') PROVE Closing(v)'
    <2>1. v \notin overlapped \cup lingering /\ Closing(v)
      BY <1>5 DEF AccountIInv
    <2>2. CASE v # u
      BY <2>1, <2>2, <1>5, <1>7, <1>12 DEF Closing
    <2>3. CASE v = u
      <3>1. user[u] = c.read
        BY <2>3, <1>5
      <3>2. /\ c.after.session = "none" => Revoking(p, u)'
            /\ c.after.unregister => Unregistering(p, u)'
        BY <1>4, <1>6 DEF Revoking, Unregistering
      <3>3. ASSUME c.row.status = "suspended" \/ c.row.deleted, u \in session
            PROVE  \E q \in Procs : Revoking(q, u)'
        <4>1. CASE c.after.session = "none"
          BY <4>1, <3>2
        <4>2. CASE c.after.session # "none"
          <5>1. user[u].status = "suspended" \/ user[u].deleted
            BY <3>1, <3>3, <4>2, <1>8 DEF SavesOK
          <5> QED  BY <5>1, <2>1, <2>3, <3>3, <1>12 DEF Closing
        <4> QED  BY <4>1, <4>2
      <3>4. ASSUME c.row.deleted, u \in device
            PROVE  \E q \in Procs : Unregistering(q, u)'
        <4>1. CASE c.after.unregister
          BY <4>1, <3>2
        <4>2. CASE ~c.after.unregister
          <5>1. user[u].deleted
            BY <3>1, <3>4, <4>2, <1>8 DEF SavesOK
          <5> QED  BY <5>1, <2>1, <2>3, <3>4, <1>12 DEF Closing
        <4> QED  BY <4>1, <4>2
      <3> HIDE DEF u
      <3> QED  BY <2>3, <3>3, <3>4, <1>5, <1>7 DEF Closing
    <2> QED  BY <2>2, <2>3
  <1> QED  BY <1>6, <1>9, <1>10, <1>11, <1>13 DEF AccountIInv

(* What comes after, until the handler is at x: devices go, and whoever    *)
(* was to lose his session still is.                                       *)
LEMMA AfterSaveGoes ==
  ASSUME AccountIInv, NEW p \in Procs, NEW x \in UserCall \cup {NoCall}, AfterSave(p),
         NEW u \in Persona, NEW after \in After, u = call[p].user, after = call[p].after,
         call' = [call EXCEPT ![p] = x], x # NoCall => x.pc = "session" /\ RowOK(x.row) /\ SignsInOK(x.row, x.after),
         after.session = "none" => x # NoCall /\ x.user = u /\ x.after.session = "none"
  PROVE  AccountIInv'
  <1>1. /\ user' = user /\ session' = session /\ lingering' = lingering
        /\ device' = (IF after.unregister THEN device \ {u} ELSE device)
        /\ codes' = [codes EXCEPT ![u] = (@ \ after.drop) \cup after.send]
        /\ invited' = (IF "invite" \in after.drop THEN invited \ {u} ELSE invited)
        /\ overlapped' \in {overlapped, overlapped \cup {u}}
        /\ UNCHANGED <<cooling, tied>>
    BY DEF AfterSave, Crossed
  <1>2. /\ call' \in [Procs -> UserCall \cup {NoCall}] /\ call'[p] = x
        /\ \A q \in Procs \ {p} : call'[q] = call[q]
    BY UserSlot
  <1>3. codes' \in [Persona -> SUBSET Codes]
    <2>1. after.send \subseteq Codes
      BY DEF After
    <2> QED  BY <1>1, <2>1 DEF AccountIInv, AccountsTypeOK
  <1>4. AccountsTypeOK'
    BY <1>1, <1>3 DEF AccountIInv, AccountsTypeOK
  <1>5. \A v \in Persona : RowOK(user[v])'
    BY <1>1 DEF AccountIInv, RowOK
  <1>6. ASSUME NEW q \in Procs PROVE HandlerOK(q)'
    <2>1. CASE q = p
      BY <2>1, <1>2 DEF HandlerOK
    <2>2. CASE q # p
      BY <2>2, <1>2 DEF HandlerOK, AccountIInv
    <2> QED  BY <2>1, <2>2
  <1>7. \A q \in Procs, v \in Persona : Revoking(q, v) => Revoking(q, v)'
    BY <1>2 DEF Revoking
  <1>8. \A q \in Procs \ {p}, v \in Persona : Unregistering(q, v) => Unregistering(q, v)'
    BY <1>2 DEF Unregistering
  <1>9. \A v \in Persona : Unregistering(p, v) => v = u /\ after.unregister
    BY DEF Unregistering
  <1>10. ASSUME NEW v \in Persona \ (overlapped' \cup lingering') PROVE Closing(v)'
    <2>1. Closing(v)
      BY <1>1 DEF AccountIInv
    <2>2. ASSUME user[v].deleted, v \in device'
          PROVE  \E q \in Procs : Unregistering(q, v)'
      <3>1. v \in device /\ (v = u => ~after.unregister)
        BY <2>2, <1>1
      <3>2. PICK q \in Procs : Unregistering(q, v)
        BY <3>1, <2>1, <2>2 DEF Closing
      <3> QED  BY <3>1, <3>2, <1>8, <1>9
    <2> QED  BY <2>1, <2>2, <1>1, <1>7 DEF Closing
  <1> QED  BY <1>2, <1>4, <1>5, <1>6, <1>10 DEF AccountIInv

LEMMA AfterSaveIInv == ASSUME AccountIInv, NEW p \in Procs, AfterSave(p) PROVE AccountIInv'
  <1>1. call[p] # NoCall /\ call[p].pc = "after" /\ HandlerOK(p)
    BY DEF AfterSave, At, AccountIInv
  <1>2. PICK c \in RowSaved : c = call[p]
    BY <1>1, UserCalls
  <1>3. c.user \in Persona /\ c.row \in UserRow /\ c.after \in After
    BY DEF RowSaved
  <1>4. RowOK(c.row) /\ SignsInOK(c.row, c.after)
    BY <1>1, <1>2 DEF HandlerOK
  <1>5. \/ c.after.session = "keep" /\ call' = [call EXCEPT ![p] = NoCall]
        \/ c.after.session = "new" /\ call' = [call EXCEPT ![p] = [c EXCEPT !.pc = "session", !.after = SignIn]]
        \/ c.after.session = "none" /\ call' = [call EXCEPT ![p] = [c EXCEPT !.pc = "session", !.after = Revoke]]
    BY <1>2 DEF AfterSave, End, GotoState
  <1>6. CASE c.after.session = "keep"
    BY <1>2, <1>3, <1>5, <1>6, AfterSaveGoes
  <1>7. CASE c.after.session = "new"
    <2> DEFINE x == [c EXCEPT !.pc = "session", !.after = SignIn]
    <2>1. x \in UserCall /\ x.pc = "session" /\ x.user = c.user /\ x.row = c.row /\ x.after = SignIn
      BY Afters DEF UserCall, RowSaved
    <2>2. call' = [call EXCEPT ![p] = x]
      BY <1>5, <1>7
    <2> HIDE DEF x
    <2>3. SignsInOK(x.row, x.after)
      BY <2>1, <1>4, <1>7, Afters DEF SignsInOK
    <2> QED  BY <2>1, <2>2, <2>3, <1>2, <1>3, <1>4, <1>7, AfterSaveGoes
  <1>8. CASE c.after.session = "none"
    <2> DEFINE x == [c EXCEPT !.pc = "session", !.after = Revoke]
    <2>1. x \in UserCall /\ x.pc = "session" /\ x.user = c.user /\ x.row = c.row /\ x.after = Revoke
      BY Afters DEF UserCall, RowSaved
    <2>2. call' = [call EXCEPT ![p] = x] /\ x # NoCall
      BY <1>5, <1>8, <2>1, AccountConstantsOK
    <2> HIDE DEF x
    <2>3. SignsInOK(x.row, x.after)
      BY <2>1, Afters DEF SignsInOK
    <2> QED  BY <2>1, <2>2, <2>3, <1>2, <1>3, <1>4, <1>8, Afters, AfterSaveGoes
  <1> QED  BY <1>5, <1>6, <1>7, <1>8

(* A handler ends: only one whose row is not closed has given a session,   *)
(* unless the row has changed meanwhile, and one that was to take what is   *)
(* left either did or leaves the account lingering.                        *)
LEMMA EndsIInv ==
  ASSUME AccountIInv, NEW p \in Procs, NEW u \in Persona, NEW after \in After,
         call[p] # NoCall, u = call[p].user, after = call[p].after,
         call' = [call EXCEPT ![p] = NoCall],
         UNCHANGED <<user, codes, cooling, invited, tied, device>>,
         session' \in {session, session \cup {u}, session \ {u}},
         overlapped' \in {overlapped, overlapped \cup {u}},
         lingering' \in {lingering, lingering \cup {u}},
         u \in session' \ session /\ u \notin overlapped' => user[u].status # "suspended" /\ ~user[u].deleted,
         \A v \in Persona : Revoking(p, v) => v \notin session' \/ v \in lingering',
         \A v \in Persona : Unregistering(p, v) => v \in lingering'
  PROVE  AccountIInv'
  <1>1. /\ call' \in [Procs -> UserCall \cup {NoCall}] /\ call'[p] = NoCall
        /\ \A q \in Procs \ {p} : call'[q] = call[q]
    BY UserSlot
  <1>2. AccountsTypeOK' /\ \A v \in Persona : RowOK(user[v])'
    BY DEF AccountIInv, AccountsTypeOK, RowOK
  <1>3. \A q \in Procs : HandlerOK(q)'
    BY <1>1 DEF HandlerOK, AccountIInv
  <1>4. \A q \in Procs \ {p}, v \in Persona :
           /\ Revoking(q, v) => Revoking(q, v)'
           /\ Unregistering(q, v) => Unregistering(q, v)'
    BY <1>1 DEF Revoking, Unregistering
  <1>5. ASSUME NEW v \in Persona \ (overlapped' \cup lingering') PROVE Closing(v)'
    <2>1. Closing(v) /\ v \notin lingering'
      BY DEF AccountIInv
    <2>2. ASSUME user[v].status = "suspended" \/ user[v].deleted, v \in session'
          PROVE  \E q \in Procs : Revoking(q, v)'
      <3>1. v \in session
        BY <2>2
      <3>2. PICK q \in Procs : Revoking(q, v)
        BY <3>1, <2>1, <2>2 DEF Closing
      <3>3. q # p
        BY <3>2, <2>1, <2>2
      <3> QED  BY <3>2, <3>3, <1>4
    <2>3. ASSUME user[v].deleted, v \in device
          PROVE  \E q \in Procs : Unregistering(q, v)'
      <3>1. PICK q \in Procs : Unregistering(q, v)
        BY <2>1, <2>3 DEF Closing
      <3>2. q # p
        BY <3>1, <2>1
      <3> QED  BY <3>1, <3>2, <1>4
    <2> QED  BY <2>2, <2>3 DEF Closing
  <1> QED  BY <1>1, <1>2, <1>3, <1>5 DEF AccountIInv

LEMMA SetSessionIInv == ASSUME AccountIInv, NEW p \in Procs, SetSession(p) PROVE AccountIInv'
  <1>1. call[p] # NoCall /\ call[p].pc = "session" /\ HandlerOK(p)
    BY DEF SetSession, At, AccountIInv
  <1>2. PICK u \in Persona : u = call[p].user
    BY <1>1, UserCalls
  <1>3. PICK after \in After : after = call[p].after
    BY <1>1, UserCalls
  <1>4. /\ call' = [call EXCEPT ![p] = NoCall]
        /\ UNCHANGED <<user, codes, cooling, invited, tied, device>>
        /\ \/ after.session = "new" /\ session' = session \cup {u} /\ lingering' = lingering
           \/ after.session = "none" /\ session' = session \ {u} /\ lingering' = lingering
           \/ after.session = "none" /\ session' = session /\ lingering' = lingering \cup {u}
        /\ overlapped' = (IF user[u] = call[p].row THEN overlapped ELSE overlapped \cup {u})
    BY <1>2, <1>3 DEF SetSession, End, GotoState, Crossed
  <1>5. ASSUME u \in session' \ session, u \notin overlapped'
        PROVE  user[u].status # "suspended" /\ ~user[u].deleted
    <2>1. after.session = "new" /\ user[u] = call[p].row
      BY <1>4, <1>5
    <2> QED  BY <2>1, <1>1, <1>3 DEF HandlerOK, SignsInOK
  <1>6. \A v \in Persona : Revoking(p, v) => v \notin session' \/ v \in lingering'
    BY <1>2, <1>3, <1>4 DEF Revoking
  <1>7. \A v \in Persona : ~Unregistering(p, v)
    BY <1>1 DEF Unregistering
  <1> QED  BY <1>1, <1>2, <1>3, <1>4, <1>5, <1>6, <1>7, EndsIInv

LEMMA HandlerDiesIInv == ASSUME AccountIInv, NEW p \in Procs, HandlerDies(p) PROVE AccountIInv'
  <1>1. call[p] # NoCall
    BY DEF HandlerDies, Dies
  <1>2. PICK u \in Persona : u = call[p].user
    BY <1>1, UserCalls
  <1>3. PICK after \in After : after = call[p].after
    BY <1>1, UserCalls
  <1>4. /\ call' = [call EXCEPT ![p] = NoCall]
        /\ UNCHANGED <<user, session, codes, cooling, invited, tied, device, overlapped>>
        /\ lingering' = lingering \cup {v \in {u} : call[p].pc # "user" /\ after.session = "none"}
    BY <1>2, <1>3 DEF HandlerDies, Dies
  <1>5. lingering' \in {lingering, lingering \cup {u}}
    <2>1. CASE call[p].pc # "user" /\ after.session = "none"
      <3>1. {v \in {u} : call[p].pc # "user" /\ after.session = "none"} = {u}
        BY <2>1
      <3> QED  BY <3>1, <1>4
    <2>2. CASE ~(call[p].pc # "user" /\ after.session = "none")
      <3>1. {v \in {u} : call[p].pc # "user" /\ after.session = "none"} = {}
        BY <2>2
      <3> QED  BY <3>1, <1>4
    <2> QED  BY <2>1, <2>2
  <1>6. \A v \in Persona : Revoking(p, v) => v \in lingering'
    BY <1>2, <1>3, <1>4 DEF Revoking
  <1>7. \A v \in Persona : Unregistering(p, v) => v \in lingering'
    BY <1>2, <1>3, <1>4 DEF Unregistering, After
  <1> QED  BY <1>1, <1>2, <1>3, <1>4, <1>5, <1>6, <1>7, EndsIInv

LEMMA AccountNextIInv == AccountIInv /\ [AccountsNext]_<<accountVars, requestVars>> => AccountIInv'
  <1> SUFFICES ASSUME AccountIInv, [AccountsNext]_<<accountVars, requestVars>> PROVE AccountIInv'
    OBVIOUS
  <1>1. ASSUME NEW u \in Persona,
               \/ \E rs \in {{}, {"admin"}} : InviteStaff(u, rs)
               \/ RegisterCompanyContact(u)
        PROVE  AccountIInv'
    BY <1>1, InviteStaffIInv, RegisterCompanyContactIInv
  <1>2. ASSUME NEW u \in Persona,
               \/ Logout(u) \/ Expire(u) \/ \E purpose \in Purposes : SendCode(u, purpose)
               \/ \E b \in BOOLEAN : FcmToken(u, b) \/ Ties(u, b)
        PROVE  AccountIInv'
    BY <1>2, NoRowIInv
  <1>3. ASSUME NEW p \in Procs, NEW u \in Persona,
               \/ \E rs \in {{}, {"vendor"}} : Register(p, u, rs)
               \/ Login(p, u) \/ \E b \in BOOLEAN : Refresh(p, u, b)
        PROVE  AccountIInv'
    BY <1>3, RegisterIInv, LoginIInv
  <1>4. ASSUME NEW p \in Procs, NEW u \in Persona,
               \/ Activate(p, u) \/ SetPassword(p, u) \/ ResetPassword(p, u) \/ UpdateProfile(p, u)
               \/ \E channel \in {"email", "phone"} : VerifyOtp(p, u, channel)
               \/ \E b \in BOOLEAN : DeleteAccount(p, u, b)
               \/ \E status \in {"active", "suspended"} : SetUserStatus(p, u, status)
        PROVE  AccountIInv'
    BY <1>4, ActivateIInv, SetPasswordIInv, ResetPasswordIInv, UpdateProfileIInv, VerifyOtpIInv,
       DeleteAccountIInv, SetUserStatusIInv
  <1>5. ASSUME NEW p \in Procs, NEW u \in Persona,
               \/ MakeCompanyAdmin(p, u)
               \/ \E caller \in Persona : UpdateStaffRole(p, u, caller) \/ DeactivateStaff(p, u, caller)
        PROVE  AccountIInv'
    BY <1>5, StaffIInv
  <1>6. ASSUME NEW p \in Procs, SaveUser(p) \/ AfterSave(p) \/ SetSession(p) \/ HandlerDies(p)
        PROVE  AccountIInv'
    BY <1>6, SaveUserIInv, AfterSaveIInv, SetSessionIInv, HandlerDiesIInv
  <1>7. CASE UNCHANGED <<accountVars, requestVars>>
    BY <1>7 DEF AccountIInv, AccountsTypeOK, RowOK, HandlerOK, Closing, Revoking, Unregistering,
                accountVars, requestVars
  <1> QED  BY <1>1, <1>2, <1>3, <1>4, <1>5, <1>6, <1>7 DEF AccountsNext

(* Once no handler is at it, a suspended account has no session, and a     *)
(* deleted one neither session nor device and stays deactivated, unless    *)
(* another handler overlapped, Redis failed to delete the session, or the  *)
(* handler died before it was to (setUserStatus and the deletions of users. *)
(* service.ts, login and refreshTokens of auth.service.ts).                *)
THEOREM ClosedOut == AccountsSpec => []ClosedAccountIsOut
  <1>1. RequestsInit /\ AccountsInit => AccountIInv
    BY AccountInitIInv
  <1>2. AccountIInv /\ [AccountsNext]_<<accountVars, requestVars>> => AccountIInv'
    BY AccountNextIInv
  <1>3. AccountIInv => ClosedAccountIsOut
    <2> SUFFICES ASSUME AccountIInv, NEW u \in Persona \ (overlapped \cup lingering), ~Busy(u)
                 PROVE  /\ user[u].status = "suspended" => u \notin session
                        /\ user[u].deleted => user[u].status = "deactivated" /\ u \notin session \cup device
      BY DEF ClosedAccountIsOut
    <2>1. \A p \in Procs : ~Revoking(p, u) /\ ~Unregistering(p, u)
      BY DEF Busy, InFlight, At, Revoking, Unregistering
    <2>2. Closing(u) /\ RowOK(user[u])
      BY DEF AccountIInv
    <2> QED  BY <2>1, <2>2 DEF Closing, RowOK
  <1> QED  BY <1>1, <1>2, <1>3, PTL DEF AccountsSpec

-----------------------------------------------------------------------------
(* Sales reps.  A referral on which no two handlers overlapped is covered  *)
(* by payouts of its referrer only, so by at most one that is open; it has *)
(* been paid for at most once, and not while it is available or a payout   *)
(* that covers it is open.  A copy about to be saved may have moved on     *)
(* from the row it was read from, but not back.                            *)

Unearned == {"none", "pending"}

MovesOn(old, new) ==
  /\ new.referrer = old.referrer
  /\ new.status \in Unearned => old.status = new.status
  /\ new.status = "available" => old.status \in {"pending", "available"}
  /\ old.status \in {"rejected", "clawed_back"} => new.status = old.status

(* A payout's amount is a fold, about which nothing is said.               *)
PayoutShape(y) ==
  /\ y = [status |-> y.status, agent |-> y.agent, covers |-> y.covers, amount |-> y.amount]
  /\ y.covers \subseteq Referrals

SalesCallShape(x) ==
  /\ x.pc = "profile" => x = [pc |-> "profile", agent |-> x.agent, row |-> x.row]
  /\ x.pc = "referrals" =>
       /\ DOMAIN x.rows \subseteq Referrals
       /\ \A r \in DOMAIN x.rows : x.rows[r] \in Referral /\ MovesOn(x.read[r], x.rows[r])
  /\ x.pc \in {"approve", "fail"} => x.payout \in CashPayouts
  /\ x.pc = "payout" => x.covers \subseteq Referrals

OpenFor(k, r) == payout[k].status = "pending" /\ r \in payout[k].covers

RewardOK(r) ==
  /\ \A k \in CashPayouts : r \in payout[k].covers =>
       payout[k].agent = referral[r].referrer /\ referral[r].status \notin Unearned
  /\ \A p \in Procs : call[p] # NoCall /\ call[p].pc = "payout" /\ r \in call[p].covers =>
       call[p].agent = referral[r].referrer /\ referral[r].status \notin Unearned
  /\ \A k, j \in CashPayouts : OpenFor(k, r) /\ OpenFor(j, r) => k = j
  /\ disbursed[r] \in {0, 1}
  /\ disbursed[r] = 1 => /\ referral[r].status \notin Unearned \cup {"available"}
                         /\ \A k \in CashPayouts : ~OpenFor(k, r)

SalesIInv ==
  /\ rule \in RuleValues /\ reviewed \subseteq Referrals
  /\ referral \in [Referrals -> Referral]
  /\ payout = [k \in CashPayouts |-> payout[k]] /\ disbursed = [r \in Referrals |-> disbursed[r]]
  /\ call = [p \in Procs |-> call[p]]
  /\ \A k \in CashPayouts : PayoutShape(payout[k])
  /\ \A p \in Procs : call[p] # NoCall => SalesCallShape(call[p])
  /\ \A r \in Referrals \ reviewed : RewardOK(r)

LEMMA SalesInitIInv == RequestsInit /\ SalesInit => SalesIInv
  <1> SUFFICES ASSUME RequestsInit, SalesInit PROVE SalesIInv
    OBVIOUS
  <1> DEFINE none == [status |-> "none", referrer |-> NoAgent, value |-> Unset, amount |-> Unset, late |-> FALSE]
             open == [status |-> "none", agent |-> NoAgent, covers |-> {}, amount |-> 0]
  <1>1. none \in Referral
    BY DEF Referral
  <1>2. PayoutShape(open) /\ open.covers = {}
    BY DEF PayoutShape
  <1>3. /\ referral = [r \in Referrals |-> none] /\ payout = [k \in CashPayouts |-> open]
        /\ disbursed = [r \in Referrals |-> 0] /\ rule \in RuleValues /\ reviewed = {}
    BY DEF SalesInit
  <1>4. call = [p \in Procs |-> NoCall]
    BY DEF RequestsInit
  <1> HIDE DEF none, open
  <1> QED  BY <1>1, <1>2, <1>3, <1>4 DEF SalesIInv, RewardOK, OpenFor

LEMMA SalesSlot ==
  ASSUME SalesIInv, NEW p \in Procs, NEW x, call' = [call EXCEPT ![p] = x]
  PROVE  /\ call' = [q \in Procs |-> call'[q]] /\ call'[p] = x
         /\ \A q \in Procs \ {p} : call'[q] = call[q]
  BY DEF SalesIInv

(* A slot takes a state, or is freed; no referral and no payout changes.   *)
LEMMA SlotOnly ==
  ASSUME SalesIInv, NEW p \in Procs, NEW x, call' = [call EXCEPT ![p] = x],
         rule' \in RuleValues, referral' = referral, payout' = payout, disbursed' = disbursed,
         reviewed' = reviewed, x # NoCall => SalesCallShape(x),
         \A r \in Referrals \ reviewed : x # NoCall /\ x.pc = "payout" /\ r \in x.covers =>
            x.agent = referral[r].referrer /\ referral[r].status \notin Unearned
  PROVE  SalesIInv'
  <1>1. /\ call' = [q \in Procs |-> call'[q]] /\ call'[p] = x
        /\ \A q \in Procs \ {p} : call'[q] = call[q]
    BY SalesSlot
  <1>2. \A q \in Procs : call'[q] # NoCall => SalesCallShape(call'[q])
    BY <1>1 DEF SalesIInv
  <1>3. ASSUME NEW r \in Referrals \ reviewed PROVE RewardOK(r)'
    <2>1. RewardOK(r)
      BY DEF SalesIInv
    <2>2. \A q \in Procs : call'[q] # NoCall /\ call'[q].pc = "payout" /\ r \in call'[q].covers =>
            call'[q].agent = referral[r].referrer /\ referral[r].status \notin Unearned
      BY <2>1, <1>1 DEF RewardOK
    <2> QED  BY <2>1, <2>2 DEF RewardOK, OpenFor
  <1> QED  BY <1>1, <1>2, <1>3 DEF SalesIInv

(* Nothing that the invariant speaks of changes but the rule.              *)
LEMMA NothingSold ==
  ASSUME SalesIInv, rule' \in RuleValues,
         UNCHANGED <<referral, payout, disbursed, reviewed, call>>
  PROVE  SalesIInv'
  BY DEF SalesIInv, RewardOK, OpenFor

(* Referral r becomes x.                                                   *)
LEMMA ReferralBecomes ==
  ASSUME SalesIInv, NEW r \in Referrals, NEW x \in Referral, referral' = [referral EXCEPT ![r] = x]
  PROVE  /\ referral' \in [Referrals -> Referral] /\ referral'[r] = x
         /\ \A s \in Referrals \ {r} : referral'[s] = referral[s]
  BY DEF SalesIInv

(* One referral moves on, from a status in which no payout covers it when  *)
(* the referrer changes; nothing else changes.                             *)
LEMMA ReferralStep ==
  ASSUME SalesIInv, NEW r \in Referrals, NEW x \in Referral, referral' = [referral EXCEPT ![r] = x],
         referral[r].status = "none" \/ MovesOn(referral[r], x),
         UNCHANGED <<rule, payout, disbursed, reviewed, call>>
  PROVE  SalesIInv'
  <1>1. /\ referral' \in [Referrals -> Referral] /\ referral'[r] = x
        /\ \A s \in Referrals \ {r} : referral'[s] = referral[s]
    BY ReferralBecomes
  <1>2. ASSUME NEW s \in Referrals \ reviewed PROVE RewardOK(s)'
    <2>1. RewardOK(s)
      BY DEF SalesIInv
    <2>2. CASE s # r
      BY <2>1, <2>2, <1>1 DEF RewardOK, OpenFor
    <2>3. CASE s = r
      <3>1. CASE referral[r].status = "none"
        BY <3>1, <2>1, <2>3, <1>1 DEF RewardOK, OpenFor, Unearned
      <3>2. CASE MovesOn(referral[r], x)
        BY <3>2, <2>1, <2>3, <1>1 DEF RewardOK, OpenFor, Unearned, MovesOn
      <3> QED  BY <3>1, <3>2
    <2> QED  BY <2>2, <2>3
  <1> QED  BY <1>1, <1>2 DEF SalesIInv

LEMMA AttributeIInv ==
  ASSUME SalesIInv, NEW r \in Referrals, NEW a \in Agents, Attribute(r, a) PROVE SalesIInv'
  <1> DEFINE x == [referral[r] EXCEPT !.status = "pending", !.referrer = a, !.value = rule]
  <1>1. referral[r] \in Referral /\ rule \in RuleValues
    BY DEF SalesIInv
  <1>2. x \in Referral
    BY <1>1 DEF Referral
  <1>3. /\ referral' = [referral EXCEPT ![r] = x] /\ referral[r].status = "none"
        /\ UNCHANGED <<rule, payout, disbursed, reviewed, call>>
    BY DEF Attribute, OneStep
  <1> HIDE DEF x
  <1> QED  BY <1>2, <1>3, ReferralStep

LEMMA WindowClosesIInv ==
  ASSUME SalesIInv, NEW r \in Referrals, WindowCloses(r) PROVE SalesIInv'
  <1> DEFINE x == [referral[r] EXCEPT !.late = TRUE]
  <1>1. referral[r] \in Referral
    BY DEF SalesIInv
  <1>2. x \in Referral /\ x.status = referral[r].status /\ x.referrer = referral[r].referrer
    BY <1>1 DEF Referral
  <1>3. /\ referral' = [referral EXCEPT ![r] = x]
        /\ UNCHANGED <<rule, payout, disbursed, reviewed, call>>
    BY DEF WindowCloses, OneStep
  <1> HIDE DEF x
  <1>4. MovesOn(referral[r], x)
    BY <1>2 DEF MovesOn, Unearned
  <1> QED  BY <1>2, <1>3, <1>4, ReferralStep

(* The steps of one piece on applications, questions and the rule.         *)
LEMMA RepsStep ==
  ASSUME SalesIInv,
         \/ \E a \in Agents : Apply(a) \/ AcceptApplication(a) \/ RejectApplication(a)
         \/ \E b \in BOOLEAN : EditQuestions(b)
         \/ \E v \in RuleValues : UpsertRule(v)
         \/ UNCHANGED <<salesVars, requestVars>>
  PROVE  SalesIInv'
  <1>1. rule' \in RuleValues
    BY DEF Apply, AcceptApplication, RejectApplication, EditQuestions, UpsertRule, SalesIInv, salesVars
  <1>2. UNCHANGED <<referral, payout, disbursed, reviewed, call>>
    BY DEF Apply, AcceptApplication, RejectApplication, EditQuestions, UpsertRule, OneStep, salesVars,
           requestVars
  <1> QED  BY <1>1, <1>2, NothingSold

(* The handlers that change a profile.                                     *)
LEMMA ChangeProfileIInv ==
  ASSUME SalesIInv, NEW p \in Procs, NEW a, NEW row, ChangeProfile(p, a, row) PROVE SalesIInv'
  <1> DEFINE x == [pc |-> "profile", agent |-> a, row |-> row]
  <1>1. SalesCallShape(x) /\ x.pc = "profile"
    BY DEF SalesCallShape
  <1>2. /\ call' = [call EXCEPT ![p] = x] /\ rule' \in RuleValues
        /\ referral' = referral /\ payout' = payout /\ disbursed' = disbursed /\ reviewed' = reviewed
    BY DEF ChangeProfile, Begin, salesVars, SalesIInv
  <1> HIDE DEF x
  <1> QED  BY <1>1, <1>2, SlotOnly

LEMMA ProfilesIInv ==
  ASSUME SalesIInv, NEW p \in Procs, NEW a \in Agents,
         \/ Suspend(p, a) \/ Reactivate(p, a) \/ Delete(p, a) \/ Upgrade(p, a)
         \/ \E b \in BOOLEAN : SubmitAssessment(p, a, b)
  PROVE  SalesIInv'
  <1>1. \E row : ChangeProfile(p, a, row)
    BY DEF Suspend, Reactivate, Delete, Upgrade, SubmitAssessment
  <1> QED  BY <1>1, ChangeProfileIInv

LEMMA SaveProfileIInv ==
  ASSUME SalesIInv, NEW p \in Procs, SaveProfile(p) \/ IssueCode(p) PROVE SalesIInv'
  <1>1. /\ rule' \in RuleValues /\ referral' = referral /\ payout' = payout /\ disbursed' = disbursed
        /\ reviewed' = reviewed
    BY DEF SaveProfile, IssueCode, SalesIInv
  <1>2. CASE End(p)
    <2>1. call' = [call EXCEPT ![p] = NoCall]
      BY <1>2 DEF End, GotoState
    <2> QED  BY <1>1, <2>1, SlotOnly
  <1>3. CASE SaveProfile(p) /\ Goto(p, "code")
    <2> DEFINE x == [call[p] EXCEPT !.pc = "code"]
    <2>1. call[p] # NoCall /\ call[p].pc = "profile"
      BY <1>3 DEF SaveProfile, At
    <2>2. call[p] = [pc |-> "profile", agent |-> call[p].agent, row |-> call[p].row]
      BY <2>1 DEF SalesIInv, SalesCallShape
    <2>3. x = [pc |-> "code", agent |-> call[p].agent, row |-> call[p].row]
      BY <2>2
    <2>4. x.pc = "code"
      BY <2>3
    <2>5. call' = [call EXCEPT ![p] = x]
      BY <1>3 DEF Goto, GotoState
    <2> HIDE DEF x
    <2>6. SalesCallShape(x)
      BY <2>4 DEF SalesCallShape
    <2> QED  BY <1>1, <2>4, <2>5, <2>6, SlotOnly
  <1>4. End(p) \/ (SaveProfile(p) /\ Goto(p, "code"))
    BY DEF SaveProfile, IssueCode
  <1> QED  BY <1>2, <1>3, <1>4

(* The handlers that change referrals: what they will save moves on.       *)
LEMMA ReadReferralsIInv ==
  ASSUME SalesIInv, NEW p \in Procs, NEW rows, ReadReferrals(p, rows), DOMAIN rows \subseteq Referrals,
         \A r \in DOMAIN rows : rows[r] \in Referral /\ MovesOn(referral[r], rows[r])
  PROVE  SalesIInv'
  <1> DEFINE x == [pc |-> "referrals", rows |-> rows, read |-> [r \in DOMAIN rows |-> referral[r]]]
  <1>1. x.pc = "referrals" /\ x.rows = rows /\ \A r \in DOMAIN rows : x.read[r] = referral[r]
    OBVIOUS
  <1>2. /\ call' = [call EXCEPT ![p] = x] /\ rule' \in RuleValues
        /\ referral' = referral /\ payout' = payout /\ disbursed' = disbursed /\ reviewed' = reviewed
    BY DEF ReadReferrals, Begin, salesVars, SalesIInv
  <1> HIDE DEF x
  <1>3. SalesCallShape(x)
    BY <1>1 DEF SalesCallShape
  <1> QED  BY <1>1, <1>2, <1>3, SlotOnly

(* One referral is changed.                                                *)
LEMMA ReadOneIInv ==
  ASSUME SalesIInv, NEW p \in Procs, NEW r \in Referrals, NEW x \in Referral,
         MovesOn(referral[r], x), ReadReferrals(p, [y \in {r} |-> x])
  PROVE  SalesIInv'
  <1> DEFINE rows == [y \in {r} |-> x]
  <1>1. DOMAIN rows = {r} /\ rows[r] = x
    OBVIOUS
  <1>2. ReadReferrals(p, rows)
    OBVIOUS
  <1> HIDE DEF rows
  <1> QED  BY <1>1, <1>2, ReadReferralsIInv

LEMMA OneReferralIInv ==
  ASSUME SalesIInv, NEW p \in Procs, NEW r \in Referrals,
         \/ Qualify(p, r) \/ ClawBack(p, r) \/ \E b \in BOOLEAN : Reject(p, r, b)
         \/ \E v \in RuleValues : Adjust(p, r, v)
  PROVE  SalesIInv'
  <1>1. referral[r] \in Referral /\ rule \in RuleValues
    BY DEF SalesIInv
  <1>2. CASE Qualify(p, r)
    <2> DEFINE x == [referral[r] EXCEPT !.status = "available", !.amount = rule]
    <2>1. x \in Referral /\ x.status = "available" /\ x.referrer = referral[r].referrer
      BY <1>1 DEF Referral
    <2>2. referral[r].status = "pending" /\ ReadReferrals(p, [y \in {r} |-> x])
      BY <1>2 DEF Qualify
    <2> HIDE DEF x
    <2>3. MovesOn(referral[r], x)
      BY <2>1, <2>2 DEF MovesOn, Unearned
    <2> QED  BY <2>1, <2>2, <2>3, ReadOneIInv
  <1>3. CASE ClawBack(p, r)
    <2> DEFINE x == [referral[r] EXCEPT !.status = "clawed_back"]
    <2>1. x \in Referral /\ x.status = "clawed_back" /\ x.referrer = referral[r].referrer
      BY <1>1 DEF Referral
    <2>2. referral[r].status = "paid" /\ ReadReferrals(p, [y \in {r} |-> x])
      BY <1>3 DEF ClawBack
    <2> HIDE DEF x
    <2>3. MovesOn(referral[r], x)
      BY <2>1, <2>2 DEF MovesOn, Unearned
    <2> QED  BY <2>1, <2>2, <2>3, ReadOneIInv
  <1>4. ASSUME NEW b \in BOOLEAN, Reject(p, r, b) PROVE SalesIInv'
    <2> DEFINE x == [referral[r] EXCEPT !.status = "rejected"]
    <2>1. x \in Referral /\ x.status = "rejected" /\ x.referrer = referral[r].referrer
      BY <1>1 DEF Referral
    <2>2. referral[r].status \in {"pending", "available", "rejected"} /\ ReadReferrals(p, [y \in {r} |-> x])
      BY <1>4 DEF Reject
    <2> HIDE DEF x
    <2>3. MovesOn(referral[r], x)
      BY <2>1, <2>2 DEF MovesOn, Unearned
    <2> QED  BY <2>1, <2>2, <2>3, ReadOneIInv
  <1>5. ASSUME NEW v \in RuleValues, Adjust(p, r, v) PROVE SalesIInv'
    <2> DEFINE x == [referral[r] EXCEPT !.amount = v]
    <2>1. x \in Referral /\ x.status = referral[r].status /\ x.referrer = referral[r].referrer
      BY <1>1 DEF Referral
    <2>2. ReadReferrals(p, [y \in {r} |-> x])
      BY <1>5 DEF Adjust
    <2> HIDE DEF x
    <2>3. MovesOn(referral[r], x)
      BY <2>1 DEF MovesOn, Unearned
    <2> QED  BY <2>1, <2>2, <2>3, ReadOneIInv
  <1> QED  BY <1>2, <1>3, <1>4, <1>5

LEMMA ReconcileIInv ==
  ASSUME SalesIInv, NEW p \in Procs, NEW v \in RuleValues, NEW w \in RuleValues, Reconcile(p, v, w)
  PROVE  SalesIInv'
  <1> DEFINE matches == {r \in Referrals : referral[r].value = v}
             row(r)  == [referral[r] EXCEPT !.value = w, !.amount = IF @ = v THEN w ELSE @]
             rows    == [r \in matches |-> row(r)]
  <1>1. ReadReferrals(p, rows)
    BY DEF Reconcile
  <1>2. ASSUME NEW r \in matches
        PROVE  row(r) \in Referral /\ MovesOn(referral[r], row(r))
    <2>1. referral[r] \in Referral
      BY DEF SalesIInv
    <2>2. row(r) \in Referral /\ row(r).status = referral[r].status /\ row(r).referrer = referral[r].referrer
      BY <2>1 DEF Referral
    <2> HIDE DEF row
    <2> QED  BY <2>2 DEF MovesOn, Unearned
  <1>3. DOMAIN rows = matches /\ (\A r \in matches : rows[r] = row(r)) /\ matches \subseteq Referrals
    OBVIOUS
  <1> HIDE DEF rows, row, matches
  <1> QED  BY <1>1, <1>2, <1>3, ReadReferralsIInv

(* The rows are saved: but on a referral that changed meanwhile, each is    *)
(* the row as it is, moved on.                                             *)
LEMMA SaveReferralsStep ==
  ASSUME SalesIInv, NEW p \in Procs, SaveReferrals(p)
  PROVE  /\ referral' \in [Referrals -> Referral]
         /\ call' = [call EXCEPT ![p] = NoCall]
         /\ UNCHANGED <<rule, payout, disbursed>>
         /\ reviewed \subseteq reviewed' /\ reviewed' \subseteq Referrals
         /\ \A r \in Referrals \ reviewed' :
              referral'[r] = referral[r] \/ MovesOn(referral[r], referral'[r])
  <1>1. call[p] # NoCall /\ call[p].pc = "referrals" /\ SalesCallShape(call[p])
    BY DEF SaveReferrals, At, SalesIInv
  <1>2. PICK c : c = call[p]
    OBVIOUS
  <1>3. /\ DOMAIN c.rows \subseteq Referrals
        /\ \A r \in DOMAIN c.rows : c.rows[r] \in Referral /\ MovesOn(c.read[r], c.rows[r])
    BY <1>1, <1>2 DEF SalesCallShape
  <1>4. /\ referral' = [r \in Referrals |-> IF r \in DOMAIN c.rows THEN c.rows[r] ELSE referral[r]]
        /\ reviewed' = reviewed \cup {r \in DOMAIN c.rows : referral[r] # c.read[r]}
        /\ call' = [call EXCEPT ![p] = NoCall]
        /\ UNCHANGED <<rule, payout, disbursed>>
    BY <1>2 DEF SaveReferrals, End, GotoState
  <1>5. referral' \in [Referrals -> Referral]
    BY <1>3, <1>4 DEF SalesIInv
  <1>6. reviewed \subseteq reviewed' /\ reviewed' \subseteq Referrals
    BY <1>3, <1>4 DEF SalesIInv
  <1>7. ASSUME NEW r \in Referrals \ reviewed'
        PROVE  referral'[r] = referral[r] \/ MovesOn(referral[r], referral'[r])
    <2>1. CASE r \in DOMAIN c.rows
      <3>1. referral[r] = c.read[r] /\ referral'[r] = c.rows[r]
        BY <2>1, <1>4
      <3> QED  BY <2>1, <3>1, <1>3
    <2>2. CASE r \notin DOMAIN c.rows
      BY <2>2, <1>4
    <2> QED  BY <2>1, <2>2
  <1> QED  BY <1>4, <1>5, <1>6, <1>7

LEMMA SaveReferralsIInv == ASSUME SalesIInv, NEW p \in Procs, SaveReferrals(p) PROVE SalesIInv'
  <1>1. /\ referral' \in [Referrals -> Referral]
        /\ call' = [call EXCEPT ![p] = NoCall]
        /\ UNCHANGED <<rule, payout, disbursed>>
        /\ reviewed \subseteq reviewed' /\ reviewed' \subseteq Referrals
        /\ \A r \in Referrals \ reviewed' :
             referral'[r] = referral[r] \/ MovesOn(referral[r], referral'[r])
    BY SaveReferralsStep
  <1>2. /\ call' = [q \in Procs |-> call'[q]] /\ call'[p] = NoCall
        /\ \A q \in Procs \ {p} : call'[q] = call[q]
    BY <1>1, SalesSlot
  <1>3. \A q \in Procs : call'[q] # NoCall => SalesCallShape(call'[q])
    BY <1>2 DEF SalesIInv
  <1>4. ASSUME NEW r \in Referrals \ reviewed' PROVE RewardOK(r)'
    <2>1. RewardOK(r)
      BY <1>1 DEF SalesIInv
    <2>2. /\ referral'[r].referrer = referral[r].referrer
          /\ referral[r].status \notin Unearned => referral'[r].status \notin Unearned
          /\ referral[r].status \notin Unearned \cup {"available"} => referral'[r].status # "available"
      BY <1>1, <1>4 DEF MovesOn, Unearned
    <2>3. \A q \in Procs : call'[q] # NoCall => call[q] = call'[q]
      BY <1>2
    <2> QED  BY <2>1, <2>2, <2>3, <1>1 DEF RewardOK, OpenFor
  <1> QED  BY <1>1, <1>2, <1>3, <1>4 DEF SalesIInv

LEMMA RequestPayoutIInv ==
  ASSUME SalesIInv, NEW p \in Procs, NEW a \in Agents, RequestPayout(p, a) PROVE SalesIInv'
  <1> DEFINE x == [pc |-> "payout", agent |-> a, row |-> agent[a], covers |-> Available(a),
                   amount |-> Worth(Available(a))]
  <1>1. x.pc = "payout" /\ x.agent = a /\ x.covers = Available(a)
    OBVIOUS
  <1>2. /\ call' = [call EXCEPT ![p] = x] /\ rule' \in RuleValues
        /\ referral' = referral /\ payout' = payout /\ disbursed' = disbursed /\ reviewed' = reviewed
    BY DEF RequestPayout, Begin, salesVars, SalesIInv
  <1> HIDE DEF x
  <1>3. SalesCallShape(x)
    BY <1>1 DEF SalesCallShape, Available
  <1>4. \A r \in x.covers : a = referral[r].referrer /\ referral[r].status \notin Unearned
    BY <1>1 DEF Available, Unearned
  <1> QED  BY <1>1, <1>2, <1>3, <1>4, SlotOnly

LEMMA ReadPayoutIInv ==
  ASSUME SalesIInv, NEW p \in Procs, NEW k \in CashPayouts, NEW d \in {"approve", "fail"},
         ReadPayout(p, k, d)
  PROVE  SalesIInv'
  <1> DEFINE x == [pc |-> d, payout |-> k]
  <1>1. x.pc = d /\ x.payout = k
    OBVIOUS
  <1>2. /\ call' = [call EXCEPT ![p] = x] /\ rule' \in RuleValues
        /\ referral' = referral /\ payout' = payout /\ disbursed' = disbursed /\ reviewed' = reviewed
    BY DEF ReadPayout, Begin, salesVars, SalesIInv
  <1> HIDE DEF x
  <1>3. SalesCallShape(x) /\ x.pc # "payout"
    BY <1>1 DEF SalesCallShape
  <1> QED  BY <1>2, <1>3, SlotOnly

(* Payout k becomes y.                                                     *)
LEMMA PayoutBecomes ==
  ASSUME SalesIInv, NEW k \in CashPayouts, NEW y, PayoutShape(y), payout' = [payout EXCEPT ![k] = y]
  PROVE  /\ payout' = [j \in CashPayouts |-> payout'[j]] /\ payout'[k] = y
         /\ \A j \in CashPayouts \ {k} : payout'[j] = payout[j]
         /\ \A j \in CashPayouts : PayoutShape(payout'[j])
  BY DEF SalesIInv

(* A payout is opened: on what is available, when the rep has none open.   *)
LEMMA SavePayoutIInv ==
  ASSUME SalesIInv, NEW p \in Procs, NEW k \in CashPayouts, SavePayout(p, k) PROVE SalesIInv'
  <1>1. call[p] # NoCall /\ call[p].pc = "payout" /\ SalesCallShape(call[p])
    BY DEF SavePayout, At, SalesIInv
  <1>2. PICK c : c = call[p]
    OBVIOUS
  <1> DEFINE y == [status |-> "pending", agent |-> c.agent, covers |-> c.covers, amount |-> c.amount]
  <1>3. c.covers \subseteq Referrals
    BY <1>1, <1>2 DEF SalesCallShape
  <1>4. PayoutShape(y) /\ y.status = "pending" /\ y.agent = c.agent /\ y.covers = c.covers
    BY <1>3 DEF PayoutShape
  <1>5. /\ payout' = [payout EXCEPT ![k] = y] /\ call' = [call EXCEPT ![p] = NoCall]
        /\ reviewed' = reviewed \cup {r \in c.covers : Open(c.agent) # {} \/ referral[r].status # "available"}
        /\ UNCHANGED <<rule, referral, disbursed>>
    BY <1>2 DEF SavePayout, End, GotoState
  <1> HIDE DEF y
  <1>6. /\ payout' = [j \in CashPayouts |-> payout'[j]] /\ payout'[k] = y
        /\ \A j \in CashPayouts \ {k} : payout'[j] = payout[j]
        /\ \A j \in CashPayouts : PayoutShape(payout'[j])
    BY <1>4, <1>5, PayoutBecomes
  <1>7. /\ call' = [q \in Procs |-> call'[q]] /\ call'[p] = NoCall
        /\ \A q \in Procs \ {p} : call'[q] = call[q]
    BY <1>5, SalesSlot
  <1>8. \A q \in Procs : call'[q] # NoCall => SalesCallShape(call'[q])
    BY <1>7 DEF SalesIInv
  <1>9. reviewed \subseteq reviewed' /\ reviewed' \subseteq Referrals
    BY <1>3, <1>5 DEF SalesIInv
  <1>10. ASSUME NEW r \in Referrals \ reviewed' PROVE RewardOK(r)'
    <2>1. RewardOK(r)
      BY <1>9 DEF SalesIInv
    <2>2. \A q \in Procs : call'[q] # NoCall => call[q] = call'[q]
      BY <1>7
    <2>3. CASE r \notin c.covers
      <3>1. ~OpenFor(k, r)'
        BY <2>3, <1>4, <1>6 DEF OpenFor
      <3>2. \A j \in CashPayouts : r \in payout'[j].covers => payout'[j] = payout[j]
        BY <2>3, <1>4, <1>6
      <3>3. \A j \in CashPayouts : OpenFor(j, r)' => OpenFor(j, r)
        BY <3>2 DEF OpenFor
      <3> QED  BY <2>1, <2>2, <3>2, <3>3, <1>5 DEF RewardOK
    <2>4. CASE r \in c.covers
      <3>1. Open(c.agent) = {} /\ referral[r].status = "available"
        BY <2>4, <1>5, <1>10
      <3>2. c.agent = referral[r].referrer
        BY <2>1, <2>4, <1>1, <1>2 DEF RewardOK
      <3>3. \A j \in CashPayouts : ~OpenFor(j, r)
        BY <2>1, <3>1, <3>2 DEF RewardOK, OpenFor, Open
      <3>4. \A j \in CashPayouts : OpenFor(j, r)' => j = k
        BY <3>3, <1>6 DEF OpenFor
      <3>5. disbursed[r] = 0 /\ referral[r].status \notin Unearned
        BY <2>1, <3>1 DEF RewardOK, Unearned
      <3>6. \A j \in CashPayouts : r \in payout'[j].covers =>
              payout'[j].agent = referral[r].referrer /\ referral[r].status \notin Unearned
        BY <2>1, <3>2, <3>5, <1>4, <1>6 DEF RewardOK
      <3> QED  BY <2>1, <2>2, <3>4, <3>5, <3>6, <1>5 DEF RewardOK
    <2> QED  BY <2>3, <2>4
  <1> QED  BY <1>5, <1>6, <1>7, <1>8, <1>9, <1>10 DEF SalesIInv

(* A payout is approved: what it covers has not been paid for, and is not  *)
(* available any more.                                                     *)
LEMMA ApprovePayoutStep ==
  ASSUME SalesIInv, NEW p \in Procs, ApprovePayout(p)
  PROVE  /\ SalesIInv'
         /\ \A r \in Referrals : referral[r].status # "available" => referral'[r] = referral[r]
  <1>1. call[p] # NoCall /\ call[p].pc = "approve" /\ SalesCallShape(call[p])
    BY DEF ApprovePayout, At, SalesIInv
  <1>2. PICK k \in CashPayouts : k = call[p].payout
    BY <1>1 DEF SalesCallShape
  <1> DEFINE rs == payout[k].covers
             y  == [payout[k] EXCEPT !.status = "completed"]
             paid(r) == [referral[r] EXCEPT !.status = "paid"]
  <1>3. PayoutShape(payout[k]) /\ rs \subseteq Referrals
    BY DEF SalesIInv, PayoutShape
  <1>4. /\ y = [status |-> "completed", agent |-> payout[k].agent, covers |-> rs, amount |-> payout[k].amount]
    BY <1>3 DEF PayoutShape
  <1>5. PayoutShape(y) /\ y.status = "completed" /\ y.agent = payout[k].agent /\ y.covers = rs
    BY <1>3, <1>4 DEF PayoutShape
  <1>6. /\ payout' = [payout EXCEPT ![k] = y] /\ call' = [call EXCEPT ![p] = NoCall] /\ rule' = rule
        /\ referral' = [r \in Referrals |-> IF r \in rs /\ referral[r].status = "available"
                                            THEN paid(r) ELSE referral[r]]
        /\ disbursed' = [r \in Referrals |-> disbursed[r] + IF r \in rs THEN 1 ELSE 0]
        /\ reviewed' = (IF payout[k].status = "pending" THEN reviewed ELSE reviewed \cup rs)
    BY <1>2 DEF ApprovePayout, End, GotoState
  <1>7. ASSUME NEW r \in Referrals
        PROVE  /\ paid(r) \in Referral /\ paid(r).status = "paid" /\ paid(r).referrer = referral[r].referrer
    <2>1. referral[r] \in Referral
      BY DEF SalesIInv
    <2> QED  BY <2>1 DEF Referral
  <1> HIDE DEF y, paid
  <1>8. /\ payout' = [j \in CashPayouts |-> payout'[j]] /\ payout'[k] = y
        /\ \A j \in CashPayouts \ {k} : payout'[j] = payout[j]
        /\ \A j \in CashPayouts : PayoutShape(payout'[j])
    BY <1>5, <1>6, PayoutBecomes
  <1>9. /\ call' = [q \in Procs |-> call'[q]] /\ call'[p] = NoCall
        /\ \A q \in Procs \ {p} : call'[q] = call[q]
    BY <1>6, SalesSlot
  <1>10. \A q \in Procs : call'[q] # NoCall => SalesCallShape(call'[q])
    BY <1>9 DEF SalesIInv
  <1>11. reviewed \subseteq reviewed' /\ reviewed' \subseteq Referrals
    BY <1>3, <1>6 DEF SalesIInv
  <1>12. referral' \in [Referrals -> Referral]
    BY <1>6, <1>7 DEF SalesIInv
  <1>13. \A r \in Referrals : referral[r].status # "available" => referral'[r] = referral[r]
    BY <1>6
  <1>14. ASSUME NEW r \in Referrals \ reviewed' PROVE RewardOK(r)'
    <2>1. RewardOK(r)
      BY <1>11 DEF SalesIInv
    <2>2. \A q \in Procs : call'[q] # NoCall => call[q] = call'[q]
      BY <1>9
    <2>3. \A j \in CashPayouts : payout'[j].agent = payout[j].agent /\ payout'[j].covers = payout[j].covers
      BY <1>5, <1>8
    <2>4. \A j \in CashPayouts : OpenFor(j, r)' => j # k /\ OpenFor(j, r)
      BY <1>5, <1>8 DEF OpenFor
    <2>5. /\ referral'[r].referrer = referral[r].referrer
          /\ referral[r].status \notin Unearned => referral'[r].status \notin Unearned
      BY <1>6, <1>7 DEF Unearned
    <2>6. CASE r \notin rs
      <3>1. referral'[r] = referral[r] /\ disbursed'[r] = disbursed[r]
        BY <2>1, <2>6, <1>6 DEF RewardOK
      <3> QED  BY <2>1, <2>2, <2>3, <2>4, <3>1 DEF RewardOK
    <2>7. CASE r \in rs
      <3>1. payout[k].status = "pending"
        BY <2>7, <1>6, <1>14
      <3>2. OpenFor(k, r)
        BY <3>1, <2>7 DEF OpenFor
      <3>3. disbursed[r] = 0
        BY <3>2, <2>1 DEF RewardOK
      <3>4. disbursed'[r] = 1
        BY <3>3, <2>7, <1>6
      <3>5. \A j \in CashPayouts : ~OpenFor(j, r)'
        BY <3>2, <2>1, <2>4 DEF RewardOK
      <3>6. referral[r].status \notin Unearned
        BY <2>1, <2>7 DEF RewardOK
      <3>7. referral'[r].status # "available"
        BY <2>7, <1>6, <1>7
      <3> QED  BY <2>1, <2>2, <2>3, <2>5, <3>4, <3>5, <3>6, <3>7 DEF RewardOK
    <2> QED  BY <2>6, <2>7
  <1>15. rule' \in RuleValues /\ disbursed' = [r \in Referrals |-> disbursed'[r]]
    BY <1>6 DEF SalesIInv
  <1>16. SalesIInv'
    BY <1>8, <1>9, <1>10, <1>11, <1>12, <1>14, <1>15 DEF SalesIInv
  <1> QED  BY <1>13, <1>16

LEMMA FailPayoutIInv == ASSUME SalesIInv, NEW p \in Procs, FailPayout(p) PROVE SalesIInv'
  <1>1. call[p] # NoCall /\ call[p].pc = "fail" /\ SalesCallShape(call[p])
    BY DEF FailPayout, At, SalesIInv
  <1>2. PICK k \in CashPayouts : k = call[p].payout
    BY <1>1 DEF SalesCallShape
  <1> DEFINE rs == payout[k].covers
             y  == [payout[k] EXCEPT !.status = "failed"]
  <1>3. PayoutShape(payout[k]) /\ rs \subseteq Referrals
    BY DEF SalesIInv, PayoutShape
  <1>4. y = [status |-> "failed", agent |-> payout[k].agent, covers |-> rs, amount |-> payout[k].amount]
    BY <1>3 DEF PayoutShape
  <1>5. PayoutShape(y) /\ y.status = "failed" /\ y.agent = payout[k].agent /\ y.covers = rs
    BY <1>3, <1>4 DEF PayoutShape
  <1>6. /\ payout' = [payout EXCEPT ![k] = y] /\ call' = [call EXCEPT ![p] = NoCall]
        /\ reviewed' = (IF payout[k].status = "completed" THEN reviewed \cup payout[k].covers ELSE reviewed)
        /\ UNCHANGED <<rule, referral, disbursed>>
    BY <1>2 DEF FailPayout, End, GotoState
  <1> HIDE DEF y
  <1>7. /\ payout' = [j \in CashPayouts |-> payout'[j]] /\ payout'[k] = y
        /\ \A j \in CashPayouts \ {k} : payout'[j] = payout[j]
        /\ \A j \in CashPayouts : PayoutShape(payout'[j])
    BY <1>5, <1>6, PayoutBecomes
  <1>8. /\ call' = [q \in Procs |-> call'[q]] /\ call'[p] = NoCall
        /\ \A q \in Procs \ {p} : call'[q] = call[q]
    BY <1>6, SalesSlot
  <1>9. \A q \in Procs : call'[q] # NoCall => SalesCallShape(call'[q])
    BY <1>8 DEF SalesIInv
  <1>10. reviewed \subseteq reviewed' /\ reviewed' \subseteq Referrals
    BY <1>3, <1>6 DEF SalesIInv
  <1>11. ASSUME NEW r \in Referrals \ reviewed' PROVE RewardOK(r)'
    <2>1. RewardOK(r)
      BY <1>10 DEF SalesIInv
    <2>2. \A q \in Procs : call'[q] # NoCall => call[q] = call'[q]
      BY <1>8
    <2>3. \A j \in CashPayouts : payout'[j].agent = payout[j].agent /\ payout'[j].covers = payout[j].covers
      BY <1>5, <1>7
    <2>4. \A j \in CashPayouts : OpenFor(j, r)' => OpenFor(j, r)
      BY <1>5, <1>7 DEF OpenFor
    <2> QED  BY <2>1, <2>2, <2>3, <2>4, <1>6 DEF RewardOK
  <1> QED  BY <1>6, <1>7, <1>8, <1>9, <1>10, <1>11 DEF SalesIInv

LEMMA SalesNextIInv == SalesIInv /\ [SalesNext]_<<salesVars, requestVars>> => SalesIInv'
  <1> SUFFICES ASSUME SalesIInv, [SalesNext]_<<salesVars, requestVars>> PROVE SalesIInv'
    OBVIOUS
  <1>1. ASSUME \/ \E a \in Agents : Apply(a) \/ AcceptApplication(a) \/ RejectApplication(a)
               \/ \E b \in BOOLEAN : EditQuestions(b)
               \/ \E v \in RuleValues : UpsertRule(v)
               \/ UNCHANGED <<salesVars, requestVars>>
        PROVE  SalesIInv'
    BY <1>1, RepsStep
  <1>2. ASSUME NEW r \in Referrals, WindowCloses(r) \/ \E a \in Agents : Attribute(r, a)
        PROVE  SalesIInv'
    BY <1>2, WindowClosesIInv, AttributeIInv
  <1>3. ASSUME NEW p \in Procs, NEW a \in Agents,
               \/ Suspend(p, a) \/ Reactivate(p, a) \/ Delete(p, a) \/ Upgrade(p, a) \/ RequestPayout(p, a)
               \/ \E b \in BOOLEAN : SubmitAssessment(p, a, b)
        PROVE  SalesIInv'
    BY <1>3, ProfilesIInv, RequestPayoutIInv
  <1>4. ASSUME NEW p \in Procs, NEW r \in Referrals,
               \/ Qualify(p, r) \/ ClawBack(p, r) \/ \E b \in BOOLEAN : Reject(p, r, b)
               \/ \E v \in RuleValues : Adjust(p, r, v)
        PROVE  SalesIInv'
    BY <1>4, OneReferralIInv
  <1>5. ASSUME NEW p \in Procs, NEW v \in RuleValues, NEW w \in RuleValues, Reconcile(p, v, w)
        PROVE  SalesIInv'
    BY <1>5, ReconcileIInv
  <1>6. ASSUME NEW p \in Procs, NEW k \in CashPayouts,
               SavePayout(p, k) \/ \E d \in {"approve", "fail"} : ReadPayout(p, k, d)
        PROVE  SalesIInv'
    BY <1>6, SavePayoutIInv, ReadPayoutIInv
  <1>7. ASSUME NEW p \in Procs,
               \/ SaveProfile(p) \/ IssueCode(p) \/ SaveReferrals(p) \/ ApprovePayout(p) \/ FailPayout(p)
        PROVE  SalesIInv'
    BY <1>7, SaveProfileIInv, SaveReferralsIInv, ApprovePayoutStep, FailPayoutIInv
  <1>8. ASSUME NEW p \in Procs, Dies(p), UNCHANGED salesVars
        PROVE  SalesIInv'
    <2>1. call' = [call EXCEPT ![p] = NoCall] /\ UNCHANGED <<rule, referral, payout, disbursed, reviewed>>
      BY <1>8 DEF Dies, salesVars
    <2>2. rule' \in RuleValues
      BY <2>1 DEF SalesIInv
    <2> QED  BY <2>1, <2>2, SlotOnly
  <1> QED  BY <1>1, <1>2, <1>3, <1>4, <1>5, <1>6, <1>7, <1>8 DEF SalesNext

(* No step revives what was rejected or clawed back.                       *)
LEMMA StaysClosed ==
  ASSUME SalesIInv, [SalesNext]_<<salesVars, requestVars>>, NEW r \in Referrals \ reviewed',
         referral[r].status \in {"rejected", "clawed_back"}
  PROVE  referral'[r].status = referral[r].status
  <1>1. CASE \E p \in Procs : SaveReferrals(p)
    BY <1>1, SaveReferralsStep DEF MovesOn
  <1>2. CASE \E p \in Procs : ApprovePayout(p)
    BY <1>2, ApprovePayoutStep
  <1>3. ASSUME NEW s \in Referrals, WindowCloses(s)
        PROVE  referral'[r].status = referral[r].status
    <2> DEFINE x == [referral[s] EXCEPT !.late = TRUE]
    <2>1. referral[s] \in Referral
      BY DEF SalesIInv
    <2>2. x \in Referral /\ x.status = referral[s].status
      BY <2>1 DEF Referral
    <2>3. referral' = [referral EXCEPT ![s] = x]
      BY <1>3 DEF WindowCloses
    <2> HIDE DEF x
    <2> QED  BY <2>2, <2>3, ReferralBecomes
  <1>4. ASSUME NEW s \in Referrals, NEW a \in Agents, Attribute(s, a)
        PROVE  referral'[r].status = referral[r].status
    <2> DEFINE x == [referral[s] EXCEPT !.status = "pending", !.referrer = a, !.value = rule]
    <2>1. referral[s] \in Referral /\ rule \in RuleValues
      BY DEF SalesIInv
    <2>2. x \in Referral
      BY <2>1 DEF Referral
    <2>3. referral' = [referral EXCEPT ![s] = x] /\ referral[s].status = "none"
      BY <1>4 DEF Attribute
    <2> HIDE DEF x
    <2>4. r # s
      BY <2>3
    <2> QED  BY <2>2, <2>3, <2>4, ReferralBecomes
  <1>5. CASE UNCHANGED referral
    BY <1>5
  <1> QED
    BY <1>1, <1>2, <1>3, <1>4, <1>5
    DEF SalesNext, Apply, AcceptApplication, RejectApplication, EditQuestions, UpsertRule, Suspend,
        Reactivate, Delete, Upgrade, SubmitAssessment, ChangeProfile, SaveProfile, IssueCode, Qualify,
        Reject, Adjust, ClawBack, Reconcile, ReadReferrals, RequestPayout, SavePayout, ReadPayout,
        FailPayout, salesVars, requestVars

(* A reward is paid for at most once, and one rejected or clawed back      *)
(* neither becomes payable nor paid again, unless two handlers overlapped  *)
(* on the referral; the payout open when it was rejected still pays it     *)
(* (requestPayout and approvePayout of sales-rep.service.ts, referrals.    *)
(* service.ts).                                                            *)
THEOREM RewardOnce == SalesSpec => RewardPaidOnce
  <1>1. ASSUME SalesIInv, [SalesNext]_<<salesVars, requestVars>>
        PROVE  [\A r \in Referrals \ reviewed' :
                  /\ disbursed'[r] <= 1
                  /\ referral[r].status \in {"rejected", "clawed_back"}
                       => referral'[r].status = referral[r].status]_salesVars
    <2>1. SalesIInv'
      BY <1>1, SalesNextIInv
    <2>2. ASSUME NEW r \in Referrals \ reviewed'
          PROVE  disbursed'[r] <= 1
      <3>1. RewardOK(r)'
        BY <2>1 DEF SalesIInv
      <3>2. disbursed'[r] \in {0, 1}
        BY <3>1 DEF RewardOK
      <3> QED  BY <3>2
    <2> QED  BY <1>1, <2>2, StaysClosed
  <1> QED  BY <1>1, SalesInitIInv, SalesNextIInv, PTL DEF SalesSpec, RewardPaidOnce
-----------------------------------------------------------------------------
(* Policies.  A policy is sound when what readers have accepted is out of  *)
(* draft with the text of then, and the one handler that is publishing it, *)
(* if any, explains why the published version and the served one may       *)
(* differ.                                                                 *)

PolicyOut == {"published", "archived"}

InPub(p, k) ==
  call[p] # NoCall /\ call[p].pc \in {"archive", "publish", "serve"} /\ call[p].key = k

ServedIs(k, m) == \A n \in Numbers : version[k][n].status = "published" <=> m = n

Explains(p, k) ==
  /\ call[p].pc = "archive" => ServedIs(k, policy[k].current)
  /\ call[p].pc = "publish" => \A n \in Numbers : version[k][n].status # "published"
  /\ call[p].pc = "serve" => ServedIs(k, call[p].number)

PolicySound(k) ==
  /\ \A a \in accepted : a.key = k =>
       version[k][a.number].status \in PolicyOut /\ version[k][a.number].text = a.text
  /\ policy[k].current # 0 => version[k][policy[k].current].status \in PolicyOut
  /\ \A p, q \in Procs : InPub(p, k) /\ InPub(q, k) => p = q
  /\ (\A p \in Procs : ~InPub(p, k)) => ServedIs(k, policy[k].current)
  /\ \A p \in Procs : InPub(p, k) => Explains(p, k)

PolicyCopyOK(x) ==
  /\ x.pc = "policy" => x.row.current = x.read.current
  /\ x.pc = "version" => x.row.status = "draft" /\ x.read.status = "draft"
  /\ x.pc \in {"archive", "publish", "serve"} => x.version.status \in {"draft", "archived"}

PolicyTyped ==
  /\ PoliciesTypeOK
  /\ call \in [Procs -> PolicyCalls \cup {NoCall}]
  /\ \A p \in Procs : call[p] # NoCall => PolicyCopyOK(call[p])

PolicyIInv == PolicyTyped /\ \A k \in PolicyKeys \ policyOdd : PolicySound(k)

LEMMA PoliciesInitIInv == RequestsInit /\ PoliciesInit => PolicyIInv
  <1> SUFFICES ASSUME RequestsInit, PoliciesInit
               PROVE  PolicyIInv
    OBVIOUS
  <1>1. NoVersion \in VersionRow /\ NoVersion.status = "none"
    BY PolicyConstantsOK DEF NoVersion, VersionRow
  <1>2. PolicyTyped
    <2>1. [exists |-> FALSE, active |-> TRUE, current |-> 0] \in PolicyRow
      BY PolicyConstantsOK DEF PolicyRow
    <2>2. policy \in [PolicyKeys -> PolicyRow]
      BY <2>1 DEF PoliciesInit
    <2>3. version \in [PolicyKeys -> [Numbers -> VersionRow]]
      BY <1>1 DEF PoliciesInit
    <2>4. accepted \subseteq Acceptance /\ policyOdd \subseteq PolicyKeys
      BY DEF PoliciesInit
    <2>5. call \in [Procs -> PolicyCalls \cup {NoCall}] /\ \A p \in Procs : call[p] = NoCall
      BY DEF RequestsInit
    <2> QED  BY <2>2, <2>3, <2>4, <2>5 DEF PolicyTyped, PoliciesTypeOK
  <1>3. ASSUME NEW k \in PolicyKeys
        PROVE  PolicySound(k)
    <2>1. policy[k].current = 0 /\ accepted = {} /\ \A p \in Procs : ~InPub(p, k)
      BY DEF PoliciesInit, RequestsInit, InPub
    <2>2. \A n \in Numbers : version[k][n].status = "none" /\ n # 0
      BY <1>1, PolicyConstantsOK DEF PoliciesInit, Numbers
    <2> QED  BY <2>1, <2>2 DEF PolicySound, ServedIs
  <1> QED  BY <1>2, <1>3 DEF PolicyIInv

-----------------------------------------------------------------------------
LEMMA SlotTakes ==
  ASSUME PolicyTyped, NEW p \in Procs, NEW x \in PolicyCalls, call' = [call EXCEPT ![p] = x]
  PROVE  /\ call' \in [Procs -> PolicyCalls \cup {NoCall}] /\ call'[p] = x /\ x # NoCall
         /\ \A q \in Procs \ {p} : call'[q] = call[q]
  BY PolicyConstantsOK DEF PolicyTyped

LEMMA SlotFreed ==
  ASSUME PolicyTyped, NEW p \in Procs, call' = [call EXCEPT ![p] = NoCall]
  PROVE  /\ call' \in [Procs -> PolicyCalls \cup {NoCall}] /\ call'[p] = NoCall
         /\ \A q \in Procs \ {p} : call'[q] = call[q]
  BY DEF PolicyTyped

LEMMA PolicyCallFields ==
  ASSUME PolicyTyped, NEW p \in Procs, call[p] # NoCall
  PROVE  LET c == call[p] IN
         /\ c.key \in PolicyKeys /\ PolicyCopyOK(c)
         /\ c.pc = "policy" => c.row \in PolicyRow /\ c.read \in PolicyRow
         /\ c.pc = "version" => c.number \in Numbers /\ c.row \in VersionRow /\ c.read \in VersionRow
         /\ c.pc \in {"archive", "publish", "serve"} =>
              /\ c.number \in Numbers /\ c.policy \in PolicyRow /\ c.version \in VersionRow
              /\ c \in [pc : {"archive", "publish", "serve"}, key : PolicyKeys, number : Numbers,
                        policy : PolicyRow, version : VersionRow]
  BY DEF PolicyTyped, PolicyCalls

(* A step on policy k changes nothing of the others.                       *)
LEMMA OthersSound ==
  ASSUME PolicyIInv, NEW k \in PolicyKeys,
         PolicyTyped', policyOdd \subseteq policyOdd',
         \A j \in PolicyKeys \ {k} : policy'[j] = policy[j] /\ version'[j] = version[j],
         \A a \in accepted' : a \in accepted \/ a.key = k,
         \A p \in Procs : call'[p] = call[p]
            \/ \A j \in PolicyKeys \ {k} : ~InPub(p, j) /\ ~InPub(p, j)',
         k \notin policyOdd' => PolicySound(k)'
  PROVE  PolicyIInv'
  <1>1. ASSUME NEW j \in PolicyKeys, j # k, j \notin policyOdd'
        PROVE  PolicySound(j)'
    <2>1. PolicySound(j)
      BY <1>1 DEF PolicyIInv
    <2>2. /\ \A p \in Procs : InPub(p, j)' <=> InPub(p, j)
          /\ \A p \in Procs : InPub(p, j) => call'[p] = call[p]
      BY <1>1 DEF InPub
    <2>3. \A m : ServedIs(j, m)' <=> ServedIs(j, m)
      BY <1>1 DEF ServedIs
    <2>4. \A p \in Procs : InPub(p, j)' => Explains(p, j)'
      BY <1>1, <2>1, <2>2 DEF PolicySound, Explains, ServedIs
    <2>5. (\A p \in Procs : ~InPub(p, j)') => ServedIs(j, policy[j].current)'
      BY <1>1, <2>1, <2>2 DEF PolicySound, ServedIs
    <2> QED  BY <1>1, <2>1, <2>2, <2>4, <2>5 DEF PolicySound
  <1> QED  BY <1>1 DEF PolicyIInv

(* Row n of policy k becomes r.                                            *)
LEMMA RowBecomes ==
  ASSUME PolicyTyped, NEW k \in PolicyKeys, NEW n \in Numbers, NEW r \in VersionRow,
         version' = [version EXCEPT ![k][n] = r]
  PROVE  /\ version' \in [PolicyKeys -> [Numbers -> VersionRow]]
         /\ version'[k][n] = r /\ \A m \in Numbers \ {n} : version'[k][m] = version[k][m]
         /\ \A j \in PolicyKeys \ {k} : version'[j] = version[j]
  BY DEF PolicyTyped, PoliciesTypeOK

(* Policy k becomes r.                                                     *)
LEMMA PolicyBecomes ==
  ASSUME PolicyTyped, NEW k \in PolicyKeys, NEW r \in PolicyRow, policy' = [policy EXCEPT ![k] = r]
  PROVE  /\ policy' \in [PolicyKeys -> PolicyRow] /\ policy'[k] = r
         /\ \A j \in PolicyKeys \ {k} : policy'[j] = policy[j]
  BY DEF PolicyTyped, PoliciesTypeOK

(* What is not yet out of draft is neither accepted nor served.            *)
LEMMA DraftIsFree ==
  ASSUME PolicyTyped, NEW k \in PolicyKeys, PolicySound(k), NEW n \in Numbers, version[k][n].status \notin PolicyOut
  PROVE  policy[k].current # n /\ \A a \in accepted : a.key = k => a.number # n
  BY DEF PolicyTyped, PoliciesTypeOK, Acceptance, PolicySound, Numbers

(* A handler that is not a publication takes or frees a slot, and nothing  *)
(* that readers see of policy k changes but rows in draft.                 *)
LEMMA SoundKept ==
  ASSUME PolicyTyped, NEW k \in PolicyKeys, PolicySound(k),
         accepted' = accepted, policy'[k].current = policy[k].current,
         \A n \in Numbers : \/ version'[k][n] = version[k][n]
                            \/ (version[k][n].status \notin PolicyOut /\ version'[k][n].status \notin PolicyOut),
         \A p \in Procs : call'[p] = call[p] \/ (~InPub(p, k) /\ ~InPub(p, k)')
  PROVE  PolicySound(k)'
  <1>1. \A p \in Procs : (InPub(p, k)' <=> InPub(p, k)) /\ (InPub(p, k) => call'[p] = call[p])
    BY DEF InPub
  <1>2. \A n \in Numbers : version'[k][n].status = "published" <=> version[k][n].status = "published"
    BY DEF PolicyOut
  <1>3. policy[k].current # 0 => policy[k].current \in Numbers
    BY PolicyConstantsOK DEF PolicyTyped, PoliciesTypeOK, PolicyRow, Numbers
  <1>4. \A a \in accepted : a.key = k => a.number \in Numbers
    BY DEF PolicyTyped, PoliciesTypeOK, Acceptance
  <1>5. \A a \in accepted' : a.key = k =>
          version'[k][a.number].status \in PolicyOut /\ version'[k][a.number].text = a.text
    BY <1>4 DEF PolicySound
  <1>6. policy'[k].current # 0 => version'[k][policy'[k].current].status \in PolicyOut
    BY <1>3 DEF PolicySound
  <1>7. (\A p \in Procs : ~InPub(p, k)') => ServedIs(k, policy[k].current)'
    BY <1>1, <1>2 DEF PolicySound, ServedIs
  <1>8. \A p \in Procs : InPub(p, k)' => Explains(p, k)'
    BY <1>1, <1>2 DEF PolicySound, Explains, ServedIs
  <1> QED  BY <1>1, <1>5, <1>6, <1>7, <1>8 DEF PolicySound

-----------------------------------------------------------------------------
LEMMA CreatePolicyIInv == ASSUME PolicyIInv, NEW k \in PolicyKeys, CreatePolicy(k) PROVE PolicyIInv'
  <1>1. PolicyTyped /\ policy[k] \in PolicyRow
    BY DEF PolicyIInv, PolicyTyped, PoliciesTypeOK
  <1>2. PICK r \in PolicyRow : r = [policy[k] EXCEPT !.exists = TRUE]
    BY <1>1 DEF PolicyRow
  <1>3. r.current = policy[k].current /\ policy' = [policy EXCEPT ![k] = r]
    BY <1>1, <1>2 DEF PolicyRow, CreatePolicy
  <1>4. call' = call /\ version' = version /\ accepted' = accepted /\ policyOdd' = policyOdd
    BY DEF CreatePolicy, OneStep
  <1>5. PolicyTyped'
    BY <1>1, <1>3, <1>4, PolicyBecomes DEF PolicyTyped, PoliciesTypeOK
  <1>6. policy'[k].current = policy[k].current /\ \A j \in PolicyKeys \ {k} : policy'[j] = policy[j]
    BY <1>1, <1>3, PolicyBecomes
  <1>7. k \notin policyOdd' => PolicySound(k)'
    BY <1>1, <1>4, <1>6, SoundKept DEF PolicyIInv
  <1> QED  BY <1>4, <1>5, <1>6, <1>7, OthersSound

(* A handler takes a slot with a copy of a row, and does not publish.      *)
LEMMA TakesCopy ==
  ASSUME PolicyIInv, NEW p \in Procs, NEW x \in PolicyCalls, PolicyCopyOK(x), x.pc \in {"policy", "version", "seed"},
         call[p] = NoCall, call' = [call EXCEPT ![p] = x], UNCHANGED policyVars
  PROVE  PolicyIInv'
  <1>1. policy' = policy /\ version' = version /\ accepted' = accepted /\ policyOdd' = policyOdd /\ PolicyTyped
    BY DEF policyVars, PolicyIInv
  <1>2. call' \in [Procs -> PolicyCalls \cup {NoCall}] /\ call'[p] = x
        /\ \A q \in Procs \ {p} : call'[q] = call[q]
    BY <1>1, SlotTakes
  <1>3. PolicyTyped'
    BY <1>1, <1>2 DEF PolicyTyped, PoliciesTypeOK, PolicyCopyOK
  <1>4. \A j : ~InPub(p, j) /\ ~InPub(p, j)'
    BY <1>2 DEF InPub
  <1>5. ASSUME NEW j \in PolicyKeys, j \notin policyOdd'
        PROVE  PolicySound(j)'
    <2>1. PolicySound(j)
      BY <1>1, <1>5 DEF PolicyIInv
    <2> QED  BY <1>1, <1>2, <1>4, <2>1, SoundKept
  <1> QED  BY <1>3, <1>5 DEF PolicyIInv

LEMMA UpdatePolicyIInv ==
  ASSUME PolicyIInv, NEW p \in Procs, NEW k \in PolicyKeys, NEW b \in BOOLEAN, UpdatePolicy(p, k, b) PROVE PolicyIInv'
  <1>1. policy[k] \in PolicyRow
    BY DEF PolicyIInv, PolicyTyped, PoliciesTypeOK
  <1>2. PICK r \in PolicyRow : r = [policy[k] EXCEPT !.active = b]
    BY <1>1 DEF PolicyRow
  <1>3. r.current = policy[k].current
    BY <1>1, <1>2 DEF PolicyRow
  <1>4. PICK x \in PolicyCalls : x = [pc |-> "policy", key |-> k, row |-> r, read |-> policy[k]]
    BY <1>1 DEF PolicyCalls
  <1>5. x.pc = "policy" /\ PolicyCopyOK(x)
    BY <1>3, <1>4 DEF PolicyCopyOK
  <1>6. call[p] = NoCall /\ call' = [call EXCEPT ![p] = x] /\ UNCHANGED policyVars
    BY <1>2, <1>4 DEF UpdatePolicy, Begin
  <1> QED  BY <1>5, <1>6, TakesCopy

LEMMA UpdateVersionIInv ==
  ASSUME PolicyIInv, NEW p \in Procs, NEW k \in PolicyKeys, NEW n \in Numbers, NEW t \in Texts,
         UpdateVersion(p, k, n, t)
  PROVE  PolicyIInv'
  <1>1. version[k][n] \in VersionRow /\ version[k][n].status = "draft"
    BY DEF PolicyIInv, PolicyTyped, PoliciesTypeOK, UpdateVersion
  <1>2. PICK r \in VersionRow : r = [version[k][n] EXCEPT !.text = t]
    BY <1>1 DEF VersionRow
  <1>3. r.status = "draft"
    BY <1>1, <1>2 DEF VersionRow
  <1>4. PICK x \in PolicyCalls :
          x = [pc |-> "version", key |-> k, number |-> n, read |-> version[k][n], row |-> r]
    BY <1>1 DEF PolicyCalls
  <1>5. x.pc = "version" /\ PolicyCopyOK(x)
    BY <1>1, <1>3, <1>4 DEF PolicyCopyOK
  <1>6. call[p] = NoCall /\ call' = [call EXCEPT ![p] = x] /\ UNCHANGED policyVars
    BY <1>2, <1>4 DEF UpdateVersion, Begin
  <1> QED  BY <1>5, <1>6, TakesCopy

LEMMA SavePolicyIInv == ASSUME PolicyIInv, NEW p \in Procs, SavePolicy(p) PROVE PolicyIInv'
  <1>1. PolicyTyped /\ call[p] # NoCall /\ call[p].pc = "policy"
    BY DEF PolicyIInv, SavePolicy, At
  <1>2. PICK k \in PolicyKeys : k = call[p].key
    BY <1>1, PolicyCallFields
  <1>3. PICK r \in PolicyRow : r = call[p].row /\ r.current = call[p].read.current
    BY <1>1, PolicyCallFields DEF PolicyCopyOK
  <1>4. policy' = [policy EXCEPT ![k] = r] /\ call' = [call EXCEPT ![p] = NoCall]
        /\ version' = version /\ accepted' = accepted
        /\ policyOdd' = policyOdd \cup {j \in {k} : policy[k] # call[p].read}
    BY <1>2, <1>3 DEF SavePolicy, End, GotoState, Odd
  <1>5. call' \in [Procs -> PolicyCalls \cup {NoCall}] /\ call'[p] = NoCall
        /\ \A q \in Procs \ {p} : call'[q] = call[q]
    BY <1>1, <1>4, SlotFreed
  <1>6. policy' \in [PolicyKeys -> PolicyRow] /\ policy'[k] = r
        /\ \A j \in PolicyKeys \ {k} : policy'[j] = policy[j]
    BY <1>1, <1>4, PolicyBecomes
  <1>7. PolicyTyped'
    BY <1>1, <1>4, <1>5, <1>6 DEF PolicyTyped, PoliciesTypeOK
  <1>8. \A j : ~InPub(p, j) /\ ~InPub(p, j)'
    BY <1>1, <1>5 DEF InPub
  <1>9. ASSUME k \notin policyOdd'
        PROVE  PolicySound(k)'
    <2>1. k \notin policyOdd /\ policy[k] = call[p].read
      BY <1>4, <1>9
    <2>2. PolicySound(k) /\ policy'[k].current = policy[k].current
      BY <1>3, <1>6, <2>1 DEF PolicyIInv
    <2> QED  BY <1>1, <1>4, <1>5, <1>8, <2>2, SoundKept
  <1> QED  BY <1>4, <1>5, <1>6, <1>7, <1>8, <1>9, OthersSound

LEMMA CreateVersionIInv ==
  ASSUME PolicyIInv, NEW k \in PolicyKeys, NEW t \in Texts, NEW r \in BOOLEAN, CreateVersion(k, t, r) PROVE PolicyIInv'
  <1>1. PICK n \in Fresh(k) :
          version' = [version EXCEPT ![k][n] = [status |-> "draft", text |-> t, reconsent |-> r]]
    BY DEF CreateVersion
  <1>2. PICK row \in VersionRow : row = [status |-> "draft", text |-> t, reconsent |-> r]
    BY DEF VersionRow
  <1>3. n \in Numbers /\ version[k][n].status \notin PolicyOut /\ row.status \notin PolicyOut
    BY <1>2 DEF Fresh, PolicyOut
  <1>4. call' = call /\ policy' = policy /\ accepted' = accepted /\ policyOdd' = policyOdd /\ PolicyTyped
    BY DEF CreateVersion, OneStep, PolicyIInv
  <1>5. version' \in [PolicyKeys -> [Numbers -> VersionRow]]
        /\ version'[k][n] = row /\ (\A m \in Numbers \ {n} : version'[k][m] = version[k][m])
        /\ \A j \in PolicyKeys \ {k} : version'[j] = version[j]
    BY <1>1, <1>2, <1>3, <1>4, RowBecomes
  <1>6. PolicyTyped'
    BY <1>4, <1>5 DEF PolicyTyped, PoliciesTypeOK
  <1>7. k \notin policyOdd' => PolicySound(k)'
    BY <1>3, <1>4, <1>5, SoundKept DEF PolicyIInv
  <1> QED  BY <1>4, <1>5, <1>6, <1>7, OthersSound

LEMMA SaveVersionIInv == ASSUME PolicyIInv, NEW p \in Procs, SaveVersion(p) PROVE PolicyIInv'
  <1>1. PolicyTyped /\ call[p] # NoCall /\ call[p].pc = "version"
    BY DEF PolicyIInv, SaveVersion, At
  <1>2. PICK k \in PolicyKeys, n \in Numbers : k = call[p].key /\ n = call[p].number
    BY <1>1, PolicyCallFields
  <1>3. PICK row \in VersionRow : row = call[p].row /\ row.status = "draft" /\ call[p].read.status = "draft"
    BY <1>1, PolicyCallFields DEF PolicyCopyOK
  <1>4. version' = [version EXCEPT ![k][n] = row] /\ call' = [call EXCEPT ![p] = NoCall]
        /\ policy' = policy /\ accepted' = accepted
        /\ policyOdd' = policyOdd \cup {j \in {k} : version[k][n] # call[p].read}
    BY <1>2, <1>3 DEF SaveVersion, End, GotoState, Odd
  <1>5. call' \in [Procs -> PolicyCalls \cup {NoCall}] /\ call'[p] = NoCall
        /\ \A q \in Procs \ {p} : call'[q] = call[q]
    BY <1>1, <1>4, SlotFreed
  <1>6. version' \in [PolicyKeys -> [Numbers -> VersionRow]]
        /\ version'[k][n] = row /\ (\A m \in Numbers \ {n} : version'[k][m] = version[k][m])
        /\ \A j \in PolicyKeys \ {k} : version'[j] = version[j]
    BY <1>1, <1>4, RowBecomes
  <1>7. PolicyTyped'
    BY <1>1, <1>4, <1>5, <1>6 DEF PolicyTyped, PoliciesTypeOK
  <1>8. \A j : ~InPub(p, j) /\ ~InPub(p, j)'
    BY <1>1, <1>5 DEF InPub
  <1>9. ASSUME k \notin policyOdd'
        PROVE  PolicySound(k)'
    <2>1. k \notin policyOdd /\ version[k][n] = call[p].read
      BY <1>4, <1>9
    <2>2. PolicySound(k) /\ version[k][n].status \notin PolicyOut /\ version'[k][n].status \notin PolicyOut
      BY <1>3, <1>6, <2>1 DEF PolicyIInv, PolicyOut
    <2> QED  BY <1>1, <1>4, <1>5, <1>6, <1>8, <2>2, SoundKept
  <1> QED  BY <1>4, <1>5, <1>6, <1>7, <1>8, <1>9, OthersSound

LEMMA AcceptIInv == ASSUME PolicyIInv, NEW u \in Readers, NEW k \in PolicyKeys, Accept(u, k) PROVE PolicyIInv'
  <1>1. PolicyTyped /\ policy[k].current \in Numbers
    BY PolicyConstantsOK DEF PolicyIInv, PolicyTyped, PoliciesTypeOK, PolicyRow, Numbers, Accept
  <1>2. PICK n \in Numbers : n = policy[k].current
    BY <1>1
  <1>3. PICK t \in Texts : t = version[k][n].text
    BY <1>1 DEF PolicyTyped, PoliciesTypeOK, VersionRow
  <1>4. PICK b \in Acceptance : b = [user |-> u, key |-> k, number |-> n, text |-> t]
    BY DEF Acceptance
  <1>5. call' = call /\ policy' = policy /\ version' = version /\ policyOdd' = policyOdd
        /\ accepted' = accepted \cup {b}
    BY <1>2, <1>3, <1>4 DEF Accept, OneStep
  <1>6. PolicyTyped'
    BY <1>1, <1>5 DEF PolicyTyped, PoliciesTypeOK
  <1>7. ASSUME k \notin policyOdd'
        PROVE  PolicySound(k)'
    <2>1. PolicySound(k)
      BY <1>5, <1>7 DEF PolicyIInv
    <2>2. version[k][n].status \in PolicyOut /\ n # 0
      BY <1>1, <1>2, <2>1, PolicyConstantsOK DEF PolicySound, Numbers
    <2>3. \A a \in accepted' : a.key = k =>
            version'[k][a.number].status \in PolicyOut /\ version'[k][a.number].text = a.text
      BY <1>3, <1>4, <1>5, <2>1, <2>2 DEF PolicySound
    <2>4. \A p \in Procs : (InPub(p, k)' <=> InPub(p, k)) /\ (Explains(p, k)' <=> Explains(p, k))
      BY <1>5 DEF InPub, Explains, ServedIs
    <2>5. (\A p \in Procs : ~InPub(p, k)') => ServedIs(k, policy[k].current)'
      BY <1>5, <2>1, <2>4 DEF PolicySound, ServedIs
    <2> QED  BY <1>5, <2>1, <2>3, <2>4, <2>5 DEF PolicySound
  <1>8. \A a \in accepted' : a \in accepted \/ a.key = k
    BY <1>4, <1>5
  <1> QED  BY <1>5, <1>6, <1>7, <1>8, OthersSound

LEMMA PolicyHandlerDiesIInv == ASSUME PolicyIInv, NEW p \in Procs, PolicyHandlerDies(p) PROVE PolicyIInv'
  <1>1. PolicyTyped /\ call[p] # NoCall
    BY DEF PolicyIInv, PolicyHandlerDies, Dies
  <1>2. PICK k \in PolicyKeys : k = call[p].key
    BY <1>1, PolicyCallFields
  <1>3. call' = [call EXCEPT ![p] = NoCall] /\ policy' = policy /\ version' = version /\ accepted' = accepted
        /\ policyOdd' = policyOdd \cup {k}
    BY <1>2 DEF PolicyHandlerDies, Dies, Odd
  <1>4. call' \in [Procs -> PolicyCalls \cup {NoCall}] /\ call'[p] = NoCall
        /\ \A q \in Procs \ {p} : call'[q] = call[q]
    BY <1>1, <1>3, SlotFreed
  <1>5. PolicyTyped'
    BY <1>1, <1>3, <1>4 DEF PolicyTyped, PoliciesTypeOK
  <1>6. \A j \in PolicyKeys \ {k} : ~InPub(p, j) /\ ~InPub(p, j)'
    BY <1>2, <1>4 DEF InPub
  <1> QED  BY <1>3, <1>4, <1>5, <1>6, OthersSound

-----------------------------------------------------------------------------
(* A handler becomes the one that publishes policy k.                      *)
LEMMA StartsPublishing ==
  ASSUME PolicyIInv, NEW p \in Procs, NEW k \in PolicyKeys, NEW x \in PolicyCalls,
         x.pc = "archive", x.key = k, PolicyCopyOK(x), \A j \in PolicyKeys : ~InPub(p, j),
         call' = [call EXCEPT ![p] = x], policy' = policy, accepted' = accepted,
         version' \in [PolicyKeys -> [Numbers -> VersionRow]],
         \A j \in PolicyKeys \ {k} : version'[j] = version[j],
         \A n \in Numbers : \/ version'[k][n] = version[k][n]
                            \/ (version[k][n].status \notin PolicyOut /\ version'[k][n].status \notin PolicyOut),
         policyOdd' = policyOdd \cup {j \in {k} : Publishing(k) # {}}
  PROVE  PolicyIInv'
  <1>1. PolicyTyped
    BY DEF PolicyIInv
  <1>2. call' \in [Procs -> PolicyCalls \cup {NoCall}] /\ call'[p] = x /\ x # NoCall
        /\ \A q \in Procs \ {p} : call'[q] = call[q]
    BY <1>1, SlotTakes
  <1>3. PolicyTyped'
    BY <1>1, <1>2 DEF PolicyTyped, PoliciesTypeOK, PolicyCopyOK
  <1>4. ASSUME k \notin policyOdd'
        PROVE  PolicySound(k)'
    <2>1. PolicySound(k) /\ Publishing(k) = {}
      BY <1>4 DEF PolicyIInv
    <2>2. \A q \in Procs : ~InPub(q, k)
      BY <2>1 DEF InPub, Publishing, InFlight, At
    <2>3. \A q \in Procs : InPub(q, k)' <=> q = p
      BY <1>2, <2>2 DEF InPub
    <2>4. \A n \in Numbers : version'[k][n].status = "published" <=> version[k][n].status = "published"
      BY DEF PolicyOut
    <2>5. ServedIs(k, policy[k].current)'
      BY <2>1, <2>2, <2>4 DEF PolicySound, ServedIs
    <2>6. Explains(p, k)'
      BY <1>2, <2>5 DEF Explains
    <2>7. policy[k].current # 0 => policy[k].current \in Numbers
      BY <1>1, PolicyConstantsOK DEF PolicyTyped, PoliciesTypeOK, PolicyRow, Numbers
    <2>8. policy'[k].current # 0 => version'[k][policy'[k].current].status \in PolicyOut
      BY <2>1, <2>7 DEF PolicySound
    <2>9. \A a \in accepted' : a.key = k =>
            version'[k][a.number].status \in PolicyOut /\ version'[k][a.number].text = a.text
      <3>1. \A a \in accepted : a.number \in Numbers
        BY <1>1 DEF PolicyTyped, PoliciesTypeOK, Acceptance
      <3> QED  BY <2>1, <3>1 DEF PolicySound
    <2> QED  BY <2>3, <2>6, <2>8, <2>9 DEF PolicySound
  <1>5. \A j \in PolicyKeys \ {k} : ~InPub(p, j) /\ ~InPub(p, j)'
    BY <1>2 DEF InPub
  <1> QED  BY <1>2, <1>3, <1>4, <1>5, OthersSound

LEMMA PublishVersionIInv ==
  ASSUME PolicyIInv, NEW p \in Procs, NEW k \in PolicyKeys, NEW n \in Numbers, PublishVersion(p, k, n) PROVE PolicyIInv'
  <1>1. policy[k] \in PolicyRow /\ version[k][n] \in VersionRow
        /\ version \in [PolicyKeys -> [Numbers -> VersionRow]]
    BY DEF PolicyIInv, PolicyTyped, PoliciesTypeOK
  <1>2. PICK x \in PolicyCalls : x = ToPublish(k, n)
    BY <1>1 DEF ToPublish, PolicyCalls
  <1>3. x.pc = "archive" /\ x.key = k /\ PolicyCopyOK(x)
    BY <1>2 DEF ToPublish, PolicyCopyOK, PublishVersion
  <1>4. call[p] = NoCall /\ call' = [call EXCEPT ![p] = x]
        /\ policy' = policy /\ version' = version /\ accepted' = accepted
        /\ policyOdd' = policyOdd \cup {j \in {k} : Publishing(k) # {}}
    BY <1>2 DEF PublishVersion, Begin, Odd
  <1>5. \A j \in PolicyKeys : ~InPub(p, j)
    BY <1>4 DEF InPub
  <1> QED  BY <1>1, <1>3, <1>4, <1>5, StartsPublishing

LEMMA SeedPolicyIInv == ASSUME PolicyIInv, NEW p \in Procs, NEW k \in PolicyKeys, SeedPolicy(p, k) PROVE PolicyIInv'
  <1>1. PolicyTyped /\ policy[k] \in PolicyRow
    BY DEF PolicyIInv, PolicyTyped, PoliciesTypeOK
  <1>2. PICK r \in PolicyRow : r = [policy[k] EXCEPT !.exists = TRUE]
    BY <1>1 DEF PolicyRow
  <1>3. r.current = policy[k].current /\ policy' = [policy EXCEPT ![k] = r]
    BY <1>1, <1>2 DEF PolicyRow, SeedPolicy
  <1>4. PICK x \in PolicyCalls : x = [pc |-> "seed", key |-> k]
    BY DEF PolicyCalls
  <1>5. PolicyCopyOK(x) /\ x.pc = "seed"
    BY <1>4 DEF PolicyCopyOK
  <1>6. call[p] = NoCall /\ call' = [call EXCEPT ![p] = x]
        /\ version' = version /\ accepted' = accepted /\ policyOdd' = policyOdd
    BY <1>4 DEF SeedPolicy, Begin
  <1>7. call' \in [Procs -> PolicyCalls \cup {NoCall}] /\ call'[p] = x
        /\ \A q \in Procs \ {p} : call'[q] = call[q]
    BY <1>1, <1>6, SlotTakes
  <1>8. policy' \in [PolicyKeys -> PolicyRow] /\ policy'[k] = r
        /\ \A j \in PolicyKeys \ {k} : policy'[j] = policy[j]
    BY <1>1, <1>3, PolicyBecomes
  <1>9. PolicyTyped'
    BY <1>1, <1>5, <1>6, <1>7, <1>8 DEF PolicyTyped, PoliciesTypeOK, PolicyCopyOK
  <1>10. \A j : ~InPub(p, j) /\ ~InPub(p, j)'
    BY <1>5, <1>6, <1>7 DEF InPub
  <1>11. k \notin policyOdd' => PolicySound(k)'
    BY <1>1, <1>3, <1>6, <1>7, <1>8, <1>10, SoundKept DEF PolicyIInv
  <1> QED  BY <1>6, <1>7, <1>8, <1>9, <1>10, <1>11, OthersSound

LEMMA SeedVersionIInv == ASSUME PolicyIInv, NEW p \in Procs, NEW t \in Texts, SeedVersion(p, t) PROVE PolicyIInv'
  <1>1. PolicyTyped /\ call[p] # NoCall /\ call[p].pc = "seed"
    BY DEF PolicyIInv, SeedVersion, At
  <1>2. PICK k \in PolicyKeys : k = call[p].key
    BY <1>1, PolicyCallFields
  <1>3. PICK row \in VersionRow : row = [status |-> "draft", text |-> t, reconsent |-> FALSE]
    BY DEF VersionRow
  <1>4. PICK n \in Fresh(k) : /\ version' = [version EXCEPT ![k][n] = row]
                              /\ GotoState(p, [ToPublish(k, n) EXCEPT !.version = row])
                              /\ Odd(k, Publishing(k) # {})
    BY <1>2, <1>3 DEF SeedVersion
  <1>5. n \in Numbers /\ version[k][n].status \notin PolicyOut /\ row.status = "draft"
    BY <1>3 DEF Fresh, PolicyOut
  <1>6. PICK x \in PolicyCalls :
          x = [pc |-> "archive", key |-> k, number |-> n, policy |-> policy[k], version |-> row]
    BY <1>1, <1>5 DEF PolicyTyped, PoliciesTypeOK, PolicyCalls
  <1>7. x = [ToPublish(k, n) EXCEPT !.version = row]
    BY <1>6 DEF ToPublish
  <1>8. x.pc = "archive" /\ x.key = k /\ PolicyCopyOK(x)
    BY <1>5, <1>6 DEF PolicyCopyOK
  <1>9. call' = [call EXCEPT ![p] = x] /\ policy' = policy /\ accepted' = accepted
        /\ policyOdd' = policyOdd \cup {j \in {k} : Publishing(k) # {}}
    BY <1>4, <1>7 DEF SeedVersion, GotoState, Odd
  <1>10. \A j \in PolicyKeys : ~InPub(p, j)
    BY <1>1 DEF InPub
  <1>11. version' \in [PolicyKeys -> [Numbers -> VersionRow]]
         /\ version'[k][n] = row /\ (\A m \in Numbers \ {n} : version'[k][m] = version[k][m])
         /\ \A j \in PolicyKeys \ {k} : version'[j] = version[j]
    BY <1>1, <1>4, <1>5, RowBecomes
  <1>12. \A m \in Numbers : \/ version'[k][m] = version[k][m]
                            \/ (version[k][m].status \notin PolicyOut /\ version'[k][m].status \notin PolicyOut)
    BY <1>5, <1>11 DEF PolicyOut
  <1> QED  BY <1>8, <1>9, <1>10, <1>11, <1>12, StartsPublishing

-----------------------------------------------------------------------------
(* A publication goes on to its next save.                                 *)
LEMMA GoesOn ==
  ASSUME PolicyTyped, NEW p \in Procs, call[p] # NoCall, call[p].pc \in {"archive", "publish"},
         NEW pc \in {"publish", "serve"}, Goto(p, pc)
  PROVE  LET c == call[p] IN
         /\ call' \in [Procs -> PolicyCalls \cup {NoCall}]
         /\ call'[p] # NoCall /\ call'[p].pc = pc /\ call'[p].key = c.key /\ call'[p].number = c.number
         /\ PolicyCopyOK(call'[p])
         /\ \A q \in Procs \ {p} : call'[q] = call[q]
  <1> DEFINE Publication == [pc : {"archive", "publish", "serve"}, key : PolicyKeys, number : Numbers,
                             policy : PolicyRow, version : VersionRow]
  <1>1. call[p] \in Publication /\ PolicyCopyOK(call[p])
    BY PolicyCallFields
  <1>2. PICK x \in Publication : x = [call[p] EXCEPT !.pc = pc]
    BY <1>1
  <1>3. x.pc = pc /\ x.key = call[p].key /\ x.number = call[p].number /\ x.version = call[p].version
    BY <1>1, <1>2
  <1>4. x \in PolicyCalls
    BY DEF PolicyCalls
  <1>5. PolicyCopyOK(x)
    BY <1>1, <1>3 DEF PolicyCopyOK
  <1> HIDE DEF Publication
  <1>6. call' = [call EXCEPT ![p] = x]
    BY <1>2 DEF Goto, GotoState
  <1> QED  BY <1>3, <1>4, <1>5, <1>6, SlotTakes

LEMMA ArchivePublishedIInv == ASSUME PolicyIInv, NEW p \in Procs, ArchivePublished(p) PROVE PolicyIInv'
  <1>1. PolicyTyped /\ call[p] # NoCall /\ call[p].pc = "archive" /\ Goto(p, "publish")
        /\ policy' = policy /\ accepted' = accepted /\ policyOdd' = policyOdd
    BY DEF PolicyIInv, ArchivePublished, At
  <1>2. PICK k \in PolicyKeys : k = call[p].key
    BY <1>1, PolicyCallFields
  <1>3. version \in [PolicyKeys -> [Numbers -> VersionRow]]
    BY <1>1 DEF PolicyTyped, PoliciesTypeOK
  <1>4. ASSUME NEW n \in Numbers
        PROVE  [version[k][n] EXCEPT !.status = "archived"] \in VersionRow
               /\ [version[k][n] EXCEPT !.status = "archived"].status = "archived"
               /\ [version[k][n] EXCEPT !.status = "archived"].text = version[k][n].text
    BY <1>3 DEF VersionRow
  <1> DEFINE row(n) == IF version[k][n].status = "published"
                         THEN [version[k][n] EXCEPT !.status = "archived"] ELSE version[k][n]
  <1>5. \A n \in Numbers :
          /\ row(n) \in VersionRow /\ row(n).status # "published" /\ row(n).text = version[k][n].text
          /\ version[k][n].status \in PolicyOut => row(n).status \in PolicyOut
    BY <1>3, <1>4 DEF PolicyOut
  <1>6. version' = [version EXCEPT ![k] = [n \in Numbers |-> row(n)]]
    BY <1>2 DEF ArchivePublished
  <1> HIDE DEF row
  <1>7. version' \in [PolicyKeys -> [Numbers -> VersionRow]] /\ (\A n \in Numbers : version'[k][n] = row(n))
        /\ \A j \in PolicyKeys \ {k} : version'[j] = version[j]
    BY <1>3, <1>5, <1>6
  <1>8. call' \in [Procs -> PolicyCalls \cup {NoCall}] /\ call'[p] # NoCall /\ call'[p].pc = "publish"
        /\ call'[p].key = k /\ PolicyCopyOK(call'[p]) /\ \A q \in Procs \ {p} : call'[q] = call[q]
    BY <1>1, <1>2, GoesOn
  <1>9. PolicyTyped'
    BY <1>1, <1>7, <1>8 DEF PolicyTyped, PoliciesTypeOK
  <1>10. ASSUME k \notin policyOdd'
         PROVE  PolicySound(k)'
    <2>1. PolicySound(k)
      BY <1>1, <1>10 DEF PolicyIInv
    <2>2. \A q \in Procs : InPub(q, k)' <=> q = p
      BY <1>1, <1>2, <1>8, <2>1 DEF InPub, PolicySound
    <2>3. Explains(p, k)'
      BY <1>5, <1>7, <1>8 DEF Explains
    <2>4. \A a \in accepted' : a.key = k =>
            version'[k][a.number].status \in PolicyOut /\ version'[k][a.number].text = a.text
      <3>1. \A a \in accepted : a.number \in Numbers
        BY <1>1 DEF PolicyTyped, PoliciesTypeOK, Acceptance
      <3> QED  BY <1>1, <1>5, <1>7, <2>1, <3>1 DEF PolicySound
    <2>5. policy'[k].current # 0 => version'[k][policy'[k].current].status \in PolicyOut
      <3>1. policy[k].current # 0 => policy[k].current \in Numbers
        BY <1>1, PolicyConstantsOK DEF PolicyTyped, PoliciesTypeOK, PolicyRow, Numbers
      <3> QED  BY <1>1, <1>5, <1>7, <2>1, <3>1 DEF PolicySound
    <2> QED  BY <2>2, <2>3, <2>4, <2>5 DEF PolicySound
  <1>11. \A j \in PolicyKeys \ {k} : ~InPub(p, j) /\ ~InPub(p, j)'
    BY <1>2, <1>8 DEF InPub
  <1> QED  BY <1>1, <1>7, <1>8, <1>9, <1>10, <1>11, OthersSound

LEMMA SavePublishedIInv == ASSUME PolicyIInv, NEW p \in Procs, SavePublished(p) PROVE PolicyIInv'
  <1>1. PolicyTyped /\ call[p] # NoCall /\ call[p].pc = "publish" /\ Goto(p, "serve")
        /\ policy' = policy /\ accepted' = accepted
    BY DEF PolicyIInv, SavePublished, At
  <1>2. PICK k \in PolicyKeys, n \in Numbers : k = call[p].key /\ n = call[p].number
    BY <1>1, PolicyCallFields
  <1>3. call[p].version \in VersionRow
    BY <1>1, PolicyCallFields
  <1>4. PICK r \in VersionRow : r = [call[p].version EXCEPT !.status = "published"]
    BY <1>3 DEF VersionRow
  <1>5. r.status = "published" /\ r.text = call[p].version.text
    BY <1>3, <1>4 DEF VersionRow
  <1>6. version' = [version EXCEPT ![k][n] = r]
        /\ policyOdd' = policyOdd \cup {j \in {k} : version[k][n] # call[p].version}
    BY <1>2, <1>4 DEF SavePublished, Odd
  <1>7. version' \in [PolicyKeys -> [Numbers -> VersionRow]]
        /\ version'[k][n] = r /\ (\A m \in Numbers \ {n} : version'[k][m] = version[k][m])
        /\ \A j \in PolicyKeys \ {k} : version'[j] = version[j]
    BY <1>1, <1>6, RowBecomes
  <1>8. call' \in [Procs -> PolicyCalls \cup {NoCall}] /\ call'[p] # NoCall /\ call'[p].pc = "serve"
        /\ call'[p].key = k /\ call'[p].number = n
        /\ PolicyCopyOK(call'[p]) /\ \A q \in Procs \ {p} : call'[q] = call[q]
    BY <1>1, <1>2, GoesOn
  <1>9. PolicyTyped'
    BY <1>1, <1>6, <1>7, <1>8 DEF PolicyTyped, PoliciesTypeOK
  <1>10. ASSUME k \notin policyOdd'
         PROVE  PolicySound(k)'
    <2>1. PolicySound(k) /\ version[k][n] = call[p].version
      BY <1>6, <1>10 DEF PolicyIInv
    <2>2. \A q \in Procs : InPub(q, k)' <=> q = p
      BY <1>1, <1>2, <1>8, <2>1 DEF InPub, PolicySound
    <2>3. \A m \in Numbers : version[k][m].status # "published"
      BY <1>1, <1>2, <2>1 DEF PolicySound, Explains, InPub
    <2>4. Explains(p, k)'
      BY <1>5, <1>7, <1>8, <2>3 DEF Explains, ServedIs
    <2>5. \A m \in Numbers : /\ version'[k][m].text = version[k][m].text
                             /\ version[k][m].status \in PolicyOut => version'[k][m].status \in PolicyOut
      BY <1>5, <1>7, <2>1 DEF PolicyOut
    <2>6. \A a \in accepted' : a.key = k =>
            version'[k][a.number].status \in PolicyOut /\ version'[k][a.number].text = a.text
      <3>1. \A a \in accepted : a.number \in Numbers
        BY <1>1 DEF PolicyTyped, PoliciesTypeOK, Acceptance
      <3> QED  BY <1>1, <2>1, <2>5, <3>1 DEF PolicySound
    <2>7. policy'[k].current # 0 => version'[k][policy'[k].current].status \in PolicyOut
      <3>1. policy[k].current # 0 => policy[k].current \in Numbers
        BY <1>1, PolicyConstantsOK DEF PolicyTyped, PoliciesTypeOK, PolicyRow, Numbers
      <3> QED  BY <1>1, <2>1, <2>5, <3>1 DEF PolicySound
    <2> QED  BY <2>2, <2>4, <2>6, <2>7 DEF PolicySound
  <1>11. \A j \in PolicyKeys \ {k} : ~InPub(p, j) /\ ~InPub(p, j)'
    BY <1>2, <1>8 DEF InPub
  <1> QED  BY <1>1, <1>6, <1>7, <1>8, <1>9, <1>10, <1>11, OthersSound

LEMMA ServePublishedIInv == ASSUME PolicyIInv, NEW p \in Procs, ServePublished(p) PROVE PolicyIInv'
  <1>1. PolicyTyped /\ call[p] # NoCall /\ call[p].pc = "serve"
        /\ call' = [call EXCEPT ![p] = NoCall] /\ version' = version /\ accepted' = accepted
    BY DEF PolicyIInv, ServePublished, At, End, GotoState
  <1>2. PICK k \in PolicyKeys, n \in Numbers : k = call[p].key /\ n = call[p].number
    BY <1>1, PolicyCallFields
  <1>3. call[p].policy \in PolicyRow
    BY <1>1, PolicyCallFields
  <1>n. n \in 0..MaxVersions
    BY PolicyConstantsOK DEF Numbers
  <1>4. PICK r \in PolicyRow : r = [call[p].policy EXCEPT !.current = n]
    BY <1>n, <1>3 DEF PolicyRow
  <1>5. r.current = n
    BY <1>3, <1>4 DEF PolicyRow
  <1>6. policy' = [policy EXCEPT ![k] = r]
        /\ policyOdd' = policyOdd \cup {j \in {k} : policy[k] # call[p].policy}
    BY <1>2, <1>4 DEF ServePublished, Odd
  <1>7. policy' \in [PolicyKeys -> PolicyRow] /\ policy'[k] = r
        /\ \A j \in PolicyKeys \ {k} : policy'[j] = policy[j]
    BY <1>1, <1>6, PolicyBecomes
  <1>8. call' \in [Procs -> PolicyCalls \cup {NoCall}] /\ call'[p] = NoCall
        /\ \A q \in Procs \ {p} : call'[q] = call[q]
    BY <1>1, SlotFreed
  <1>9. PolicyTyped'
    BY <1>1, <1>6, <1>7, <1>8 DEF PolicyTyped, PoliciesTypeOK
  <1>10. ASSUME k \notin policyOdd'
         PROVE  PolicySound(k)'
    <2>1. PolicySound(k)
      BY <1>6, <1>10 DEF PolicyIInv
    <2>2. \A q \in Procs : ~InPub(q, k)'
      BY <1>1, <1>2, <1>8, <2>1 DEF InPub, PolicySound
    <2>3. ServedIs(k, n)
      BY <1>1, <1>2, <2>1 DEF PolicySound, Explains, InPub
    <2>4. ServedIs(k, policy[k].current)'
      BY <1>1, <1>5, <1>7, <2>3 DEF ServedIs
    <2>5. version[k][n].status = "published"
      BY <2>3 DEF ServedIs
    <2> QED  BY <1>1, <1>5, <1>7, <2>1, <2>2, <2>4, <2>5 DEF PolicySound, PolicyOut
  <1>11. \A j \in PolicyKeys \ {k} : ~InPub(p, j) /\ ~InPub(p, j)'
    BY <1>2, <1>8 DEF InPub
  <1> QED  BY <1>1, <1>6, <1>7, <1>8, <1>9, <1>10, <1>11, OthersSound

-----------------------------------------------------------------------------
LEMMA PoliciesNextIInv == PolicyIInv /\ [PoliciesNext]_<<policyVars, requestVars>> => PolicyIInv'
  <1> SUFFICES ASSUME PolicyIInv, [PoliciesNext]_<<policyVars, requestVars>>
               PROVE  PolicyIInv'
    OBVIOUS
  <1>1. ASSUME NEW k \in PolicyKeys,
               CreatePolicy(k) \/ (\E t \in Texts, r \in BOOLEAN : CreateVersion(k, t, r))
                 \/ (\E u \in Readers : Accept(u, k))
        PROVE  PolicyIInv'
    BY <1>1, CreatePolicyIInv, CreateVersionIInv, AcceptIInv
  <1>2. ASSUME NEW k \in PolicyKeys, NEW p \in Procs,
               SeedPolicy(p, k) \/ (\E b \in BOOLEAN : UpdatePolicy(p, k, b))
        PROVE  PolicyIInv'
    BY <1>2, SeedPolicyIInv, UpdatePolicyIInv
  <1>3. ASSUME NEW k \in PolicyKeys, NEW p \in Procs, NEW n \in Numbers,
               PublishVersion(p, k, n) \/ (\E t \in Texts : UpdateVersion(p, k, n, t))
        PROVE  PolicyIInv'
    BY <1>3, PublishVersionIInv, UpdateVersionIInv
  <1>4. ASSUME NEW p \in Procs, SavePolicy(p) \/ SaveVersion(p) \/ PolicyHandlerDies(p)
        PROVE  PolicyIInv'
    BY <1>4, SavePolicyIInv, SaveVersionIInv, PolicyHandlerDiesIInv
  <1>5. ASSUME NEW p \in Procs, ArchivePublished(p) \/ SavePublished(p) \/ ServePublished(p)
        PROVE  PolicyIInv'
    BY <1>5, ArchivePublishedIInv, SavePublishedIInv, ServePublishedIInv
  <1>6. ASSUME NEW p \in Procs, NEW t \in Texts, SeedVersion(p, t)
        PROVE  PolicyIInv'
    BY <1>6, SeedVersionIInv
  <1>7. CASE UNCHANGED <<policyVars, requestVars>>
    BY <1>7 DEF PolicyIInv, PolicyTyped, PoliciesTypeOK, PolicySound, InPub, Explains, ServedIs, policyVars, requestVars
  <1> QED  BY <1>1, <1>2, <1>3, <1>4, <1>5, <1>6, <1>7 DEF PoliciesNext

(* A version that somebody accepted keeps the text that was accepted, and  *)
(* with no publication under way exactly the version the policy points at  *)
(* is published, on every policy where no two handlers crossed and none    *)
(* died; for any number of policies, versions, readers and handlers.       *)
THEOREM Consent == PoliciesSpec => []ConsentResolves
  <1>1. PolicyIInv => ConsentResolves
    <2> SUFFICES ASSUME PolicyIInv
                 PROVE  ConsentResolves
      OBVIOUS
    <2>1. ASSUME NEW a \in accepted, a.key \notin policyOdd
          PROVE  version[a.key][a.number].text = a.text
      <3>1. a.key \in PolicyKeys
        BY DEF PolicyIInv, PolicyTyped, PoliciesTypeOK, Acceptance
      <3> QED  BY <2>1, <3>1 DEF PolicyIInv, PolicySound
    <2>2. ASSUME NEW k \in PolicyKeys \ policyOdd, Publishing(k) = {}
          PROVE  ServedIs(k, policy[k].current)
      <3>1. \A p \in Procs : ~InPub(p, k)
        BY <2>2 DEF InPub, Publishing, InFlight, At
      <3> QED  BY <3>1 DEF PolicyIInv, PolicySound
    <2> QED  BY <2>1, <2>2 DEF ConsentResolves, ServedIs
  <1> QED  BY <1>1, PoliciesInitIInv, PoliciesNextIInv, PTL DEF PoliciesSpec
=============================================================================
