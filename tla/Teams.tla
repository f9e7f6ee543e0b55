-------------------------------- MODULE Teams --------------------------------
(***************************************************************************)
(* Teams (teams.service.ts): members with a role, a denormalised owner and *)
(* member count on the team, and the platform role TEAM_OWNER on the user. *)
(* A handler reads rows, awaits, and saves its copies one after the other; *)
(* only creation and transfer save theirs together.  teamOdd remembers the *)
(* teams an outdated copy or count was saved over, or that were given to a *)
(* member who had left; roleOdd the users whose role was synced by what    *)
(* was no longer so.                                                       *)
(***************************************************************************)
EXTENDS Requests

CONSTANTS Teams, People

VARIABLES
  team,       \* teams: exists, isActive, ownerId, memberCount
  member,     \* team_members: role and isActive, by team and user
  teamOwner,  \* users who hold the role TEAM_OWNER
  teamOdd, roleOdd

teamVars == <<team, member, teamOwner, teamOdd, roleOdd>>

Nobody == "nobody"
PlatformAdmin == "platformAdmin"
Team   == [exists : BOOLEAN, active : BOOLEAN, owner : People \cup {Nobody}, count : Nat]
Member == [role : {"none", "owner", "admin", "member"}, active : BOOLEAN]

(* A handler in flight: the rows it read, those it made of them, the       *)
(* owners a transfer demotes, the users whose role is to be looked at, and *)
(* those found to lose it.                                                 *)
TeamCall ==
  [ pc : {"saveTeam", "saveMember", "repoint", "owners", "transfer", "grant", "grantSave",
          "admins", "scrub", "count", "countSave"},
    op : {"update", "delete", "add", "remove", "role", "transfer"},
    team : Teams, user : People \cup {Nobody}, seen : Member, row : Member,
    teamSeen : Team, teamRow : Team, owners : SUBSET People,
    who : SUBSET (People \cup {Nobody}), losing : SUBSET People, n : Nat ]

ASSUME TeamConstantsOK == IsFiniteSet(People) /\ Nobody \notin People /\ NoCall \notin TeamCall

NoTeam   == [exists |-> FALSE, active |-> FALSE, owner |-> Nobody, count |-> 0]
NoMember == [role |-> "none", active |-> FALSE]

TeamsInit ==
  /\ team = [t \in Teams |-> NoTeam]
  /\ member = [t \in Teams |-> [u \in People |-> NoMember]]
  /\ teamOwner = {} /\ teamOdd = {} /\ roleOdd = {}

OwnersIn(m, t)  == {u \in People : m[t][u].active /\ m[t][u].role = "owner"}
ActiveIn(m, t)  == {u \in People : m[t][u].active}
OwnsATeam(m, u) == \E t \in Teams : u \in OwnersIn(m, t)

(* assertTeamAccess, assertManagerAccess, assertOwnerAccess.               *)
HasAccess(t, u, roles) ==
  u \in {PlatformAdmin} \cup {v \in People : member[t][v].active /\ member[t][v].role \in roles}
Callers == People \cup {PlatformAdmin}

(* getMyTeams: active memberships of active teams.                         *)
MyTeams(u) == {t \in Teams : member[t][u].active /\ team[t].active}

Handling(pc, op, t, u) ==
  [ pc |-> pc, op |-> op, team |-> t, user |-> u, seen |-> NoMember, row |-> NoMember,
    teamSeen |-> NoTeam, teamRow |-> NoTeam, owners |-> {}, who |-> {}, losing |-> {}, n |-> 0 ]

-----------------------------------------------------------------------------
(* createTeam: team, owner member and role in one transaction.             *)
CreateTeam(t, u) ==
  /\ OneStep
  /\ ~team[t].exists
  /\ team' = [team EXCEPT ![t] = [exists |-> TRUE, active |-> TRUE, owner |-> u, count |-> 1]]
  /\ member' = [member EXCEPT ![t][u] = [role |-> "owner", active |-> TRUE]]
  /\ teamOwner' = teamOwner \cup {u}
  /\ UNCHANGED <<teamOdd, roleOdd>>

(* The row of a team is loaded, changed and, later, saved whole.           *)
ChangeTeam(p, op, t, active, who) ==
  /\ Begin(p, [Handling("saveTeam", op, t, Nobody) EXCEPT
                 !.teamSeen = team[t], !.teamRow = [team[t] EXCEPT !.active = active], !.who = who])
  /\ UNCHANGED teamVars

(* updateTeam: any member may set isActive.                                *)
UpdateTeam(p, t, caller, active) ==
  /\ team[t].exists /\ HasAccess(t, caller, {"owner", "admin", "member"})
  /\ ChangeTeam(p, "update", t, active, {})

(* deleteTeam deactivates, and leaves the memberships.                     *)
DeleteTeam(p, t, caller) ==
  /\ team[t].exists /\ HasAccess(t, caller, {"owner"})
  /\ ChangeTeam(p, "delete", t, FALSE, {team[t].owner})

(* Also how reassignTeamOwnerIfNeeded saves the team it repointed.         *)
SaveTeam(p) ==
  /\ At(p, "saveTeam")
  /\ LET t == call[p].team
     IN /\ team' = [team EXCEPT ![t] = call[p].teamRow]
        /\ teamOdd' = IF team[t] # call[p].teamSeen THEN teamOdd \cup {t} ELSE teamOdd
  /\ IF call[p].op = "update" THEN End(p) ELSE Goto(p, "scrub")
  /\ UNCHANGED <<member, teamOwner, roleOdd>>

-----------------------------------------------------------------------------
(* The row of a member is loaded, changed and, later, saved whole.         *)
ChangeMember(p, op, t, u, row) ==
  /\ Begin(p, [Handling("saveMember", op, t, u) EXCEPT
                 !.seen = member[t][u], !.row = row,
                 !.who = IF member[t][u].role = "owner" THEN {u} ELSE {}])
  /\ UNCHANGED teamVars

(* addMember: a former member comes back with the role of then.            *)
AddMember(p, t, u, caller) ==
  /\ team[t].exists /\ HasAccess(t, caller, {"owner", "admin"})
  /\ ~member[t][u].active
  /\ LET was == member[t][u].role
     IN ChangeMember(p, "add", t, u,
          [role |-> IF was = "none" THEN "member" ELSE was, active |-> TRUE])

(* assertNotLastOwner.                                                     *)
NotLastOwner(t, u) == member[t][u].role = "owner" => Cardinality(OwnersIn(member, t)) > 1

(* removeMember, of oneself or by a manager; an owner only by an owner and *)
(* never the last one.                                                     *)
MayRemove(t, u, caller) ==
  /\ team[t].exists /\ member[t][u].role # "none"
  /\ HasAccess(t, caller, IF caller = u THEN {"owner", "admin", "member"} ELSE {"owner", "admin"})
  /\ member[t][u].role = "owner" /\ caller # u => HasAccess(t, caller, {"owner"})

(* Mutant of RemoveMember: the last owner may leave.                       *)
RemoveAnyMember(p, t, u, caller) ==
  /\ MayRemove(t, u, caller)
  /\ ChangeMember(p, "remove", t, u, [member[t][u] EXCEPT !.active = FALSE])

RemoveMember(p, t, u, caller) ==
  /\ MayRemove(t, u, caller) /\ NotLastOwner(t, u)
  /\ ChangeMember(p, "remove", t, u, [member[t][u] EXCEPT !.active = FALSE])

(* changeMemberRole to a lower role: not for the last owner.               *)
DemoteMember(p, t, u, caller, role) ==
  /\ team[t].exists /\ HasAccess(t, caller, {"owner"})
  /\ role \in {"admin", "member"} /\ member[t][u].role \notin {"none", role}
  /\ NotLastOwner(t, u)
  /\ ChangeMember(p, "role", t, u, [member[t][u] EXCEPT !.role = role])

(* What follows the save of the member.                                    *)
Follows(c) ==
  IF c.op = "add" THEN "count"
  ELSE IF c.op = "remove" THEN IF c.seen.role = "owner" THEN "repoint" ELSE "count"
  ELSE "scrub"

(* A second row for the same member violates a unique constraint.          *)
SaveMember(p) ==
  /\ At(p, "saveMember")
  /\ LET c == call[p]
         t == c.team
         now == member[t][c.user]
     IN \/ /\ c.seen.role = "none" /\ now.role # "none"
           /\ End(p)
           /\ UNCHANGED teamVars
        \/ /\ c.seen.role = "none" => now.role = "none"
           /\ member' = [member EXCEPT ![t][c.user] = c.row]
           /\ teamOdd' = IF now # c.seen THEN teamOdd \cup {t} ELSE teamOdd
           /\ Goto(p, Follows(c))
           /\ UNCHANGED <<team, teamOwner, roleOdd>>

(* reassignTeamOwnerIfNeeded: the team of an owner who left is repointed   *)
(* to one who stays.                                                       *)
Repoint(p) ==
  /\ At(p, "repoint")
  /\ LET c == call[p]
         t == c.team
         left == OwnersIn(member, t)
     IN IF team[t].owner = c.user /\ left # {}
        THEN \E v \in left :
               GotoState(p, [c EXCEPT !.pc = "saveTeam", !.teamSeen = team[t],
                                      !.teamRow = [team[t] EXCEPT !.owner = v]])
        ELSE Goto(p, "scrub")
  /\ UNCHANGED teamVars

(* syncMemberCount.                                                        *)
CountMembers(p) ==
  /\ At(p, "count")
  /\ GotoState(p, [call[p] EXCEPT !.pc = "countSave",
                                  !.n = Cardinality(ActiveIn(member, call[p].team))])
  /\ UNCHANGED teamVars

SaveCount(p) ==
  /\ At(p, "countSave")
  /\ LET t == call[p].team
     IN /\ team' = [team EXCEPT ![t].count = call[p].n]
        /\ teamOdd' = IF call[p].n # Cardinality(ActiveIn(member, t)) THEN teamOdd \cup {t} ELSE teamOdd
  /\ End(p)
  /\ UNCHANGED <<member, teamOwner, roleOdd>>

-----------------------------------------------------------------------------
(* changeMemberRole to owner: the member, who need not be active any more, *)
TransferOwnership(p, t, u, caller) ==
  /\ team[t].exists /\ HasAccess(t, caller, {"owner"})
  /\ member[t][u].role \in {"admin", "member"}
  /\ Begin(p, [Handling("owners", "transfer", t, u) EXCEPT !.seen = member[t][u]])
  /\ UNCHANGED teamVars

(* and the owners of the moment ...                                        *)
ReadOwners(p) ==
  /\ At(p, "owners")
  /\ GotoState(p, [call[p] EXCEPT !.pc = "transfer",
                                  !.owners = OwnersIn(member, call[p].team) \ {call[p].user}])
  /\ UNCHANGED teamVars

(* ... are saved in one transaction: demoted, promoted, the team repointed. *)
SaveTransfer(p) ==
  /\ At(p, "transfer")
  /\ LET c == call[p]
         t == c.team
     IN /\ member' = [member EXCEPT ![t] = [u \in People |->
              IF u = c.user THEN [role |-> "owner", active |-> c.seen.active]
              ELSE IF u \in c.owners THEN [role |-> "admin", active |-> TRUE] ELSE @[u]]]
        /\ team' = [team EXCEPT ![t].owner = c.user]
        /\ teamOdd' = IF /\ member[t][c.user] = c.seen /\ c.seen.active
                         /\ OwnersIn(member, t) \ {c.user} = c.owners
                      THEN teamOdd ELSE teamOdd \cup {t}
        /\ GotoState(p, [c EXCEPT !.pc = "grant", !.who = c.owners])
  /\ UNCHANGED <<teamOwner, roleOdd>>

(* grantTeamOwnerRole: nothing to do for one who has the role.             *)
GrantTeamOwner(p) ==
  /\ At(p, "grant")
  /\ Goto(p, IF call[p].user \in teamOwner THEN "admins" ELSE "grantSave")
  /\ UNCHANGED teamVars

SaveGrant(p) ==
  /\ At(p, "grantSave")
  /\ teamOwner' = teamOwner \cup {call[p].user}
  /\ roleOdd' = roleOdd \cup {u \in {call[p].user} : ~OwnsATeam(member, u)}
  /\ Goto(p, "admins")
  /\ UNCHANGED <<team, member, teamOdd>>

(* The previous owners are looked for among the active admins.             *)
PreviousOwners(p) ==
  /\ At(p, "admins")
  /\ LET c == call[p]
         admins == {u \in People : member[c.team][u].active /\ member[c.team][u].role = "admin"}
     IN /\ GotoState(p, [c EXCEPT !.pc = "scrub", !.who = admins])
        /\ roleOdd' = roleOdd \cup {u \in c.who \ admins : ~OwnsATeam(member, u)}
  /\ UNCHANGED <<team, member, teamOwner, teamOdd>>

-----------------------------------------------------------------------------
(* scrubTeamOwnerRoleIfOrphaned, of several users at once: memberships of  *)
(* inactive teams count.                                                   *)
LookAtRole(p, u) ==
  /\ At(p, "scrub") /\ u \in call[p].who
  /\ GotoState(p, [call[p] EXCEPT !.who = @ \ {u},
                                  !.losing = @ \cup ({u} \cap {v \in teamOwner : ~OwnsATeam(member, v)})])
  /\ UNCHANGED teamVars

ScrubRole(p, u) ==
  /\ At(p, "scrub") /\ u \in call[p].losing
  /\ teamOwner' = teamOwner \ {u}
  /\ roleOdd' = roleOdd \cup {v \in {u} : OwnsATeam(member, v)}
  /\ GotoState(p, [call[p] EXCEPT !.losing = @ \ {u}])
  /\ UNCHANGED <<team, member, teamOdd>>

Scrubbed(p) ==
  /\ At(p, "scrub") /\ call[p].who = {} /\ call[p].losing = {}
  /\ IF call[p].op = "remove" THEN Goto(p, "count") ELSE End(p)
  /\ UNCHANGED teamVars

TeamsNext ==
  \/ \E t \in Teams, u \in People : CreateTeam(t, u)
  \/ \E p \in Procs, t \in Teams, caller \in Callers :
       \/ \E a \in BOOLEAN : UpdateTeam(p, t, caller, a)
       \/ DeleteTeam(p, t, caller)
       \/ \E u \in People :
            \/ AddMember(p, t, u, caller) \/ RemoveMember(p, t, u, caller)
            \/ \E r \in {"admin", "member"} : DemoteMember(p, t, u, caller, r)
            \/ TransferOwnership(p, t, u, caller)
  \/ \E p \in Procs :
       \/ SaveTeam(p) \/ SaveMember(p) \/ Repoint(p) \/ CountMembers(p) \/ SaveCount(p)
       \/ ReadOwners(p) \/ SaveTransfer(p) \/ GrantTeamOwner(p) \/ SaveGrant(p)
       \/ PreviousOwners(p) \/ Scrubbed(p)
       \/ \E u \in People : LookAtRole(p, u) \/ ScrubRole(p, u)
       \/ Dies(p) /\ UNCHANGED teamVars

TeamsSpec == RequestsInit /\ TeamsInit /\ [][TeamsNext]_<<teamVars, requestVars>>

-----------------------------------------------------------------------------
TeamsTypeOK ==
  /\ team \in [Teams -> Team]
  /\ member \in [Teams -> [People -> Member]]
  /\ teamOwner \subseteq People /\ teamOdd \subseteq Teams /\ roleOdd \subseteq People

(* What a handler in flight is still to do: give u the role, count the     *)
(* members of t, look at the role of u, who was an owner.                  *)
Grants(c, u)   == c # NoCall /\ c.pc \in {"grant", "grantSave"} /\ c.user = u
Recounts(c, t) == c # NoCall /\ c.op \in {"add", "remove"} /\ c.pc # "saveMember" /\ c.team = t
LooksAt(c, u)  == c # NoCall /\ c.op = "transfer" /\ u \in c.who \cup c.losing

(* "This keeps exactly one owner and the denormalised field in sync": but  *)
(* for the odd teams, every team has one active owner, the one its row     *)
(* names, whoever fails on the way.  If nothing fails, he holds TEAM_OWNER *)
(* and the team's count is that of its active members, or a handler is     *)
(* about to see to it; and when no team is odd nobody keeps the role who   *)
(* owns no team.                                                           *)
OneTeamOwner ==
  /\ \A t \in Teams \ teamOdd : team[t].exists => OwnersIn(member, t) = {team[t].owner}
  /\ deaths = 0 =>
       /\ \A t \in Teams \ teamOdd : team[t].exists =>
            /\ \/ team[t].owner \in teamOwner \cup roleOdd
               \/ \E p \in Procs : Grants(call[p], team[t].owner)
            /\ \/ team[t].count = Cardinality(ActiveIn(member, t))
               \/ \E p \in Procs : Recounts(call[p], t)
       /\ teamOdd = {} =>
            \A u \in teamOwner \ roleOdd :
              OwnsATeam(member, u) \/ \E p \in Procs : LooksAt(call[p], u)
==============================================================================
