------------------------------- MODULE Accounts -------------------------------
(***************************************************************************)
(* Accounts: registration, sign-in, codes and sessions (auth.service.ts),  *)
(* profile and deletion (users.service.ts), staff (staff.service.ts).      *)
(* A user row is read, changed in memory and saved whole; the codes and    *)
(* the session, which live in Redis, are written after the row.            *)
(* overlapped remembers the people whose row changed between the read of a *)
(* handler and its end, lingering those a handler failed to sign out.      *)
(***************************************************************************)
EXTENDS Requests

CONSTANT Persona   \* the people

VARIABLES
  user,       \* users, the row of each person
  session,    \* Redis refresh:<user>, who has one
  codes,      \* Redis otp:*: the codes that have not expired
  cooling,    \* Redis otp:cooldown:*
  invited,    \* Redis invite:*
  tied,       \* people with money, an unfinished order or an open dispute
  device,     \* people with a registered device
  overlapped, lingering

accountVars == <<user, session, codes, cooling, invited, tied, device, overlapped, lingering>>

Purposes == {"verification", "reset"}
Codes    == {"email", "phone", "reset"}
UserRow  == [status : {"none", "active", "pending", "suspended", "deactivated"},
             verified : SUBSET {"email", "phone"},
             roles : SUBSET {"admin", "company_admin", "vendor"}, deleted : BOOLEAN]
NewUser  == [status |-> "active", verified |-> {}, roles |-> {}, deleted |-> FALSE]
NoUser   == [NewUser EXCEPT !.status = "none"]
Founder  == [NewUser EXCEPT !.roles = {"admin"}, !.verified = {"email"}]

(* What a handler does after its row is saved, or without saving one: the  *)
(* codes to send and to drop, the session, the devices.                    *)
After    == {after \in [send : SUBSET Codes, drop : SUBSET (Codes \cup {"invite"}),
                        session : {"keep", "new", "none"}, unregister : BOOLEAN] :
               after.unregister => after.session = "none"}
UserCall == [pc : {"user"}, user : Persona, row : UserRow, read : UserRow, after : After]
              \cup [pc : {"after", "session"}, user : Persona, row : UserRow, after : After]

ASSUME AccountConstantsOK == NoCall \notin UserCall

(* setupSuperAdmin has made the first admin; the others are to come.       *)
AccountsInit ==
  /\ \E first \in Persona : user = [u \in Persona |-> IF u = first THEN Founder ELSE NoUser]
  /\ session = {} /\ invited = {} /\ tied = {} /\ device = {}
  /\ overlapped = {} /\ lingering = {}
  /\ codes = [u \in Persona |-> {}] /\ cooling = [u \in Persona |-> {}]

Found(u)    == user[u].status # "none" /\ ~user[u].deleted    \* a deleted row has no identifier
Unverified(row) == {"email", "phone"} \ row.verified
Staff(u)    == user[u].status # "none" /\ "admin" \in user[u].roles
Admin(u)    == Staff(u) /\ user[u].status \in {"active", "pending"}
LikeAdmin   == {u \in Persona : user[u].roles \cap {"admin", "company_admin"} # {}}   \* LIKE '%admin%'

(* A handler that will save row, then send, drop codes and set the session.*)
ChangeUser(p, u, row, after) ==
  /\ Begin(p, [pc |-> "user", user |-> u, row |-> row, read |-> user[u], after |-> after])
  /\ UNCHANGED accountVars

Nothing == [send |-> {}, drop |-> {}, session |-> "keep", unregister |-> FALSE]
SignIn  == [Nothing EXCEPT !.session = "new"]
Revoke  == [Nothing EXCEPT !.session = "none"]

-----------------------------------------------------------------------------
(* register and registerVendor; registerCompany and the invitations leave  *)
(* a pending account.                                                      *)
Register(p, u, roles) ==
  /\ user[u].status = "none"
  /\ LET row == [NewUser EXCEPT !.roles = roles]
     IN /\ user' = [user EXCEPT ![u] = row]
        /\ Begin(p, [pc |-> "after", user |-> u, row |-> row,
                     after |-> [SignIn EXCEPT !.send = {"email", "phone"}]])
  /\ UNCHANGED <<session, codes, cooling, invited, tied, device, overlapped, lingering>>

RegisterCompanyContact(u) ==
  /\ OneStep
  /\ user[u].status = "none"
  /\ user' = [user EXCEPT ![u] = [NewUser EXCEPT !.status = "pending"]]
  /\ codes' = [codes EXCEPT ![u] = {"email", "phone"}]
  /\ UNCHANGED <<session, cooling, invited, tied, device, overlapped, lingering>>

InviteStaff(u, roles) ==   \* also company staff and sales reps, by createInviteToken
  /\ OneStep
  /\ user[u].status = "none"
  /\ user' = [user EXCEPT ![u] = [NewUser EXCEPT !.status = "pending", !.roles = roles]]
  /\ invited' = invited \cup {u}
  /\ UNCHANGED <<session, codes, cooling, tied, device, overlapped, lingering>>

Login(p, u) ==
  /\ Found(u) /\ user[u].status \notin {"pending", "suspended"}
  /\ Begin(p, [pc |-> "session", user |-> u, row |-> user[u], after |-> SignIn])
  /\ UNCHANGED accountVars

Activate(p, u) ==
  /\ Found(u) /\ user[u].status = "pending"
  /\ ChangeUser(p, u, [user[u] EXCEPT !.status = "active"],
                [SignIn EXCEPT !.send = Unverified(user[u])])

SetPassword(p, u) ==
  /\ u \in invited /\ user[u].status = "pending"
  /\ ChangeUser(p, u, [user[u] EXCEPT !.status = "active", !.verified = @ \cup {"email"}],
                [SignIn EXCEPT !.drop = {"invite"}])

VerifyOtp(p, u, channel) ==
  /\ Found(u) /\ channel \in codes[u]
  /\ ChangeUser(p, u, [user[u] EXCEPT !.verified = @ \cup {channel}], [Nothing EXCEPT !.drop = {channel}])

ResetPassword(p, u) ==
  /\ Found(u) /\ "reset" \in codes[u]
  /\ ChangeUser(p, u, user[u], [Revoke EXCEPT !.drop = {"reset"}])

(* resendOtp and forgotPassword, once in a cooldown.                       *)
SendCode(u, purpose) ==
  /\ OneStep
  /\ Found(u) /\ user[u].status \in {"active"} \cup (IF purpose = "verification" THEN {"pending"} ELSE {})
  /\ purpose \notin cooling[u]
  /\ cooling' = [cooling EXCEPT ![u] = @ \cup {purpose}]
  /\ codes' = [codes EXCEPT ![u] = @ \cup IF purpose = "reset" THEN {"reset"} ELSE Unverified(user[u])]
  /\ UNCHANGED <<user, session, invited, tied, device, overlapped, lingering>>

(* refreshTokens: a token that is not the latest ends the session.         *)
Refresh(p, u, latest) ==
  /\ IF latest /\ u \in session
     THEN /\ user[u].status = "active"
          /\ Begin(p, [pc |-> "session", user |-> u, row |-> user[u], after |-> SignIn])
     ELSE Begin(p, [pc |-> "session", user |-> u, row |-> user[u], after |-> Revoke])
  /\ UNCHANGED accountVars

Logout(u) ==
  /\ OneStep
  /\ session' = session \ {u}
  /\ UNCHANGED <<user, codes, cooling, invited, tied, device, overlapped, lingering>>

(* Redis drops what has expired.                                           *)
Expire(u) ==
  /\ OneStep
  /\ \/ session' = session \ {u} /\ UNCHANGED <<codes, cooling, invited>>
     \/ codes' = [codes EXCEPT ![u] = {}] /\ UNCHANGED <<session, cooling, invited>>
     \/ cooling' = [cooling EXCEPT ![u] = {}] /\ UNCHANGED <<session, codes, invited>>
     \/ invited' = invited \ {u} /\ UNCHANGED <<session, codes, cooling>>
  /\ UNCHANGED <<user, tied, device, overlapped, lingering>>

-----------------------------------------------------------------------------
UpdateProfile(p, u) ==
  /\ Found(u) /\ user[u].status = "active"
  /\ ChangeUser(p, u, user[u], Nothing)

FcmToken(u, registered) ==   \* updateFcmToken, removeFcmToken
  /\ OneStep
  /\ user[u].status = "active"
  /\ device' = IF registered THEN device \cup {u} ELSE device \ {u}
  /\ UNCHANGED <<user, session, codes, cooling, invited, tied, overlapped, lingering>>

(* What assertDeletable counts: wallet, orders, disputes.                  *)
Ties(u, on) ==
  /\ OneStep
  /\ user[u].status = "active"
  /\ tied' = IF on THEN tied \cup {u} ELSE tied \ {u}
  /\ UNCHANGED <<user, session, codes, cooling, invited, device, overlapped, lingering>>

(* deleteMyAccount, not for operational roles; adminDeleteUser.            *)
DeleteAccount(p, u, self) ==
  /\ user[u].status # "none" /\ ~user[u].deleted /\ u \notin tied
  /\ self => user[u].status = "active" /\ user[u].roles = {}
  /\ ChangeUser(p, u, [user[u] EXCEPT !.status = "deactivated", !.verified = {}, !.deleted = TRUE],
                [Revoke EXCEPT !.unregister = TRUE])

(* Mutant of SetUserStatus: the session outlives the suspension.           *)
SetStatusOnly(p, u, status) ==
  /\ user[u].status # "none" /\ ~user[u].deleted
  /\ ChangeUser(p, u, [user[u] EXCEPT !.status = status], Nothing)

SetUserStatus(p, u, status) ==
  /\ user[u].status # "none" /\ ~user[u].deleted
  /\ ChangeUser(p, u, [user[u] EXCEPT !.status = status],
                IF status = "suspended" THEN Revoke ELSE Nothing)

(* companies.service.ts addAdmin.                                          *)
MakeCompanyAdmin(p, u) ==
  /\ user[u].status # "none"
  /\ ChangeUser(p, u, [user[u] EXCEPT !.roles = @ \cup {"company_admin"}], Nothing)

(* updateStaffRole (from admin to finance, say) and deactivateStaff, by    *)
(* another admin.                                                          *)
UpdateStaffRole(p, u, caller) ==
  /\ Admin(caller) /\ user[caller].status = "active" /\ caller # u
  /\ Staff(u) /\ Cardinality(LikeAdmin) > 1
  /\ ChangeUser(p, u, [user[u] EXCEPT !.roles = @ \ {"admin"}], Nothing)

DeactivateStaff(p, u, caller) ==
  /\ Admin(caller) /\ user[caller].status = "active" /\ caller # u
  /\ Staff(u) /\ Cardinality({v \in LikeAdmin : user[v].status # "deactivated"}) > 1
  /\ ChangeUser(p, u, [user[u] EXCEPT !.status = "deactivated"], Nothing)

-----------------------------------------------------------------------------
SaveUser(p) ==
  /\ At(p, "user")
  /\ user' = [user EXCEPT ![call[p].user] = call[p].row]
  /\ overlapped' = IF user[call[p].user] = call[p].read THEN overlapped
                   ELSE overlapped \cup {call[p].user}
  /\ GotoState(p, [pc |-> "after", user |-> call[p].user, row |-> call[p].row, after |-> call[p].after])
  /\ UNCHANGED <<session, codes, cooling, invited, tied, device, lingering>>

Crossed(p) == IF user[call[p].user] = call[p].row THEN overlapped ELSE overlapped \cup {call[p].user}

(* Codes are sent and dropped, devices deleted ...                         *)
AfterSave(p) ==
  /\ At(p, "after")
  /\ LET u == call[p].user
         after == call[p].after
     IN /\ codes' = [codes EXCEPT ![u] = (@ \ after.drop) \cup after.send]
        /\ invited' = IF "invite" \in after.drop THEN invited \ {u} ELSE invited
        /\ device' = IF after.unregister THEN device \ {u} ELSE device
        /\ \/ after.session = "keep" /\ End(p)
           \/ after.session = "new" /\ GotoState(p, [call[p] EXCEPT !.pc = "session", !.after = SignIn])
           \/ after.session = "none" /\ GotoState(p, [call[p] EXCEPT !.pc = "session", !.after = Revoke])
  /\ overlapped' = Crossed(p)
  /\ UNCHANGED <<user, session, cooling, tied, lingering>>

(* ... and a session is made or deleted.  A delete that fails is swallowed *)
(* by setUserStatus and the deletions, and fails the other handlers.       *)
SetSession(p) ==
  /\ At(p, "session")
  /\ LET u == call[p].user IN
     \/ /\ call[p].after.session = "new"
        /\ session' = session \cup {u} /\ UNCHANGED lingering
     \/ /\ call[p].after.session = "none"
        /\ session' = session \ {u} /\ UNCHANGED lingering
     \/ /\ call[p].after.session = "none"
        /\ lingering' = lingering \cup {u} /\ UNCHANGED session
  /\ overlapped' = Crossed(p)
  /\ End(p)
  /\ UNCHANGED <<user, codes, cooling, invited, tied, device>>

HandlerDies(p) ==
  /\ Dies(p)
  /\ lingering' = lingering \cup
       {u \in {call[p].user} : call[p].pc # "user" /\ call[p].after.session = "none"}
  /\ UNCHANGED <<user, session, codes, cooling, invited, tied, device, overlapped>>

AccountsNext ==
  \/ \E u \in Persona :
       \/ \E rs \in {{}, {"admin"}} : InviteStaff(u, rs)
       \/ RegisterCompanyContact(u) \/ Logout(u) \/ Expire(u)
       \/ \E purpose \in Purposes : SendCode(u, purpose)
       \/ \E b \in BOOLEAN : FcmToken(u, b) \/ Ties(u, b)
  \/ \E p \in Procs, u \in Persona :
       \/ \E rs \in {{}, {"vendor"}} : Register(p, u, rs)
       \/ Login(p, u) \/ Activate(p, u) \/ SetPassword(p, u) \/ ResetPassword(p, u)
       \/ UpdateProfile(p, u) \/ MakeCompanyAdmin(p, u)
       \/ \E channel \in {"email", "phone"} : VerifyOtp(p, u, channel)
       \/ \E b \in BOOLEAN : Refresh(p, u, b) \/ DeleteAccount(p, u, b)
       \/ \E status \in {"active", "suspended"} : SetUserStatus(p, u, status)
       \/ \E caller \in Persona : UpdateStaffRole(p, u, caller) \/ DeactivateStaff(p, u, caller)
  \/ \E p \in Procs : SaveUser(p) \/ AfterSave(p) \/ SetSession(p) \/ HandlerDies(p)

AccountsSpec == RequestsInit /\ AccountsInit /\ [][AccountsNext]_<<accountVars, requestVars>>

-----------------------------------------------------------------------------
AccountsTypeOK ==
  /\ user \in [Persona -> UserRow]
  /\ session \subseteq Persona /\ invited \subseteq Persona /\ tied \subseteq Persona
  /\ device \subseteq Persona /\ overlapped \subseteq Persona /\ lingering \subseteq Persona
  /\ codes \in [Persona -> SUBSET Codes] /\ cooling \in [Persona -> SUBSET Purposes]

Busy(u) == \E p \in InFlight("user") \cup InFlight("after") \cup InFlight("session") : call[p].user = u

(* "Kill the active session so the block takes effect immediately", "Revoke *)
(* everything": once its handlers are through, a suspended account has no   *)
(* session, and a deleted one neither session nor device and stays          *)
(* deactivated, unless another handler overlapped, the session could not    *)
(* be deleted, or the handler died before it was.                           *)
ClosedAccountIsOut ==
  \A u \in Persona \ (overlapped \cup lingering) : ~Busy(u) =>
    /\ user[u].status = "suspended" => u \notin session
    /\ user[u].deleted => user[u].status = "deactivated" /\ u \notin session \cup device
==============================================================================
