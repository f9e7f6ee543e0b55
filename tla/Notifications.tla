---------------------------- MODULE Notifications ----------------------------
(***************************************************************************)
(* Sending a notice (notifications.service.ts), the stored templates an    *)
(* admin edits (notification-template.controller.ts) and the in-app inbox. *)
(* A notice is fire-and-forget: a database error in a group is logged, the *)
(* rest of the group goes on and the groups after it are never sent.  The  *)
(* providers' errors are swallowed where they happen.                      *)
(***************************************************************************)
EXTENDS Requests, NoticeTables

CONSTANTS
  Kinds    \* the notices looked at, a subset of DOMAIN Notices

VARIABLES
  stored,   \* notification_templates: each [key, channel] "missing", "on", "off"
  contact,  \* users, user_device_tokens: what each recipient can be reached at
  outcome,  \* what became of each message: "sent", "no_contact", "no_template"
  unread,   \* in_app_notifications not read yet
  through   \* notices that went through all their groups

noticeVars == <<stored, contact, outcome, unread, through>>

ASSUME KindsOK == Kinds \subseteq DOMAIN Notices

Recipients == {"customer", "vendor", "rep", "staff", "inbox"}
Means == {"email", "phone", "device"}
Needs == [email |-> {"email"}, sms |-> {"phone"}, whatsapp |-> {"phone"}, push |-> {"device"}, in_app |-> {}]

AllMessages(kind) == UNION {Notices[kind][i] : i \in DOMAIN Notices[kind]}
Looked == UNION {AllMessages(k) : k \in Kinds}
TemplateOf(m) == [key |-> m.key, channel |-> m.channel]
Rows == {t \in DEFAULT_TEMPLATES : \E m \in Looked : TemplateOf(m) = t}

(* The mailbox and the staff have what they need; a customer, vendor or    *)
(* rep may lack some.                                                      *)
NoticesInit ==
  /\ stored \in {[t \in Rows |-> s] : s \in {"missing", "on"}}
  /\ contact \in {[r \in Recipients |-> IF r \in {"staff", "inbox"} THEN {"email"} ELSE means] :
                    means \in {{"email", "phone", "device"}, {"email"}}}
  /\ outcome = {} /\ unread = {} /\ through = {}

-----------------------------------------------------------------------------
(* onModuleInit, sync-defaults: missing rows are inserted; the latter also *)
(* brings every row back to its default.                                   *)
SeedDefaults ==
  /\ OneStep
  /\ stored' = [t \in Rows |-> IF stored[t] = "missing" THEN "on" ELSE stored[t]]
  /\ UNCHANGED <<contact, outcome, unread, through>>

ResyncDefaults ==
  /\ OneStep
  /\ stored' = [t \in Rows |-> "on"]
  /\ UNCHANGED <<contact, outcome, unread, through>>

(* update, reset.                                                          *)
SetTemplate(t, status) ==
  /\ OneStep
  /\ stored[t] # "missing"
  /\ stored' = [stored EXCEPT ![t] = status]
  /\ UNCHANGED <<contact, outcome, unread, through>>

(* Mutant of Rendered: no fall-back to the in-code defaults.               *)
StoredOnly(m) == TemplateOf(m) \in Rows /\ stored[TemplateOf(m)] = "on"

(* render: the stored row if it is active, else the default in the code;   *)
(* it is found even when an admin has switched the row off.                *)
Rendered(m) == TemplateOf(m) \in Rows

(* The first group, or what is left when one is through.                   *)
Notify(p, kind) ==
  /\ Begin(p, [pc |-> "notify", kind |-> kind, group |-> 1, pending |-> Notices[kind][1], failed |-> FALSE])
  /\ UNCHANGED noticeVars

Reachable(m) == Needs[m.channel] \subseteq contact[m.to]

Send(p, m) ==
  /\ At(p, "notify") /\ m \in call[p].pending
  /\ LET became == IF ~Reachable(m) THEN "no_contact" ELSE IF Rendered(m) THEN "sent" ELSE "no_template"
     IN /\ outcome' = outcome \cup {[kind |-> call[p].kind, message |-> m, became |-> became]}
        /\ unread' = unread \cup {n \in {m} : became = "sent" /\ m.channel = "in_app"}
        /\ \/ UNCHANGED contact
           \/ /\ became = "sent" /\ m.channel = "push"     \* the tokens are dead
              /\ contact' = [contact EXCEPT ![m.to] = @ \ {"device"}]
  /\ GotoState(p, [call[p] EXCEPT !.pending = @ \ {m}])
  /\ UNCHANGED <<stored, through>>

(* The template, the device tokens or the inbox cannot be read or written. *)
SendFails(p, m) ==
  /\ At(p, "notify") /\ m \in call[p].pending
  /\ deaths < MaxDeaths /\ deaths' = deaths + 1
  /\ call' = [call EXCEPT ![p].pending = @ \ {m}, ![p].failed = TRUE]
  /\ UNCHANGED <<calls, noticeVars>>

NextGroup(p) ==
  /\ At(p, "notify") /\ call[p].pending = {}
  /\ LET c == call[p]
         last == c.group = Len(Notices[c.kind])
     IN /\ IF c.failed \/ last
           THEN End(p)
           ELSE GotoState(p, [c EXCEPT !.group = @ + 1, !.pending = Notices[c.kind][c.group + 1]])
        /\ through' = IF last /\ ~c.failed THEN through \cup {c.kind} ELSE through
  /\ UNCHANGED <<stored, contact, outcome, unread>>

-----------------------------------------------------------------------------
RegisterDevice(r) ==
  /\ OneStep
  /\ r \in {"customer", "vendor", "rep"}
  /\ contact' = [contact EXCEPT ![r] = @ \cup {"device"}]
  /\ UNCHANGED <<stored, outcome, unread, through>>

MarkRead(m) ==
  /\ OneStep
  /\ m \in unread
  /\ unread' = unread \ {m}
  /\ UNCHANGED <<stored, contact, outcome, through>>

MarkAllRead(r) ==
  /\ OneStep
  /\ unread' = {m \in unread : m.to # r}
  /\ UNCHANGED <<stored, contact, outcome, through>>

NoticesNext ==
  \/ SeedDefaults \/ ResyncDefaults
  \/ \E t \in Rows, s \in {"on", "off"} : SetTemplate(t, s)
  \/ \E p \in Procs :
       \/ \E k \in Kinds : Notify(p, k)
       \/ \E m \in Looked : Send(p, m) \/ SendFails(p, m)
       \/ NextGroup(p)
  \/ \E r \in Recipients : RegisterDevice(r) \/ MarkAllRead(r)
  \/ \E m \in unread : MarkRead(m)

NoticesSpec == RequestsInit /\ NoticesInit /\ [][NoticesNext]_<<noticeVars, requestVars>>

-----------------------------------------------------------------------------
NoticesTypeOK ==
  /\ stored \in [Rows -> {"missing", "on", "off"}] /\ contact \in [Recipients -> SUBSET Means]
  /\ outcome \subseteq [kind : Kinds, message : Looked, became : {"sent", "no_contact", "no_template"}]
  /\ unread \subseteq Looked /\ through \subseteq Kinds

(* A notice whose groups all went through has tried every message of each  *)
(* group, and what could be delivered had a template, whatever rows an     *)
(* admin has switched off meanwhile.  The exception is the push of         *)
(* dispute.rejected.customer, for which default-templates.ts has none: it  *)
(* is dropped without a word.                                              *)
NobodyLeftOut ==
  \A k \in through : \A m \in AllMessages(k) :
    \/ \E o \in outcome : o.kind = k /\ o.message = m /\ o.became # "no_template"
    \/ m.key = "dispute.rejected.customer" /\ m.channel = "push"
==============================================================================
