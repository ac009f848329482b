----------------------------- MODULE Workspaces -----------------------------
(***************************************************************************)
(* One workspace, its members' roles and its invites                       *)
(* (workspaces/service.py, repository.py). Every read and every write of a *)
(* request is an action, but the two reads that authorise it               *)
(* (require_member) are one; it may be refused, by a limit, or stop before *)
(* any of them.                                                            *)
(***************************************************************************)
EXTENDS Naturals, FiniteSets

CONSTANTS Users,      \* those who are members, were, or may become
          Requests,   \* requests of a behaviour, each made once
          Invites,    \* invites of a behaviour
          None

Roles == 1..3         \* constants.Role by rank: member, admin, owner
Owner == 3
Admin == 2
Kinds == {"link", "github", "email"}

VARIABLES
  role,      \* workspace_members: each member's role, 0 for who is none
  live,      \* the workspace is not deleted
  creator,   \* whose personal workspace it is, or None
  invite,    \* workspace_invites
  req,       \* requests under way, with what they read
  crossed,   \* history: owners were counted while another request was about to lower a role
  admitted   \* history: whom each invite let in

vars == <<role, live, creator, invite, req, crossed, admitted>>

Idle == [pc |-> "idle", op |-> "none", actor |-> None, as |-> 0, target |-> None, to |-> 0,
         kind |-> "none", invite |-> None, link |-> 0]
NoInvite == [kind |-> "none", to |-> 0, for |-> None, link |-> 0, pending |-> FALSE,
             expired |-> FALSE, revoked |-> FALSE, by |-> None]
Links == 0..2         \* bound: an invite is sent again at most once

\* `for` is the person whose email or GitHub login an invite names; a link names nobody.
\* `pending` is pending_email. `link` counts the tokens mailed: only the last one works.
Sent(kind, to, for) ==
  [NoInvite EXCEPT !.kind = kind, !.to = to, !.for = for, !.link = 1, !.pending = (kind = "email")]

Members == {u \in Users : role[u] # 0}
Owners == {u \in Users : role[u] = Owner}

Init ==
  /\ role \in [Users -> 0..Owner] /\ Owners # {}
  /\ creator \in Owners \cup {None}
  /\ live = TRUE
  /\ invite \in [Invites -> {NoInvite} \cup {Sent("link", to, None) : to \in Roles}
                              \cup {Sent(kind, to, u) : kind \in Kinds \ {"link"}, to \in Roles, u \in Users \ Members}]
  /\ \A i, j \in Invites : i # j /\ invite[i].pending /\ invite[j].pending => invite[i].for # invite[j].for
  /\ req = [r \in Requests |-> Idle]
  /\ crossed = FALSE
  /\ admitted = [i \in Invites |-> {}]

Goto(r, pc) == req' = [req EXCEPT ![r].pc = pc]
Over(r) == req' = [req EXCEPT ![r] = [Idle EXCEPT !.pc = "over"]]
Begin(r, q) == req[r] = Idle /\ req' = [req EXCEPT ![r] = q]

(* require_member: the actor is one, of at least that role.                *)
May(u, least) == live /\ role[u] >= least /\ role[u] # 0
Actor(u, pc, op) == [Idle EXCEPT !.pc = pc, !.op = op, !.actor = u, !.as = role[u]]

-----------------------------------------------------------------------------
(* Roles: the target is found, the owners are counted when one is to be    *)
(* lowered, then the role is written.                                      *)
AskRole(r, actor, target, to) ==
  /\ May(actor, Admin)
  /\ Begin(r, [Actor(actor, "find", "set") EXCEPT !.target = target, !.to = to])
  /\ UNCHANGED <<role, live, creator, invite, crossed, admitted>>

AskRemoval(r, actor, target) ==
  /\ May(actor, 1)
  /\ Begin(r, [Actor(actor, "find", "remove") EXCEPT !.target = target])
  /\ UNCHANGED <<role, live, creator, invite, crossed, admitted>>

(* Nobody changes a role above their own; admins remove others, anyone may *)
(* leave, but the creator of a personal workspace.                         *)
Allowed(q) ==
  IF q.op = "set" THEN q.to <= q.as /\ role[q.target] <= q.as
  ELSE /\ q.target # q.actor => q.as >= Admin /\ role[q.target] <= q.as
       /\ q.target # creator

FindTarget(r) ==
  LET q == req[r] IN
  /\ q.pc = "find"
  /\ IF role[q.target] = 0 \/ ~Allowed(q) THEN Over(r)
     ELSE Goto(r, IF role[q.target] = Owner /\ q.to # Owner THEN "count" ELSE "write")
  /\ UNCHANGED <<role, live, creator, invite, crossed, admitted>>

LowersRole(r) == req[r].pc = "write" /\ req[r].to # Owner

\* Slip: the target counts as one of the others.
CountTarget(r) ==
  /\ req[r].pc = "count"
  /\ IF Cardinality(Owners) > 0 THEN Goto(r, "write") ELSE Over(r)
  /\ crossed' = (crossed \/ \E x \in Requests : LowersRole(x))
  /\ UNCHANGED <<role, live, creator, invite, admitted>>

KeepAnOwner(r) ==
  /\ req[r].pc = "count"
  /\ IF Cardinality(Owners) > 1 THEN Goto(r, "write") ELSE Over(r)
  /\ crossed' = (crossed \/ \E x \in Requests : LowersRole(x))
  /\ UNCHANGED <<role, live, creator, invite, admitted>>

SetRole(r) ==
  /\ req[r].pc = "write" /\ req[r].op = "set"
  /\ role' = [u \in Users |-> IF u = req[r].target /\ role[u] # 0 THEN req[r].to ELSE role[u]]
  /\ Over(r)
  /\ UNCHANGED <<live, creator, invite, crossed, admitted>>

Remove(r) ==
  /\ req[r].pc = "write" /\ req[r].op = "remove"
  /\ role' = [role EXCEPT ![req[r].target] = 0]
  /\ Over(r)
  /\ UNCHANGED <<live, creator, invite, crossed, admitted>>

(* delete: hidden, not emptied; a personal workspace stays.                *)
AskDelete(r, actor) ==
  /\ May(actor, Owner) /\ creator = None
  /\ Begin(r, Actor(actor, "delete", "delete"))
  /\ UNCHANGED <<role, live, creator, invite, crossed, admitted>>

Delete(r) ==
  /\ req[r].pc = "delete"
  /\ live' = FALSE
  /\ Over(r)
  /\ UNCHANGED <<role, creator, invite, crossed, admitted>>

-----------------------------------------------------------------------------
(* Invites. One for an email asks whether that person is a member, and     *)
(* lets go of the emails of expired ones; an index keeps one per email.    *)
Made(i) == invite[i].kind # "none"
Open(i, link) == Made(i) /\ invite[i].link = link /\ invite[i].by = None /\ ~invite[i].revoked /\ ~invite[i].expired

AskInvite(r, actor, kind, to, for) ==
  /\ May(actor, Admin) /\ to <= role[actor]
  /\ (kind = "link") = (for = None)
  /\ Begin(r, [Actor(actor, IF kind = "email" THEN "invitee" ELSE "insert", "invite")
                 EXCEPT !.kind = kind, !.to = to, !.target = for])
  /\ UNCHANGED <<role, live, creator, invite, crossed, admitted>>

CheckInvitee(r) ==
  /\ req[r].pc = "invitee"
  /\ IF role[req[r].target] # 0 THEN Over(r) ELSE Goto(r, "release")
  /\ UNCHANGED <<role, live, creator, invite, crossed, admitted>>

ReleaseExpired(r) ==
  /\ req[r].pc = "release"
  /\ invite' = [i \in Invites |-> IF invite[i].expired THEN [invite[i] EXCEPT !.pending = FALSE] ELSE invite[i]]
  /\ Goto(r, "insert")
  /\ UNCHANGED <<role, live, creator, crossed, admitted>>

InsertInvite(r, i) ==
  LET q == req[r]
      held == q.kind = "email" /\ \E j \in Invites : invite[j].pending /\ invite[j].for = q.target
  IN /\ q.pc = "insert" /\ ~Made(i)
     /\ invite' = IF held THEN invite ELSE [invite EXCEPT ![i] = Sent(q.kind, q.to, q.target)]
     /\ Over(r)
     /\ UNCHANGED <<role, live, creator, crossed, admitted>>

(* resend_invite: open when it is found; the write only asks that nobody   *)
(* else sent it again. Its email stays released.                           *)
AskResend(r, actor, i) ==
  /\ May(actor, Admin)
  /\ Begin(r, [Actor(actor, "find invite", "resend") EXCEPT !.invite = i])
  /\ UNCHANGED <<role, live, creator, invite, crossed, admitted>>

FindInvite(r) ==
  LET i == req[r].invite IN
  /\ req[r].pc = "find invite"
  /\ req' = IF invite[i].kind = "email" /\ Open(i, invite[i].link) /\ invite[i].link + 1 \in Links
            THEN [req EXCEPT ![r].pc = "resend", ![r].link = invite[i].link] ELSE [req EXCEPT ![r] = [Idle EXCEPT !.pc = "over"]]
  /\ UNCHANGED <<role, live, creator, invite, crossed, admitted>>

Resend(r) ==
  LET i == req[r].invite IN
  /\ req[r].pc = "resend"
  /\ invite' = IF invite[i].link = req[r].link
               THEN [invite EXCEPT ![i].link = req[r].link + 1, ![i].expired = FALSE] ELSE invite
  /\ Over(r)
  /\ UNCHANGED <<role, live, creator, crossed, admitted>>

AskRevoke(r, actor, i) ==
  /\ May(actor, Admin)
  /\ Begin(r, [Actor(actor, "revoke", "revoke") EXCEPT !.invite = i])
  /\ UNCHANGED <<role, live, creator, invite, crossed, admitted>>

RevokeInvite(r) ==
  LET i == req[r].invite IN
  /\ req[r].pc = "revoke"
  /\ invite' = IF Made(i) THEN [invite EXCEPT ![i].revoked = TRUE, ![i].pending = FALSE] ELSE invite
  /\ Over(r)
  /\ UNCHANGED <<role, live, creator, crossed, admitted>>

(* Time passes; it matters to the invites nobody accepted or revoked.      *)
Expire(i) ==
  /\ Open(i, invite[i].link)
  /\ invite' = [invite EXCEPT ![i].expired = TRUE]
  /\ UNCHANGED <<role, live, creator, req, crossed, admitted>>

(* accept_invite: found open by its token, in a workspace that is live, for *)
(* this person, who is not a member yet; then claimed in one write; then   *)
(* the membership, which leaves an existing one alone.                     *)
AskAccept(r, u, i, link) ==
  /\ Open(i, link)
  /\ Begin(r, [Idle EXCEPT !.pc = "workspace", !.op = "accept", !.actor = u, !.invite = i, !.link = link])
  /\ UNCHANGED <<role, live, creator, invite, crossed, admitted>>

FindWorkspace(r) ==
  /\ req[r].pc = "workspace"
  /\ IF live /\ invite[req[r].invite].for \in {None, req[r].actor} THEN Goto(r, "membership") ELSE Over(r)
  /\ UNCHANGED <<role, live, creator, invite, crossed, admitted>>

FindMembership(r) ==
  /\ req[r].pc = "membership"
  /\ IF role[req[r].actor] = 0 THEN Goto(r, "claim") ELSE Over(r)
  /\ UNCHANGED <<role, live, creator, invite, crossed, admitted>>

\* Slip: the claim trusts what was found open.
ClaimAnyInvite(r) ==
  /\ req[r].pc = "claim"
  /\ invite' = [invite EXCEPT ![req[r].invite].by = req[r].actor, ![req[r].invite].pending = FALSE]
  /\ Goto(r, "join")
  /\ UNCHANGED <<role, live, creator, crossed, admitted>>

ClaimInvite(r) ==
  LET i == req[r].invite IN
  /\ req[r].pc = "claim"
  /\ IF Open(i, req[r].link)
     THEN invite' = [invite EXCEPT ![i].by = req[r].actor, ![i].pending = FALSE] /\ Goto(r, "join")
     ELSE UNCHANGED invite /\ Over(r)
  /\ UNCHANGED <<role, live, creator, crossed, admitted>>

Join(r) ==
  LET u == req[r].actor
      i == req[r].invite
  IN /\ req[r].pc = "join"
     /\ role' = IF role[u] = 0 THEN [role EXCEPT ![u] = invite[i].to] ELSE role
     /\ admitted' = [admitted EXCEPT ![i] = @ \cup {u}]
     /\ Over(r)
     /\ UNCHANGED <<live, creator, invite, crossed>>

(* A limit refuses a request, or the process stops before its next step.   *)
Stop(r) ==
  /\ req[r].pc \notin {"idle", "over"}
  /\ Over(r)
  /\ UNCHANGED <<role, live, creator, invite, crossed, admitted>>

Next ==
  \/ \E r \in Requests :
       \/ FindTarget(r) \/ KeepAnOwner(r) \/ SetRole(r) \/ Remove(r) \/ Delete(r)
       \/ CheckInvitee(r) \/ ReleaseExpired(r) \/ FindInvite(r) \/ Resend(r) \/ RevokeInvite(r)
       \/ FindWorkspace(r) \/ FindMembership(r) \/ ClaimInvite(r) \/ Join(r) \/ Stop(r)
       \/ \E i \in Invites : InsertInvite(r, i)
       \/ \E actor \in Users :
            \/ AskDelete(r, actor)
            \/ \E target \in Users : AskRemoval(r, actor, target)
            \/ \E target \in Users, to \in Roles : AskRole(r, actor, target, to)
            \/ \E i \in Invites : AskResend(r, actor, i) \/ AskRevoke(r, actor, i)
            \/ \E kind \in Kinds, to \in Roles, for \in Users \cup {None} : AskInvite(r, actor, kind, to, for)
            \/ \E i \in Invites, link \in Links : AskAccept(r, actor, i, link)
  \/ \E i \in Invites : Expire(i)

Spec == Init /\ [][Next]_vars
-----------------------------------------------------------------------------
TypeOK ==
  /\ role \in [Users -> 0..Owner] /\ live \in BOOLEAN /\ crossed \in BOOLEAN
  /\ creator \in Users \cup {None}
  /\ invite \in [Invites -> [kind : Kinds \cup {"none"}, to : 0..Owner, for : Users \cup {None}, link : Links,
                             pending : BOOLEAN, expired : BOOLEAN, revoked : BOOLEAN, by : Users \cup {None}]]
  /\ admitted \in [Invites -> SUBSET Users]

(* "a workspace always keeps at least one owner" (service.py:3).           *)
OwnerKept == Owners # {}

(* Whatever else is under way, invites, promotions, requests that stop     *)
(* halfway, an owner is kept, unless two requests were about to lower      *)
(* roles when one of them counted the owners.                              *)
OwnerKeptAlone == crossed \/ Owners # {}

(* "so a single-use link can't be accepted twice" (repository.py:147): an  *)
(* invite lets in at most one person, the one it names, whoever else had   *)
(* found it open, and however often it was sent again.                     *)
InviteAdmitsOne ==
  \A i \in Invites : \A u \in admitted[i] : admitted[i] = {u} /\ invite[i].for \in {None, u}
=============================================================================
