------------------------------ MODULE Accounts ------------------------------
(***************************************************************************)
(* Merging two accounts of one person (accounts/service.py, merge.py), and *)
(* the requests that meet a merge: sign-ins, refreshes, sign-in methods    *)
(* added or taken off, and ordinary work.                                  *)
(*                                                                         *)
(* There are no transactions: a merge locks both accounts, writes a record *)
(* and is a series of writes that is run again from the top when it was    *)
(* interrupted. Each write is an action, and a task may stop before any of *)
(* them; the reads a request starts with are one action. A run is resumed  *)
(* only when it is dead: its writes take less than STALL_AFTER.            *)
(***************************************************************************)
EXTENDS Naturals, FiniteSets

CONSTANTS Users,      \* the ids of users documents, in use or not yet: numbers
          Github,     \* GitHub accounts
          Emails,     \* verified addresses
          Merges,     \* the confirmed merges of a behaviour
          Requests,   \* requests of a behaviour that touch users, each made once
          Rows,       \* what a collection says users own
          None,
          MaxStops    \* bound: merge tasks that stop halfway

Kinds == {"github", "email"}
Ids == Github \cup Emails
Methods == [github : Github \cup {None}, email : Emails \cup {None}]
NoMethods == [k \in Kinds |-> None]
Roles == 0..2         \* in a workspace: not there, member, owner

VARIABLES
  user,      \* each users document: whether it exists, sign-in methods, merge_id
  proposal,  \* merge_proposals: what each account has proven and not confirmed
  merge,     \* account_merges, and the ids a confirmation has read
  task,      \* the program counter of each merge's task
  req,       \* requests under way
  session,   \* accounts with a live refresh token
  role,      \* each account's role in a workspace they may share
  owner,     \* whom each row names
  token,     \* accounts with a GitHub token in oauth_tokens
  stops,     \* tasks stopped so far
  late,      \* history: what requests wrote to an account a merge held or removed
  known      \* history: sign-in methods somebody proved and nobody took off

mergeVars == <<proposal, merge, task, stops>>
moved == <<role, owner, token>>
vars == <<user, req, session, moved, late, known, mergeVars>>

Idle == [pc |-> "idle", user |-> None, other |-> None, kind |-> "github", id |-> None]
NoMerge == [status |-> "none", survivor |-> None, absorbed |-> None,
            mine |-> NoMethods, theirs |-> NoMethods]

Present == {u \in Users : user[u].here}
Holders(k, v) == {u \in Present : user[u].methods[k] = v}
Held(u) == user[u].lock # None
Absorbed == {merge[m].absorbed : m \in {n \in Merges : merge[n].status # "none"}}
(* The second revocation of the account's sessions is behind.              *)
Past(u) == \E m \in Merges : /\ merge[m].absorbed = u
                             /\ merge[m].status = "done" \/ task[m] = "finish"

(* service.conflicts: an account holds one GitHub account and one address. *)
Conflicts(s, a) == \E k \in Kinds : None \notin {s[k], a[k]} /\ s[k] # a[k]

(* merge.merged_profile, for the sign-in methods.                          *)
Merged(s, a) == [k \in Kinds |-> IF s[k] # None THEN s[k] ELSE a[k]]

(* The unique indexes refuse these methods to u: another user has one.     *)
Taken(u, methods) ==
  \E k \in Kinds, w \in Present \ {u} : methods[k] # None /\ user[w].methods[k] = methods[k]

Init ==
  /\ user \in [Users -> [here : BOOLEAN, methods : Methods, lock : {None}]]
  /\ \A u \in Users : user[u].here <=> user[u].methods # NoMethods
  /\ \A u \in Users : ~Taken(u, user[u].methods)
  /\ \E u \in Users : ~user[u].here
  /\ proposal = [u \in Users |-> Idle]
  /\ merge = [m \in Merges |-> NoMerge]
  /\ task = [m \in Merges |-> "none"]
  /\ req = [q \in Requests |-> Idle]
  /\ session = Present
  /\ role \in [Users -> Roles] /\ \A u \in Users : role[u] # 0 => u \in Present
  /\ owner \in [Rows -> Present]
  /\ token = {u \in Users : user[u].methods["github"] # None}
  /\ stops = 0
  /\ late = {}
  /\ known = {user[u].methods[k] : u \in Users, k \in Kinds} \ {None}

-----------------------------------------------------------------------------
(* Proposals. They are made by requests, below; one per account.           *)

Forget(u) == proposal' = [s \in Users |-> IF s = u \/ proposal[s].user = u THEN Idle ELSE proposal[s]]

(* service.cancel                                                          *)
Cancel(u) ==
  /\ proposal[u] # Idle
  /\ Forget(u)
  /\ UNCHANGED <<user, req, session, moved, late, known, merge, task, stops>>

-----------------------------------------------------------------------------
(* service.confirm: what it reads, the two locks, the snapshots, the       *)
(* record.                                                                 *)

Goto(m, pc) == task' = [task EXCEPT ![m] = pc]

Confirm(m, u) ==
  LET p == proposal[u]
  IN /\ task[m] = "none"
     /\ u \in Present /\ p # Idle
     /\ p.user \in Present /\ user[p.user].methods[p.kind] = p.id     \* _still_proven
     /\ ~Conflicts(user[u].methods, user[p.user].methods)
     /\ merge' = [merge EXCEPT ![m].survivor = u, ![m].absorbed = p.user]
     /\ Goto(m, "lock1")
     /\ UNCHANGED <<user, proposal, req, session, moved, late, known, stops>>

Pair(m) == {merge[m].survivor, merge[m].absorbed}
FirstOf(m) == CHOOSE u \in Pair(m) : \A w \in Pair(m) : u <= w
SecondOf(m) == CHOOSE u \in Pair(m) : \A w \in Pair(m) : w <= u

(* repository.lock_user, then the next step or the one after a refusal.    *)
Lock(m, u, next, refused) ==
  /\ IF u \in Present /\ user[u].lock \in {None, m}
     THEN user' = [user EXCEPT ![u].lock = m] /\ Goto(m, next)
     ELSE UNCHANGED user /\ Goto(m, refused)
  /\ UNCHANGED <<proposal, merge, req, session, moved, stops, late, known>>

LockFirst(m) == task[m] = "lock1" /\ Lock(m, FirstOf(m), "lock2", "over")
LockSecond(m) == task[m] = "lock2" /\ Lock(m, SecondOf(m), "mine", "undo")

Unlock(m, u) == user' = [w \in Users |-> IF w = u /\ user[w].lock = m
                                         THEN [user[w] EXCEPT !.lock = None] ELSE user[w]]

LockUndone(m) ==
  /\ task[m] = "undo"
  /\ Unlock(m, FirstOf(m))
  /\ Goto(m, "over")
  /\ UNCHANGED <<proposal, merge, req, session, moved, stops, late, known>>

Snapshot(m) ==
  /\ \/ /\ task[m] = "mine"
        /\ merge' = [merge EXCEPT ![m].mine = user[merge[m].survivor].methods]
        /\ Goto(m, "theirs")
     \/ /\ task[m] = "theirs"
        /\ merge' = [merge EXCEPT ![m].theirs = user[merge[m].absorbed].methods]
        /\ Goto(m, "insert")
  /\ UNCHANGED <<user, proposal, req, session, moved, stops, late, known>>

InsertMerge(m) ==
  /\ task[m] = "insert"
  /\ merge' = [merge EXCEPT ![m].status = "running"]
  /\ Goto(m, "drop")
  /\ UNCHANGED <<user, proposal, req, session, moved, stops, late, known>>

DropProposals(m) ==
  /\ task[m] = "drop"
  /\ Forget(merge[m].survivor)
  /\ Goto(m, "revoke")
  /\ UNCHANGED <<user, merge, req, session, moved, stops, late, known>>

-----------------------------------------------------------------------------
(* merge.run: every step of it, in order.                                  *)

\* Slip: the sessions are revoked when the merge starts and never again.
RevokeFirst(m) ==
  /\ \/ task[m] = "revoke" /\ Goto(m, "forget") /\ session' = session \ {merge[m].absorbed}
     \/ task[m] = "revoke again" /\ Goto(m, "finish") /\ UNCHANGED session
  /\ UNCHANGED <<user, proposal, merge, req, moved, stops, late, known>>

(* revoke_user_sessions of the absorbed account, first and again last.     *)
Revoke(m) ==
  /\ \/ task[m] = "revoke" /\ Goto(m, "forget")
     \/ task[m] = "revoke again" /\ Goto(m, "finish")
  /\ session' = session \ {merge[m].absorbed}
  /\ UNCHANGED <<user, proposal, merge, req, moved, stops, late, known>>

ForgetAbsorbed(m) ==
  /\ task[m] = "forget"
  /\ Forget(merge[m].absorbed)
  /\ Goto(m, "seat")
  /\ UNCHANGED <<user, merge, req, session, moved, stops, late, known>>

(* _move_memberships: the seat changes hands in one write, or the better   *)
(* role is kept in one and the spare seat is left in the next.             *)
MoveSeat(m) ==
  LET s == merge[m].survivor
      a == merge[m].absorbed
  IN /\ task[m] = "seat"
     /\ \/ /\ role[a] = 0
           /\ UNCHANGED role
           /\ Goto(m, "rows")
        \/ /\ role[a] # 0 /\ role[s] = 0
           /\ role' = [role EXCEPT ![s] = role[a], ![a] = 0]
           /\ Goto(m, "rows")
        \/ /\ role[a] # 0 /\ role[s] # 0
           /\ role' = [role EXCEPT ![s] = IF role[a] > @ THEN role[a] ELSE @]
           /\ Goto(m, "spare")
     /\ UNCHANGED <<user, proposal, merge, req, session, owner, token, stops, late, known>>

DropSeat(m) ==
  /\ task[m] = "spare"
  /\ role' = [role EXCEPT ![merge[m].absorbed] = 0]
  /\ Goto(m, "rows")
  /\ UNCHANGED <<user, proposal, merge, req, session, owner, token, stops, late, known>>

MoveRows(m) ==
  /\ task[m] = "rows"
  /\ owner' = [r \in Rows |-> IF owner[r] = merge[m].absorbed THEN merge[m].survivor ELSE owner[r]]
  /\ Goto(m, "token")
  /\ UNCHANGED <<user, proposal, merge, req, session, role, token, stops, late, known>>

(* The survivor's own GitHub token wins; otherwise it takes the other's.   *)
FindToken(m) ==
  /\ task[m] = "token"
  /\ Goto(m, IF merge[m].survivor \in token THEN "drop token" ELSE "move token")
  /\ UNCHANGED <<user, proposal, merge, req, session, moved, stops, late, known>>

SettleToken(m) ==
  LET s == merge[m].survivor
      a == merge[m].absorbed
  IN /\ \/ /\ task[m] = "drop token"
           /\ token' = token \ {a}
           /\ Goto(m, "free")
        \/ /\ task[m] = "move token"
           /\ IF {s, a} \subseteq token      \* one token per owner: the write fails
              THEN UNCHANGED token /\ Goto(m, "dead")
              ELSE /\ token' = IF a \in token THEN (token \ {a}) \cup {s} ELSE token
                   /\ Goto(m, "free")
     /\ UNCHANGED <<user, proposal, merge, req, session, role, owner, stops, late, known>>

FreeMethods(m) ==
  /\ task[m] = "free"
  /\ user' = [user EXCEPT ![merge[m].absorbed].methods = NoMethods]
  /\ Goto(m, "take")
  /\ UNCHANGED <<proposal, merge, req, session, moved, stops, late, known>>

\* Slip: the profile is merged from the accounts as they are, not as they were.
TakeMethodsOnFile(m) ==
  LET s == merge[m].survivor
      methods == Merged(user[s].methods, user[merge[m].absorbed].methods)
  IN /\ task[m] = "take"
     /\ IF Taken(s, methods)
        THEN UNCHANGED user /\ Goto(m, "dead")
        ELSE user' = [user EXCEPT ![s].methods = methods] /\ Goto(m, "remove")
     /\ UNCHANGED <<proposal, merge, req, session, moved, stops, late, known>>

\* Slip: no index keeps the methods unique.
TakeAnyMethods(m) ==
  /\ task[m] = "take"
  /\ user' = [user EXCEPT ![merge[m].survivor].methods = Merged(merge[m].mine, merge[m].theirs)]
  /\ Goto(m, "remove")
  /\ UNCHANGED <<proposal, merge, req, session, moved, stops, late, known>>

(* update_user with the profile of the snapshots; it fails when somebody   *)
(* else has one of the methods by now.                                     *)
TakeMethods(m) ==
  LET s == merge[m].survivor
      methods == Merged(merge[m].mine, merge[m].theirs)
  IN /\ task[m] = "take"
     /\ IF Taken(s, methods)
        THEN UNCHANGED user /\ Goto(m, "dead")
        ELSE user' = [user EXCEPT ![s].methods = methods] /\ Goto(m, "remove")
     /\ UNCHANGED <<proposal, merge, req, session, moved, stops, late, known>>

\* Slip: an account that is gone already fails the merge.
RemovePresent(m) ==
  /\ task[m] = "remove"
  /\ IF merge[m].absorbed \in Present
     THEN /\ user' = [user EXCEPT ![merge[m].absorbed] = [here |-> FALSE, methods |-> NoMethods, lock |-> None]]
          /\ Goto(m, "revoke again")
     ELSE UNCHANGED user /\ Goto(m, "dead")
  /\ UNCHANGED <<proposal, merge, req, session, moved, stops, late, known>>

RemoveAbsorbed(m) ==
  /\ task[m] = "remove"
  /\ user' = [user EXCEPT ![merge[m].absorbed] = [here |-> FALSE, methods |-> NoMethods, lock |-> None]]
  /\ Goto(m, "revoke again")
  /\ UNCHANGED <<proposal, merge, req, session, moved, stops, late, known>>

FinishMerge(m) ==
  /\ task[m] = "finish"
  /\ merge' = [merge EXCEPT ![m].status = "done"]
  /\ Goto(m, "unlock")
  /\ UNCHANGED <<user, proposal, req, session, moved, stops, late, known>>

UnlockSurvivor(m) ==
  /\ task[m] = "unlock"
  /\ Unlock(m, merge[m].survivor)
  /\ Goto(m, "over")
  /\ UNCHANGED <<proposal, merge, req, session, moved, stops, late, known>>

(* The process stops. resume_stalled runs the record again, if it is there *)
(* and not done.                                                           *)
Stop(m) ==
  /\ task[m] \notin {"none", "over", "dead"} /\ stops < MaxStops
  /\ stops' = stops + 1
  /\ Goto(m, "dead")
  /\ UNCHANGED <<user, proposal, merge, req, session, moved, late, known>>

Resume(m) ==
  /\ task[m] = "dead" /\ merge[m].status = "running"
  /\ Goto(m, "revoke")
  /\ UNCHANGED <<user, proposal, merge, req, session, moved, stops, late, known>>

MergeStep(m) ==
  \/ LockFirst(m) \/ LockSecond(m) \/ LockUndone(m)
  \/ Snapshot(m) \/ InsertMerge(m) \/ DropProposals(m)
  \/ Revoke(m) \/ ForgetAbsorbed(m) \/ MoveSeat(m) \/ DropSeat(m) \/ MoveRows(m)
  \/ FindToken(m) \/ SettleToken(m) \/ FreeMethods(m) \/ TakeMethods(m)
  \/ RemoveAbsorbed(m) \/ FinishMerge(m) \/ UnlockSurvivor(m) \/ Resume(m)

-----------------------------------------------------------------------------
(* Requests. A sign-in, or a method added, looks first and writes after.   *)

Then(q, pc, u, k, v) ==
  req' = [req EXCEPT ![q] = [pc |-> pc, user |-> u, other |-> None, kind |-> k, id |-> v]]
Over(q) == Then(q, "over", None, "github", None)
Late(what, u, when) == late' = IF when THEN late \cup {<<what, u>>} ELSE late

(* sign_in_with_github and native.login: refused while a merge holds them. *)
SignIn(q, k, v) ==
  /\ req[q] = Idle
  /\ \A u \in Holders(k, v) : ~Held(u)
  /\ IF k = "github" THEN Then(q, "upsert", None, k, v)
     ELSE \E u \in Holders(k, v) : Then(q, "session", u, k, v)
  /\ UNCHANGED <<user, session, moved, late, known, mergeVars>>

(* upsert_github_user: whoever has that GitHub account by now, or a new    *)
(* user with a fresh id.                                                   *)
Upsert(q) ==
  LET v == req[q].id
  IN /\ req[q].pc = "upsert"
     /\ \/ \E u \in Holders("github", v) : Then(q, "token", u, "github", v) /\ UNCHANGED user
        \/ /\ Holders("github", v) = {}
           /\ \E u \in Users \ (Present \cup Absorbed) :
                /\ user' = [user EXCEPT ![u].here = TRUE, ![u].methods["github"] = v]
                /\ Then(q, "token", u, "github", v)
     /\ known' = known \cup {v}
     /\ UNCHANGED <<session, moved, late, mergeVars>>

(* oauth_tokens.save: of a sign-in, of a link, or of the account whose     *)
(* GitHub a link has proven.                                               *)
SaveToken(q) ==
  LET u == IF req[q].pc = "proven" THEN req[q].other ELSE req[q].user
  IN /\ \/ req[q].pc = "token" /\ Then(q, "session", u, "github", req[q].id)
        \/ req[q].pc = "linked" /\ Over(q)
        \/ req[q].pc = "proven" /\ req' = [req EXCEPT ![q].pc = "propose"]
     /\ token' = token \cup {u}
     /\ Late("token", u, Held(u) \/ u \notin Present)
     /\ UNCHANGED <<user, session, role, owner, known, mergeVars>>

StoreSession(q) ==
  LET u == req[q].user
  IN /\ req[q].pc = "session"
     /\ Over(q)
     /\ session' = session \cup {u}
     /\ Late("session", u, Past(u))
     /\ UNCHANGED <<user, moved, known, mergeVars>>

(* auth.service.rotate: the old token is claimed, the next is stored.      *)
ClaimRefresh(q, u) ==
  /\ req[q] = Idle /\ u \in session
  /\ session' = session \ {u}
  /\ Then(q, "session", u, "github", None)
  /\ UNCHANGED <<user, moved, late, known, mergeVars>>

(* link_github and finish_add_email: a method of another account proves    *)
(* that account too; one that nobody has is added.                         *)
Prove(q, u, k, v) ==
  /\ req[q] = Idle /\ u \in Present
  /\ k = "email" => user[u].methods[k] = None
  /\ IF Holders(k, v) \subseteq {u} THEN Then(q, "add", u, k, v)
     ELSE \E w \in Holders(k, v) :
            /\ k = "github" => ~Held(w) /\ ~Conflicts(user[u].methods, user[w].methods)
            /\ req' = [req EXCEPT ![q] = [pc |-> IF k = "github" THEN "proven" ELSE "propose",
                                         user |-> u, other |-> w, kind |-> k, id |-> v]]
  /\ UNCHANGED <<user, session, moved, late, known, mergeVars>>

Propose(q) ==
  LET r == req[q]
  IN /\ r.pc = "propose"
     /\ proposal' = [proposal EXCEPT ![r.user] = [r EXCEPT !.user = r.other]]
     /\ Over(q)
     /\ UNCHANGED <<user, session, moved, late, known, merge, task, stops>>

AddMethod(q) ==
  LET r == req[q]
      methods == [user[r.user].methods EXCEPT ![r.kind] = r.id]
  IN /\ r.pc = "add"
     /\ IF r.user \notin Present \/ Taken(r.user, methods)
        THEN Over(q) /\ UNCHANGED <<user, late, known>>
        ELSE /\ user' = [user EXCEPT ![r.user].methods = methods]
             /\ Late("method", r.user, Held(r.user))
             /\ known' = (known \ {user[r.user].methods[r.kind]}) \cup {r.id}
             /\ IF r.kind = "github" THEN Then(q, "linked", r.user, "github", r.id) ELSE Over(q)
     /\ UNCHANGED <<session, moved, mergeVars>>

(* unlink_github and unlink_email: the other method must be there.         *)
AskUnlink(q, u, k) ==
  /\ req[q] = Idle /\ u \in Present
  /\ None \notin {user[u].methods[kk] : kk \in Kinds}
  /\ Then(q, "unlink", u, k, user[u].methods[k])
  /\ UNCHANGED <<user, session, moved, late, known, mergeVars>>

Unlink(q) ==
  LET r == req[q]
  IN /\ r.pc = "unlink"
     /\ Over(q)
     /\ IF r.user \notin Present THEN UNCHANGED <<user, token, late, known>>
        ELSE /\ user' = [user EXCEPT ![r.user].methods[r.kind] = None]
             /\ known' = known \ {user[r.user].methods[r.kind]}
             /\ token' = IF r.kind = "github" THEN token \ {r.user} ELSE token
             /\ Late("method", r.user, Held(r.user))
     /\ UNCHANGED <<session, role, owner, mergeVars>>

(* Any request that names its user in what it writes.                      *)
Work(q, u) ==
  /\ req[q] = Idle /\ u \in Present
  /\ Then(q, "work", u, "github", None)
  /\ UNCHANGED <<user, session, moved, late, known, mergeVars>>

WriteRow(q, r) ==
  LET u == req[q].user
  IN /\ req[q].pc = "work"
     /\ Over(q)
     /\ owner' = [owner EXCEPT ![r] = u]
     /\ Late("row", u, Held(u) \/ u \notin Present)
     /\ UNCHANGED <<user, session, role, token, known, mergeVars>>

Next ==
  \/ \E m \in Merges : MergeStep(m) \/ Stop(m) \/ \E u \in Users : Confirm(m, u)
  \/ \E u \in Users : Cancel(u)
  \/ \E q \in Requests :
       \/ Upsert(q) \/ SaveToken(q) \/ StoreSession(q) \/ Propose(q) \/ AddMethod(q) \/ Unlink(q)
       \/ \E r \in Rows : WriteRow(q, r)
       \/ \E u \in Users : Work(q, u) \/ ClaimRefresh(q, u)
       \/ \E u \in Users, k \in Kinds : AskUnlink(q, u, k)
       \/ \E v \in Github : SignIn(q, "github", v) \/ \E u \in Users : Prove(q, u, "github", v)
       \/ \E v \in Emails : SignIn(q, "email", v) \/ \E u \in Users : Prove(q, u, "email", v)

Spec == Init /\ [][Next]_vars

(* The event loop runs a merge's task, and the loop of main.py resumes.    *)
Fairness == \A m \in Merges : WF_vars(MergeStep(m))
FairSpec == Spec /\ Fairness

-----------------------------------------------------------------------------
TypeOK ==
  /\ user \in [Users -> [here : BOOLEAN, methods : Methods, lock : Merges \cup {None}]]
  /\ \A u \in Users : ~(user[u].here /\ Taken(u, user[u].methods))     \* the unique indexes
  /\ role \in [Users -> Roles] /\ owner \in [Rows -> Users]
  /\ token \subseteq Users /\ session \subseteq Users
  /\ \A m \in Merges : merge[m].status # "none" => Cardinality(Pair(m)) = 2

(* A merge that is done leaves nothing behind: the absorbed account is     *)
(* gone, and no row, seat, GitHub token or live session names it, however  *)
(* often the run stopped, but for what a request that had looked at the    *)
(* account before wrote after it was locked.                               *)
MergeLeavesNothing ==
  \A m \in Merges : merge[m].status = "done" =>
    LET a == merge[m].absorbed
    IN /\ a \notin Present /\ role[a] = 0
       /\ \A r \in Rows : owner[r] = a => <<"row", a>> \in late
       /\ a \in token => <<"token", a>> \in late
       /\ a \in session => <<"session", a>> \in late

(* Whoever could sign in still can: a method that was proven and not taken *)
(* off belongs to some account, or to a merge that has yet to give it to   *)
(* the survivor. Not for methods added to or taken off an account while a  *)
(* merge holds it: the profile written last is that of the snapshots. Nor  *)
(* when a method was added after the merge had looked for conflicts and    *)
(* before it held the account: the survivor's replaces the other's.        *)
MethodsKept ==
  \A v \in known :
    \/ \E u \in Present, k \in Kinds : user[u].methods[k] = v
    \/ \E m \in Merges, k \in Kinds : merge[m].status = "running" /\ merge[m].theirs[k] = v
    \/ \E m \in Merges, u \in Users : u \in Pair(m) /\ <<"method", u>> \in late
    \/ \E m \in Merges : Conflicts(merge[m].mine, merge[m].theirs)

(* "a merge that stops halfway is simply run again from the top until it   *)
(* finishes" (merge.py:4), unless somebody else was given one of the       *)
(* methods while nobody held it.                                           *)
Blocked(m) == Taken(merge[m].survivor, Merged(merge[m].mine, merge[m].theirs))
MergesFinish == \A m \in Merges : merge[m].status = "running" ~> merge[m].status = "done" \/ Blocked(m)

(* "This account is being merged with another. Try again in a minute."     *)
(* (service.py:26): an account that a merge holds is free again, or gone,  *)
(* at some time.                                                           *)
LockedIsTemporary == \A u \in Users : Held(u) ~> ~Held(u)
=============================================================================
