------------------------------ MODULE MCPeople ------------------------------
(***************************************************************************)
(* Who may come in, and what it needs of others, checked on small          *)
(* instances: Sessions, and beside it the components named below. A        *)
(* behaviour is of one of them, `part`; the variables of the others rest.  *)
(***************************************************************************)
EXTENDS Sessions, TLC

CONSTANTS
  Others, Challenges, MaxAttempts, MaxResends, MaxCodes, Products, MaxTokens,
  Users, Invites, None,
  Accs, Github, Emails, Rows

VARIABLES
  part,
  ch, mailed, user, session, codeReq, tried, redeemed, since, late,
  conn, tokenDoc, issued, usable, good, grantReq, lost,
  role, live, creator, invite, wsReq, crossed, admitted,
  account, proposal, merge, mergeTask, accReq, signedIn, seat, owner, token,
  stops, accLate, known,
  app, sent, handling, repoConn, asks, job, fresh, stored, changes, requests,
  blurred, strewn

Codes == INSTANCE Codes WITH Requests <- Others, req <- codeReq
Grants == INSTANCE Grants WITH Requests <- Others, doc <- tokenDoc, live <- usable, req <- grantReq
Members == INSTANCE Workspaces WITH req <- wsReq
Accounts == INSTANCE Accounts WITH Users <- Accs, Merges <- Requests,
  MaxStops <- 1, user <- account, task <- mergeTask, req <- accReq, session <- signedIn, role <- seat, late <- accLate
Access == INSTANCE RepoAccess WITH Workspaces <- Requests, MaxChanges <- 2, MaxRequests <- 2,
  conn <- repoConn, req <- asks, tokens <- fresh

ofCodes == <<ch, mailed, user, session, codeReq, tried, redeemed, since, late>>
ofGrants == <<conn, tokenDoc, issued, usable, good, grantReq, lost>>
ofMembers == <<role, live, creator, invite, wsReq, crossed, admitted>>
ofAccounts == <<account, proposal, merge, mergeTask, accReq, signedIn, seat, owner, token,
  stops, accLate, known>>
ofAccess == <<app, sent, handling, repoConn, asks, job, fresh, stored, changes, requests,
  blurred, strewn>>

MCInit ==
  /\ Init
  /\ part \in {"sessions", "codes", "grants", "workspaces", "accounts", "access"}
  /\ IF part = "codes" THEN Codes!Init
     ELSE /\ ch = None /\ mailed = None /\ user = None /\ session = None
          /\ codeReq = None /\ tried = None /\ redeemed = None
          /\ since = None /\ late = None
  /\ IF part = "grants" THEN Grants!Init
     ELSE /\ conn = None /\ tokenDoc = None /\ issued = None
          /\ usable = None /\ good = None /\ grantReq = None /\ lost = None
  /\ IF part = "workspaces" THEN Members!Init /\ \A i \in Invites :
       IF Members!Made(i) THEN invite[i].to = Members!Owner /\ Cardinality(Members!Members) = 1 /\ creator = None
       ELSE creator = None \/ Cardinality(Members!Members) = 2
     ELSE /\ role = None /\ live = None /\ creator = None /\ invite = None
          /\ wsReq = None /\ crossed = None /\ admitted = None
  /\ IF part = "accounts" THEN Accounts!Init /\ Accounts!Present = {1, 2} /\ seat[1] = 1 /\ seat[3] = 0
       /\ seat[2] = IF owner = [r \in Rows |-> 1] THEN 2 ELSE 0
     ELSE /\ account = None /\ proposal = None /\ merge = None
          /\ mergeTask = None /\ accReq = None /\ signedIn = None
          /\ seat = None /\ owner = None /\ token = None /\ stops = None
          /\ accLate = None /\ known = None
  /\ IF part = "access" THEN Access!Init
     ELSE /\ app = None /\ sent = None /\ handling = None
          /\ repoConn = None /\ asks = None /\ job = None /\ fresh = None
          /\ stored = None /\ changes = None /\ requests = None
          /\ blurred = None /\ strewn = None

InSessions == part = "sessions" /\ UNCHANGED <<part, ofCodes, ofGrants, ofMembers, ofAccounts, ofAccess>>
InCodes == part = "codes" /\ UNCHANGED <<part, vars, ofGrants, ofMembers, ofAccounts, ofAccess>>
InGrants == part = "grants" /\ UNCHANGED <<part, vars, ofCodes, ofMembers, ofAccounts, ofAccess>>
InMembers == part = "workspaces" /\ UNCHANGED <<part, vars, ofCodes, ofGrants, ofAccounts, ofAccess>>
InAccounts == part = "accounts" /\ UNCHANGED <<part, vars, ofCodes, ofGrants, ofMembers, ofAccess>>
InAccess == part = "access" /\ UNCHANGED <<part, vars, ofCodes, ofGrants, ofMembers, ofAccounts>>

SessionsNext ==
  \/ \E t \in Tokens :
       \/ InSessions /\ CreateSession(t)
       \/ InSessions /\ GraceEnds(t)
       \/ InSessions /\ Expire(t)
       \/ InSessions /\ Remove(t)
  \/ \E r \in Requests, t \in Tokens :
       \/ InSessions /\ Refresh(r, t)
       \/ InSessions /\ Logout(r, t)
       \/ InSessions /\ Claim(r, t)
       \/ InSessions /\ ClaimSuccessor(r, t)
  \/ \E r \in Requests :
       \/ InSessions /\ ClaimFails(r)
       \/ InSessions /\ FindSuccessor(r)
       \/ InSessions /\ ClaimSuccessorFails(r)
       \/ InSessions /\ Insert(r)
       \/ InSessions /\ Reject(r)
       \/ InSessions /\ FindFamily(r)
       \/ InSessions /\ RevokeFamily(r)
       \/ InSessions /\ Crash(r)
  \/ InSessions /\ RevokeUserSessions

CodesNext ==
  \/ \E r \in Others :
       \/ InCodes /\ Codes!DeleteEarlier(r)
       \/ InCodes /\ Codes!Renew(r)
       \/ InCodes /\ Codes!TakeAttempt(r)
       \/ InCodes /\ Codes!Consume(r)
       \/ InCodes /\ Codes!Verify(r)
       \/ InCodes /\ Codes!Reset(r)
       \/ InCodes /\ Codes!Login(r)
       \/ InCodes /\ Codes!Rehash(r)
       \/ InCodes /\ Codes!CreateSession(r)
       \/ InCodes /\ Codes!Stop(r)
  \/ \E r \in Others, p \in Codes!Purposes : InCodes /\ Codes!AskCode(r, p)
  \/ \E r \in Others, c \in Challenges :
       \/ InCodes /\ Codes!InsertChallenge(r, c)
       \/ InCodes /\ Codes!InsertDecoy(r, c)
       \/ InCodes /\ Codes!AskResend(r, c)
  \/ \E r \in Others, c \in Challenges, k \in Codes!Codes : InCodes /\ Codes!AskRedeem(r, c, k)
  \/ \E c \in Challenges :
       \/ InCodes /\ Codes!Cools(c)
       \/ InCodes /\ Codes!Expire(c)

GrantsNext ==
  \/ \E r \in Others :
       \/ InGrants /\ Grants!Refresh(r)
       \/ InGrants /\ Grants!Save(r)
       \/ InGrants /\ Grants!Reread(r)
       \/ InGrants /\ Grants!Call(r)
       \/ InGrants /\ Grants!MarkReauth(r)
       \/ InGrants /\ Grants!Store(r)
       \/ InGrants /\ Grants!Connect(r)
       \/ InGrants /\ Grants!LookAtSiblings(r)
       \/ InGrants /\ Grants!DropGrant(r)
       \/ InGrants /\ Grants!Stop(r)
  \/ \E r \in Others, p \in Products :
       \/ InGrants /\ Grants!Use(r, p)
       \/ InGrants /\ Grants!Authorize(r, p)
       \/ InGrants /\ Grants!Disconnect(r, p)
  \/ InGrants /\ Grants!NearExpiry
  \/ InGrants /\ Grants!RevokeGrant

MembersNext ==
  \/ \E r \in Requests :
       \/ InMembers /\ Members!FindTarget(r)
       \/ InMembers /\ Members!KeepAnOwner(r)
       \/ InMembers /\ Members!SetRole(r)
       \/ InMembers /\ Members!Remove(r)
       \/ InMembers /\ Members!Delete(r)
       \/ InMembers /\ Members!CheckInvitee(r)
       \/ InMembers /\ Members!ReleaseExpired(r)
       \/ InMembers /\ Members!FindInvite(r)
       \/ InMembers /\ Members!Resend(r)
       \/ InMembers /\ Members!RevokeInvite(r)
       \/ InMembers /\ Members!FindWorkspace(r)
       \/ InMembers /\ Members!FindMembership(r)
       \/ InMembers /\ Members!ClaimInvite(r)
       \/ InMembers /\ Members!Join(r)
       \/ InMembers /\ Members!Stop(r)
  \/ \E r \in Requests, i \in Invites : InMembers /\ Members!InsertInvite(r, i)
  \/ \E r \in Requests, u \in Users : InMembers /\ Members!AskDelete(r, u)
  \/ \E r \in Requests, u, w \in Users : InMembers /\ Members!AskRemoval(r, u, w)
  \/ \E r \in Requests, u, w \in Users, to \in Members!Roles : InMembers /\ Members!AskRole(r, u, w, to)
  \/ \E r \in Requests, u \in Users, i \in Invites :
       \/ InMembers /\ Members!AskResend(r, u, i)
       \/ InMembers /\ Members!AskRevoke(r, u, i)
  \/ \E r \in Requests, u \in Users, kind \in Members!Kinds, to \in Members!Roles,
        w \in Users \cup {None} : InMembers /\ Members!AskInvite(r, u, kind, to, w)
  \/ \E r \in Requests, u \in Users, i \in Invites, link \in Members!Links : InMembers /\ Members!AskAccept(r, u, i, link)
  \/ \E i \in Invites : InMembers /\ Members!Expire(i)

AccountsNext ==
  \/ \E m \in Requests :
       \/ InAccounts /\ Accounts!LockFirst(m)
       \/ InAccounts /\ Accounts!LockSecond(m)
       \/ InAccounts /\ Accounts!LockUndone(m)
       \/ InAccounts /\ Accounts!Snapshot(m)
       \/ InAccounts /\ Accounts!InsertMerge(m)
       \/ InAccounts /\ Accounts!DropProposals(m)
       \/ InAccounts /\ Accounts!Revoke(m)
       \/ InAccounts /\ Accounts!ForgetAbsorbed(m)
       \/ InAccounts /\ Accounts!MoveSeat(m)
       \/ InAccounts /\ Accounts!DropSeat(m)
       \/ InAccounts /\ Accounts!MoveRows(m)
       \/ InAccounts /\ Accounts!FindToken(m)
       \/ InAccounts /\ Accounts!SettleToken(m)
       \/ InAccounts /\ Accounts!FreeMethods(m)
       \/ InAccounts /\ Accounts!TakeMethods(m)
       \/ InAccounts /\ Accounts!RemoveAbsorbed(m)
       \/ InAccounts /\ Accounts!FinishMerge(m)
       \/ InAccounts /\ Accounts!UnlockSurvivor(m)
       \/ InAccounts /\ Accounts!Resume(m)
       \/ InAccounts /\ Accounts!Stop(m)
  \/ \E m \in Requests, u \in Accs : InAccounts /\ Accounts!Confirm(m, u)
  \/ \E u \in Accs : InAccounts /\ Accounts!Cancel(u)
  \/ \E q \in Requests :
       \/ InAccounts /\ Accounts!Upsert(q)
       \/ InAccounts /\ Accounts!SaveToken(q)
       \/ InAccounts /\ Accounts!StoreSession(q)
       \/ InAccounts /\ Accounts!Propose(q)
       \/ InAccounts /\ Accounts!AddMethod(q)
       \/ InAccounts /\ Accounts!Unlink(q)
  \/ \E q \in Requests, r \in Rows : InAccounts /\ Accounts!WriteRow(q, r)
  \/ \E q \in Requests, u \in Accs :
       \/ InAccounts /\ Accounts!Work(q, u)
       \/ InAccounts /\ Accounts!ClaimRefresh(q, u)
  \/ \E q \in Requests, u \in Accs, k \in Accounts!Kinds : InAccounts /\ Accounts!AskUnlink(q, u, k)
  \/ \E q \in Requests, g \in Github : InAccounts /\ Accounts!SignIn(q, "github", g)
  \/ \E q \in Requests, e \in Emails : InAccounts /\ Accounts!SignIn(q, "email", e)
  \/ \E q \in Requests, u \in Accs, g \in Github : InAccounts /\ Accounts!Prove(q, u, "github", g)
  \/ \E q \in Requests, u \in Accs, e \in Emails : InAccounts /\ Accounts!Prove(q, u, "email", e)

AccessNext ==
  \/ InAccess /\ (\E e \in sent : Access!FirstDelivery(e))
  \/ InAccess /\ (\E e \in handling : Access!Apply(e))
  \/ InAccess /\ (\E e \in handling : Access!HandlerFails(e))
  \/ InAccess /\ (\E e \in handling : Access!HandlerDies(e))
  \/ InAccess /\ Access!Uninstall
  \/ InAccess /\ Access!Suspend
  \/ InAccess /\ Access!Unsuspend
  \/ InAccess /\ Access!FindAny
  \/ InAccess /\ Access!InstallationToken
  \/ InAccess /\ Access!RevokeGone
  \/ InAccess /\ Access!Store
  \/ InAccess /\ Access!Release
  \/ \E has \in BOOLEAN :
       \/ InAccess /\ Access!Install(has)
       \/ InAccess /\ Access!Select(has)
  \/ \E w \in Requests :
       \/ InAccess /\ Access!GetRepo(w)
       \/ InAccess /\ Access!GetRepoInstallation(w)
       \/ InAccess /\ Access!Insert(w)
       \/ InAccess /\ Access!DisconnectReads(w)
       \/ InAccess /\ Access!Delete(w)
       \/ InAccess /\ Access!Purge(w)
       \/ InAccess /\ Access!DisconnectDies(w)
  \/ \E id \in 1..3 : InAccess /\ Access!TokenExpires(id)
  \/ \E works \in BOOLEAN : InAccess /\ Access!Update(works)

MCNext ==
  \/ SessionsNext
  \/ CodesNext
  \/ GrantsNext
  \/ MembersNext
  \/ AccountsNext
  \/ AccessNext

allVars == <<part, vars, ofCodes, ofGrants, ofMembers, ofAccounts, ofAccess>>
MCSpec == MCInit /\ [][MCNext]_allVars

Symmetry == Permutations(Others) \cup Permutations(Requests) \cup Permutations(Github)
-----------------------------------------------------------------------------
(* Codes: guesses at a code are bounded, a challenge lets one request      *)
(* through, and a reset signs everybody else out, whatever races it.       *)
CodesSafe == part = "codes" => 
  Codes!TypeOK /\ Codes!AttemptsBounded /\ Codes!RedeemedOnce /\ Codes!ResetSignsOut

(* Grants: the refresh token that is stored is one the provider takes, or  *)
(* its successor is on its way or lost.                                    *)
TokenKept == part = "grants" => Grants!TypeOK /\ Grants!TokenKept

(* Workspaces: an owner is kept, whatever else is under way, unless two    *)
(* requests were about to lower roles when one of them counted the owners. *)
OwnerKeptAlone == part = "workspaces" => Members!TypeOK /\ Members!OwnerKeptAlone

(* Workspaces: an invite lets in at most one person, the one it names.     *)
InviteAdmitsOne == part = "workspaces" => Members!InviteAdmitsOne

(* Accounts: a merge that is done leaves nothing of the absorbed account,  *)
(* and whoever could sign in still can.                                    *)
MergeSafe == part = "accounts" => Accounts!TypeOK /\ Accounts!MergeLeavesNothing /\ Accounts!MethodsKept

(* RepoAccess: a connection is active exactly when the repository can be   *)
(* read, and what is kept of a repository goes with its last connection.   *)
AccessSafe == part = "access" => Access!AccessSafe
=============================================================================
