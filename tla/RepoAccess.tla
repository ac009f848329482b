----------------------------- MODULE RepoAccess -----------------------------
(***************************************************************************)
(* A repository's connections and what is kept of it (github/service.py,   *)
(* webhooks.py, repository.py, checkout.py, integrations/github_app.py):   *)
(* the App's installation changes at GitHub, GitHub tells of it in any     *)
(* order, workspaces connect and disconnect the repository, and index runs *)
(* find out for themselves that an installation is gone. Locks, statuses   *)
(* and pushes are in IndexJobs; here a run is what it asks GitHub for and  *)
(* what it stores.                                                         *)
(***************************************************************************)
EXTENDS Naturals, FiniteSets

CONSTANTS Workspaces,
          MaxChanges,   \* bound on what happens to the App at GitHub
          MaxRequests,  \* bound on connects, disconnects and index runs
          None

VARIABLES
  app,      \* at GitHub: the installation's id (0: none), suspended, has the repository
  sent,     \* webhook events GitHub has not got through yet
  handling, \* events whose delivery is recorded, not yet applied
  conn,     \* the repos documents: installation, access_status = active, parse_status = done
  req,      \* each workspace's request
  job,      \* the index run
  tokens,   \* the installations whose token is cached, valid or not
  stored,   \* what is kept of the repository: checkout, graph, facts
  changes, requests,
  blurred,  \* history: events crossed, were lost, or mixed suspension and selection
  strewn    \* history: a disconnect overlapped something that stores or connects

vars == <<app, sent, handling, conn, req, job, tokens, stored, changes, requests, blurred, strewn>>

Kept == {"checkout", "graph", "facts"}
Idle == [phase |-> "idle"]
Connected == {w \in Workspaces : conn[w] # None}
Readable == app.id # 0 /\ app.has /\ ~app.suspended
\* the disconnects that will purge, and the runs that will store
Purging == {w \in Workspaces : req[w].phase \in {"sole"} \cup Kept}
Storing == job.phase # "idle"

Init ==
  /\ app = [id |-> 1, suspended |-> FALSE, has |-> TRUE]
  /\ sent = {} /\ handling = {}
  /\ \E W \in SUBSET Workspaces :
       /\ conn = [w \in Workspaces |-> IF w \in W THEN [inst |-> 1, active |-> TRUE, done |-> TRUE] ELSE None]
       /\ stored = IF W = {} THEN {} ELSE Kept
  /\ req = [w \in Workspaces |-> Idle]
  /\ job = Idle
  /\ tokens \in {{}, {1}}
  /\ changes = 0 /\ requests = 0
  /\ blurred = FALSE /\ strewn = FALSE
-----------------------------------------------------------------------------
(* GitHub: it installs, uninstalls, suspends the App and selects the       *)
(* repository, and sends an event of each. A new installation has a new id.*)
Tell(kind, now) ==
  /\ changes < MaxChanges
  /\ changes' = changes + 1
  /\ app' = now
  /\ sent' = sent \cup {[n |-> changes, kind |-> kind, id |-> IF app.id = 0 THEN now.id ELSE app.id, has |-> now.has]}
  /\ UNCHANGED <<handling, conn, req, job, tokens, stored, requests, strewn>>
Uninstall == app.id # 0 /\ Tell("deleted", [id |-> 0, suspended |-> FALSE, has |-> FALSE]) /\ UNCHANGED blurred
Install(has) == app.id = 0 /\ Tell("created", [id |-> changes + 2, suspended |-> FALSE, has |-> has]) /\ UNCHANGED blurred
Suspend == app.id # 0 /\ ~app.suspended /\ Tell("suspend", [app EXCEPT !.suspended = TRUE]) /\ UNCHANGED blurred
\* unsuspend marks every connection active, those of a repository taken off too
Unsuspend == app.suspended /\ Tell("unsuspend", [app EXCEPT !.suspended = FALSE]) /\ blurred' = (blurred \/ ~app.has)
Select(has) ==
  /\ app.id # 0 /\ app.has # has
  /\ Tell(IF has THEN "added" ELSE "removed", [app EXCEPT !.has = has])
  /\ blurred' = (blurred \/ app.suspended)

(* The webhook: a delivery is recorded, applied, and forgotten again when  *)
(* its handler fails; one recorded by a process that died is never tried   *)
(* again. What is delivered twice is ignored.                              *)
FirstDelivery(e) ==
  /\ e \in sent
  /\ sent' = sent \ {e}
  /\ handling' = handling \cup {e}
  /\ UNCHANGED <<app, conn, req, job, tokens, stored, changes, requests, blurred, strewn>>
Handled(e) ==
  /\ e \in handling
  /\ handling' = handling \ {e}
  /\ UNCHANGED <<app, req, job, tokens, stored, changes, requests, strewn>>
HandlerFails(e) == Handled(e) /\ sent' = sent \cup {e} /\ UNCHANGED <<conn, blurred>>
HandlerDies(e) == Handled(e) /\ blurred' = TRUE /\ UNCHANGED <<conn, sent>>

Reattach(id) == [w \in Workspaces |-> IF conn[w] = None THEN None ELSE [conn[w] EXCEPT !.inst = id, !.active = TRUE]]
SetAccessStatus(id, active) ==
  [w \in Workspaces |-> IF conn[w] # None /\ conn[w].inst = id THEN [conn[w] EXCEPT !.active = active] ELSE conn[w]]
\* _on_installation and _on_repo_selection
Outcome(e) ==
  IF e.kind \in {"created", "added"} THEN IF e.has THEN Reattach(e.id) ELSE conn
  ELSE SetAccessStatus(e.id, e.kind = "unsuspend")
Apply(e) ==
  /\ Handled(e)
  /\ conn' = Outcome(e)
  /\ blurred' = \/ blurred
                \/ \E f \in (sent \cup handling) : f.n < e.n
                \/ \E w \in Workspaces : req[w].phase = "insert" /\ e.n >= req[w].asked
  /\ UNCHANGED sent
-----------------------------------------------------------------------------
(* connect: the user's token must show the repository, and the App be      *)
(* installed on it; then it is recorded and an index run queued.           *)
Ask(w, now) ==
  /\ req[w] = Idle /\ requests < MaxRequests
  /\ requests' = requests + 1
  /\ req' = [req EXCEPT ![w] = now]
  /\ UNCHANGED <<app, sent, handling, conn, job, tokens, stored, changes, blurred>>
Go(w, now) == req' = [req EXCEPT ![w] = now] /\ UNCHANGED <<app, sent, handling, job, tokens, changes, requests, blurred>>
GetRepo(w) == conn[w] = None /\ Readable /\ Ask(w, [phase |-> "installation"]) /\ UNCHANGED strewn
GetRepoInstallation(w) ==
  /\ req[w].phase = "installation"
  /\ Go(w, IF Readable THEN [phase |-> "insert", inst |-> app.id, asked |-> changes] ELSE Idle)
  /\ UNCHANGED <<conn, stored, strewn>>
Insert(w) ==
  /\ req[w].phase = "insert"
  /\ conn' = IF conn[w] = None THEN [conn EXCEPT ![w] = [inst |-> req[w].inst, active |-> TRUE, done |-> FALSE]] ELSE conn
  /\ strewn' = (strewn \/ Purging # {})
  /\ Go(w, Idle)
  /\ UNCHANGED stored

(* disconnect, and _purge when no other workspace has it connected.        *)
\* Slip: a connection GitHub no longer lets us read does not count
ReadableElsewhere(w) == \E v \in Workspaces \ {w} : conn[v] # None /\ conn[v].active
ConnectedElsewhere(w) == \E v \in Workspaces \ {w} : conn[v] # None
DisconnectReads(w) ==
  /\ conn[w] # None
  /\ Ask(w, [phase |-> IF ConnectedElsewhere(w) THEN "shared" ELSE "sole"])
  /\ strewn' = (strewn \/ Storing \/ \E v \in Workspaces : req[v].phase \in {"shared", "insert"})
Delete(w) ==
  /\ req[w].phase \in {"shared", "sole"}
  /\ conn' = [conn EXCEPT ![w] = None]
  /\ Go(w, IF req[w].phase = "sole" THEN [phase |-> "graph"] ELSE Idle)
  /\ UNCHANGED <<stored, strewn>>
After == [graph |-> "facts", facts |-> "checkout", checkout |-> "idle"]
Purge(w) ==
  /\ req[w].phase \in Kept
  /\ stored' = stored \ {req[w].phase}
  /\ Go(w, [phase |-> After[req[w].phase]])
  /\ UNCHANGED <<conn, strewn>>
DisconnectDies(w) ==
  /\ req[w].phase \in Kept
  /\ strewn' = TRUE
  /\ Go(w, Idle)
  /\ UNCHANGED <<conn, stored>>
-----------------------------------------------------------------------------
(* An index run: a connection GitHub still lets us read if there is one,   *)
(* its installation's token, the checkout, the graph, the facts.           *)
Step(now) == job' = now /\ UNCHANGED <<app, sent, handling, req, changes, blurred>>
FindAny ==
  LET first == IF \E w \in Connected : conn[w].active THEN {w \in Connected : conn[w].active} ELSE Connected IN
  /\ job = Idle /\ requests < MaxRequests
  /\ requests' = requests + 1
  /\ \E w \in first : Step([phase |-> "token", inst |-> conn[w].inst])
  /\ strewn' = (strewn \/ Purging # {})
  /\ UNCHANGED <<conn, tokens, stored>>
\* installation_token: cached until near its expiry; a 404 says it is gone
InstallationToken ==
  /\ job.phase = "token"
  /\ \/ job.inst \in tokens \cup {app.id} /\ Step([phase |-> "checkout", inst |-> job.inst]) /\ tokens' = tokens \cup {job.inst}
     \/ job.inst \notin tokens \cup {app.id} /\ Step([phase |-> "gone", inst |-> job.inst]) /\ UNCHANGED tokens
     \/ job.inst \notin tokens /\ Step([phase |-> "fail"]) /\ UNCHANGED tokens
  /\ UNCHANGED <<conn, stored, requests, strewn>>
TokenExpires(id) ==
  /\ id \in tokens
  /\ tokens' = tokens \ {id}
  /\ UNCHANGED <<app, sent, handling, conn, req, job, stored, changes, requests, blurred, strewn>>
RevokeGone ==
  /\ job.phase = "gone"
  /\ conn' = SetAccessStatus(job.inst, FALSE)
  /\ Step([phase |-> "fail"])
  /\ UNCHANGED <<tokens, stored, requests, strewn>>
\* update: what cannot be brought up to date is removed and cloned again
Update(works) ==
  /\ job.phase = "checkout"
  /\ works => Readable /\ job.inst = app.id
  /\ stored' = IF works THEN stored \cup {"checkout"} ELSE stored \ {"checkout"}
  /\ Step([phase |-> IF works THEN "graph" ELSE "fail"])
  /\ UNCHANGED <<conn, tokens, requests, strewn>>
Store ==
  /\ job.phase \in {"graph", "facts"}
  /\ stored' = stored \cup {job.phase}
  /\ Step([phase |-> IF job.phase = "graph" THEN "facts" ELSE "release"])
  /\ UNCHANGED <<conn, tokens, requests, strewn>>
\* _release writes the status of every connection there is now
Release ==
  /\ job.phase \in {"release", "fail"}
  /\ conn' = [w \in Workspaces |-> IF conn[w] = None THEN None ELSE [conn[w] EXCEPT !.done = (job.phase = "release")]]
  /\ Step(Idle)
  /\ UNCHANGED <<tokens, stored, requests, strewn>>

Next ==
  \/ Uninstall \/ Suspend \/ Unsuspend \/ \E has \in BOOLEAN : Install(has) \/ Select(has)
  \/ \E e \in sent : FirstDelivery(e)
  \/ \E e \in handling : Apply(e) \/ HandlerFails(e) \/ HandlerDies(e)
  \/ \E w \in Workspaces : GetRepo(w) \/ GetRepoInstallation(w) \/ Insert(w)
  \/ \E w \in Workspaces : DisconnectReads(w) \/ Delete(w) \/ Purge(w) \/ DisconnectDies(w)
  \/ FindAny \/ InstallationToken \/ RevokeGone \/ Store \/ Release
  \/ \E id \in tokens : TokenExpires(id)
  \/ \E works \in BOOLEAN : Update(works)

Spec == Init /\ [][Next]_vars
-----------------------------------------------------------------------------
TypeOK ==
  /\ app \in [id : 0..MaxChanges + 1, suspended : BOOLEAN, has : BOOLEAN]
  /\ \A w \in Connected : conn[w] \in [inst : 1..MaxChanges + 1, active : BOOLEAN, done : BOOLEAN]
  /\ stored \subseteq Kept /\ tokens \subseteq 1..MaxChanges + 1

\* nobody is at work, and GitHub has told us everything
Told == sent \cup handling = {}
Quiet == (\A w \in Workspaces : req[w] = Idle) /\ job = Idle

(* A connection is active exactly when GitHub lets us read the repository, *)
(* through the installation it names: as long as events are applied in the *)
(* order they happened, whatever a run in between finds out by itself      *)
(* (webhooks.py:105, jobs.py:78).                                          *)
AccessFollows ==
  Told /\ Quiet /\ ~blurred =>
    \A w \in Connected : conn[w].active = Readable /\ (Readable => conn[w].inst = app.id)

(* What is kept goes with the last connection, and only then: a repository *)
(* that is said to be indexed has its checkout, graph and facts            *)
(* (service.disconnect).                                                   *)
KeptWhileConnected ==
  Quiet /\ ~strewn =>
    /\ Connected = {} => stored = {}
    /\ \A w \in Connected : conn[w].done => stored = Kept

AccessSafe == TypeOK /\ AccessFollows /\ KeptWhileConnected
=============================================================================
