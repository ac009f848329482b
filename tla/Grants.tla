------------------------------- MODULE Grants -------------------------------
(***************************************************************************)
(* The OAuth grant a workspace's products share (db/oauth_tokens.py,       *)
(* connectors/oauth.py, auth_backends.py) and the connections on it        *)
(* (connectors/service.py): tokens refreshed near their expiry by whoever  *)
(* needs them, products connected and disconnected. A refresh token works  *)
(* once. Calls to Mongo and to the provider after the first are actions of *)
(* their own.                                                              *)
(***************************************************************************)
EXTENDS Naturals

CONSTANTS Products,   \* connectors on one credential: Jira and Confluence
          Requests,   \* requests of a behaviour, each made once
          MaxTokens,  \* bound: token pairs the provider issues
          None

VARIABLES
  conn,     \* connections: each product's status
  doc,      \* oauth_tokens: the pair stored, its status, whether it is about to expire
  issued,   \* the provider: pairs issued so far, by number
  live,     \* the provider: refresh tokens it takes
  good,     \* the provider: access tokens it takes
  req,      \* requests under way
  lost      \* history: pairs whose answer nobody stored

vars == <<conn, doc, issued, live, good, req, lost>>
provider == <<issued, live, good>>

Statuses == {"none", "active", "needs_reauth", "disconnected"}
Idle == [pc |-> "idle", product |-> None, had |-> 0, token |-> 0]

Init ==
  /\ conn = [p \in Products |-> "disconnected"]
  /\ doc = [token |-> 0, status |-> "none", due |-> FALSE]
  /\ issued = 0
  /\ live = {}
  /\ good = {}
  /\ req = [r \in Requests |-> Idle]
  /\ lost = {}

Goto(r, pc) == req' = [req EXCEPT ![r].pc = pc]
Over(r) == Goto(r, "over")
Issue(revoked) ==
  /\ issued < MaxTokens
  /\ issued' = issued + 1
  /\ live' = (live \ revoked) \cup {issued + 1}
  /\ good' = good \cup {issued + 1}

-----------------------------------------------------------------------------
(* NativeOAuth.request and get_fresh_access_token: what is stored is read. *)

Use(r, p) ==
  /\ req[r].pc = "idle" /\ conn[p] = "active"
  /\ doc.status = "active"
  /\ req' = [req EXCEPT ![r] = [pc |-> IF doc.due THEN "refresh" ELSE "call", product |-> p,
                               had |-> doc.token, token |-> doc.token]]
  /\ UNCHANGED <<conn, doc, provider, lost>>

(* _token_request at the provider: any answer but 200 counts as a refusal; *)
(* when no answer comes at all the request fails with nothing stored.      *)
Refresh(r) ==
  /\ req[r].pc = "refresh"
  /\ \/ /\ req[r].had \in live
        /\ Issue({req[r].had})
        /\ \/ req' = [req EXCEPT ![r].pc = "save", ![r].token = issued + 1] /\ UNCHANGED lost
           \/ Over(r) /\ lost' = lost \cup {issued + 1}
     \/ Goto(r, "reread") /\ UNCHANGED <<provider, lost>>
     \/ Over(r) /\ UNCHANGED <<provider, lost>>
  /\ UNCHANGED <<conn, doc>>

\* Slip: the new access token is stored, and the refresh token that came with it is not.
SaveAccessOnly(r) ==
  /\ req[r].pc = "save"
  /\ doc' = [doc EXCEPT !.status = "active", !.due = FALSE]
  /\ Goto(r, "call")
  /\ UNCHANGED <<conn, provider, lost>>

Save(r) ==
  /\ req[r].pc = "save"
  /\ doc' = [token |-> req[r].token, status |-> "active", due |-> FALSE]
  /\ Goto(r, "call")
  /\ UNCHANGED <<conn, provider, lost>>

(* Refused: had somebody refreshed already?                                *)
Reread(r) ==
  /\ req[r].pc = "reread"
  /\ req' = IF doc.token # req[r].had THEN [req EXCEPT ![r].pc = "call", ![r].token = doc.token]
            ELSE [req EXCEPT ![r].pc = "refused"]
  /\ UNCHANGED <<conn, doc, provider, lost>>

(* The provider's API: 401 for a token it does not take any more.          *)
Call(r) ==
  /\ req[r].pc = "call"
  /\ Goto(r, IF req[r].token \in good THEN "over" ELSE "mark")
  /\ UNCHANGED <<conn, doc, provider, lost>>

MarkReauth(r) ==
  /\ req[r].pc \in {"mark", "refused"}
  /\ doc' = [doc EXCEPT !.status = "needs_reauth"]
  /\ Over(r)
  /\ UNCHANGED <<conn, provider, lost>>

-----------------------------------------------------------------------------
(* complete_authorization: the code is exchanged, the pair stored, the     *)
(* connection saved. The provider keeps earlier grants until it is told.   *)

Authorize(r, p) ==
  /\ req[r].pc = "idle"
  /\ Issue({})
  /\ req' = [req EXCEPT ![r] = [pc |-> "store", product |-> p, had |-> 0, token |-> issued + 1]]
  /\ UNCHANGED <<conn, doc, lost>>

Store(r) ==
  /\ req[r].pc = "store"
  /\ doc' = [token |-> req[r].token, status |-> "active", due |-> FALSE]
  /\ Goto(r, "connect")
  /\ UNCHANGED <<conn, provider, lost>>

Connect(r) ==
  /\ req[r].pc = "connect"
  /\ conn' = [conn EXCEPT ![req[r].product] = "active"]
  /\ Over(r)
  /\ UNCHANGED <<doc, provider, lost>>

(* disconnect: its own connection first, then a look at the others.        *)
Disconnect(r, p) ==
  /\ req[r].pc = "idle" /\ conn[p] = "active"
  /\ conn' = [conn EXCEPT ![p] = "disconnected"]
  /\ req' = [req EXCEPT ![r] = [Idle EXCEPT !.pc = "siblings", !.product = p]]
  /\ UNCHANGED <<doc, provider, lost>>

LookAtSiblings(r) ==
  /\ req[r].pc = "siblings"
  /\ Goto(r, IF \E p \in Products \ {req[r].product} : conn[p] = "active" THEN "over" ELSE "drop")
  /\ UNCHANGED <<conn, doc, provider, lost>>

DropGrant(r) ==
  /\ req[r].pc = "drop"
  /\ doc' = [doc EXCEPT !.status = "disconnected"]
  /\ Over(r)
  /\ UNCHANGED <<conn, provider, lost>>

-----------------------------------------------------------------------------
(* Time passes: the access token nears its expiry. Somebody takes the      *)
(* grant away at the provider. A request dies.                             *)

NearExpiry ==
  /\ doc.status = "active" /\ ~doc.due
  /\ doc' = [doc EXCEPT !.due = TRUE]
  /\ UNCHANGED <<conn, provider, req, lost>>

RevokeGrant ==
  /\ live # {}
  /\ live' = {}
  /\ good' = {}
  /\ lost' = 1..issued
  /\ UNCHANGED <<conn, doc, issued, req>>

Stop(r) ==
  /\ req[r].pc \notin {"idle", "over"}
  /\ Over(r)
  /\ lost' = IF req[r].pc \in {"save", "store"} THEN lost \cup {req[r].token} ELSE lost
  /\ UNCHANGED <<conn, doc, provider>>

Next ==
  \/ \E r \in Requests :
       \/ Refresh(r) \/ Save(r) \/ Reread(r) \/ Call(r) \/ MarkReauth(r) \/ Store(r) \/ Connect(r)
       \/ LookAtSiblings(r) \/ DropGrant(r) \/ Stop(r)
       \/ \E p \in Products : Use(r, p) \/ Authorize(r, p) \/ Disconnect(r, p)
  \/ NearExpiry \/ RevokeGrant

Spec == Init /\ [][Next]_vars
-----------------------------------------------------------------------------
TypeOK ==
  /\ conn \in [Products -> {"active", "disconnected"}]
  /\ doc \in [token : 0..MaxTokens, status : Statuses, due : BOOLEAN]
  /\ live \subseteq 1..issued /\ good \subseteq 1..issued /\ lost \subseteq 1..issued

Holding(t) == \E r \in Requests : req[r].token = t /\ req[r].pc \in {"save", "store"}

(* Whoever refreshes, in whatever order the answers are stored: the stored *)
(* refresh token is one the provider takes, or a pair issued after it is   *)
(* still to be stored, or was lost on its way or taken away.               *)
TokenKept ==
  doc.token # 0 => \/ doc.token \in live
                   \/ \E t \in doc.token..issued : Holding(t) \/ t \in lost

(* "refresh tokens rotate: if a concurrent request already refreshed, its  *)
(* token is the good one" (oauth_tokens.py:80): no request is about to     *)
(* mark a grant whose stored refresh token was issued after its own and is *)
(* taken by the provider.                                                  *)
RefreshRaceHarmless ==
  \A r \in Requests : req[r].pc = "refused" => ~(doc.token > req[r].had /\ doc.token \in live /\ doc.status = "active")
=============================================================================
