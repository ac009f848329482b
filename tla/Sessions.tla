------------------------------- MODULE Sessions -------------------------------
(***************************************************************************)
(* Refresh-token sessions: app/auth/service.py and the refresh_tokens      *)
(* operations of app/auth/repository.py.                                   *)
(*                                                                         *)
(* The sessions of one user.  Each call to Mongo is an action, and between *)
(* two of them any other request may run.  A token family is named by the  *)
(* token that opened it.  Clients may present any token they were ever     *)
(* given, when they like: a retry after a lost answer, a second tab, and a *)
(* copied token all look alike.                                            *)
(***************************************************************************)
EXTENDS Naturals, FiniteSets

CONSTANTS
    Tokens,         \* refresh tokens there may ever be (a bound)
    Requests,       \* requests handled at the same time
    NoToken

ASSUME NoTokenAssumption == NoToken \notin Tokens

VARIABLES
    minted,     \* tokens generated so far: random, so never twice the same
    doc,        \* refresh_tokens: the document of each token
    req,        \* local state of each request
    opened,     \* history: the families there were
    ended       \* history: those signed out while none of their tokens was being swapped

vars == <<minted, doc, req, opened, ended>>

TokenOrNone == Tokens \cup {NoToken}

\* family NoToken is a token without a document; rotated_at within REUSE_GRACE
\* is "recent"
Doc == [family: TokenOrNone, revoked: BOOLEAN, rotated: {"no", "recent", "past"},
        replaced_by: TokenOrNone, expired: BOOLEAN]

NoDoc == [family |-> NoToken, revoked |-> FALSE, rotated |-> "no",
          replaced_by |-> NoToken, expired |-> FALSE]
Fresh(family) == [NoDoc EXCEPT !.family = family]

Request == [phase: {"idle", "claim", "grace", "successor", "insert",
                    "reject", "reuse", "find", "logout"},
            token: TokenOrNone, successor: TokenOrNone,
            fresh: TokenOrNone, family: TokenOrNone]

NoRequest == [phase |-> "idle", token |-> NoToken, successor |-> NoToken,
              fresh |-> NoToken, family |-> NoToken]

TypeOK ==
    /\ minted \subseteq Tokens
    /\ doc \in [Tokens -> Doc]
    /\ req \in [Requests -> Request]
    /\ ended \subseteq opened /\ opened \subseteq minted

Init ==
    /\ minted = {}
    /\ doc = [t \in Tokens |-> NoDoc]
    /\ req = [r \in Requests |-> NoRequest]
    /\ opened = {}
    /\ ended = {}

Stored == {t \in Tokens : doc[t].family # NoToken}

\* a token the filter of claim_refresh_token matches
Live(t) == doc[t].family # NoToken /\ ~doc[t].revoked /\ ~doc[t].expired

LiveIn(f) == {t \in Tokens : doc[t].family = f /\ Live(t)}

\* requests that took a token of family f and have not stored its successor yet
SwapsOf(f) == {r \in Requests : req[r].phase = "insert" /\ req[r].family = f}

Revoked(S) == [t \in Tokens |-> IF t \in S THEN [doc[t] EXCEPT !.revoked = TRUE] ELSE doc[t]]

\* families that are over for good once their tokens are revoked
NoSwap(S) == {f \in S : SwapsOf(f) = {}}

-----------------------------------------------------------------------------
(***************************************************************************)
(* create_session, and the time that passes                                *)
(***************************************************************************)

\* a sign-in opens a family
CreateSession(t) ==
    /\ t \notin minted
    /\ minted' = minted \cup {t}
    /\ opened' = opened \cup {t}
    /\ doc' = [doc EXCEPT ![t] = Fresh(t)]
    /\ UNCHANGED <<req, ended>>

\* REUSE_GRACE passes
GraceEnds(t) ==
    /\ doc[t].rotated = "recent"
    /\ doc' = [doc EXCEPT ![t].rotated = "past"]
    /\ UNCHANGED <<minted, req, opened, ended>>

\* REFRESH_TOKEN_TTL passes, and in time the TTL index drops the document
Expire(t) ==
    /\ t \in Stored
    /\ ~doc[t].expired
    /\ doc' = [doc EXCEPT ![t].expired = TRUE]
    /\ UNCHANGED <<minted, req, opened, ended>>

Remove(t) ==
    /\ doc[t].expired
    /\ doc' = [doc EXCEPT ![t] = NoDoc]
    /\ UNCHANGED <<minted, req, opened, ended>>

-----------------------------------------------------------------------------
(***************************************************************************)
(* rotate                                                                  *)
(***************************************************************************)

\* A token was handed out once its insert was answered; only then is it known.
Known == minted \ {req[r].fresh : r \in Requests}

Refresh(r, t) ==
    /\ req[r].phase = "idle"
    /\ t \in Known
    /\ req' = [req EXCEPT ![r].phase = "claim", ![r].token = t]
    /\ UNCHANGED <<minted, doc, opened, ended>>

\* Slip: the filter forgets that the token may have been used.
ClaimUsedToken(r, t, n) ==
    /\ t \in Stored
    /\ ~doc[t].expired
    /\ n \notin minted
    /\ minted' = minted \cup {n}
    /\ doc' = [doc EXCEPT ![t].revoked = TRUE, ![t].rotated = "recent",
                          ![t].replaced_by = n]
    /\ req' = [req EXCEPT ![r].phase = "insert", ![r].fresh = n,
                          ![r].family = doc[t].family]
    /\ UNCHANGED <<opened, ended>>

\* claim_refresh_token(t, n): one find_one_and_update
ClaimToken(r, t, n) ==
    /\ Live(t)
    /\ n \notin minted
    /\ minted' = minted \cup {n}
    /\ doc' = [doc EXCEPT ![t].revoked = TRUE, ![t].rotated = "recent",
                          ![t].replaced_by = n]
    /\ req' = [req EXCEPT ![r].phase = "insert", ![r].fresh = n,
                          ![r].family = doc[t].family]
    /\ UNCHANGED <<opened, ended>>

Claim(r, n) ==
    /\ req[r].phase = "claim"
    /\ ClaimToken(r, req[r].token, n)

ClaimFails(r) ==
    /\ req[r].phase = "claim"
    /\ ~Live(req[r].token)
    /\ req' = [req EXCEPT ![r].phase = "grace"]
    /\ UNCHANGED <<minted, doc, opened, ended>>

\* Slip: the grace period offers the presented token, not its successor.
FindItself(r) ==
    /\ req[r].phase = "grace"
    /\ req' = IF doc[req[r].token].rotated = "recent"
                THEN [req EXCEPT ![r].phase = "insert", ![r].successor = req[r].token,
                                 ![r].fresh = doc[req[r].token].replaced_by,
                                 ![r].family = doc[req[r].token].family]
                ELSE [req EXCEPT ![r].phase = "reject"]
    /\ UNCHANGED <<minted, doc, opened, ended>>

\* _claim_successor reads the token that was presented
FindSuccessor(r) ==
    /\ req[r].phase = "grace"
    /\ req' = IF doc[req[r].token].rotated = "recent"
                THEN [req EXCEPT ![r].phase = "successor",
                                 ![r].successor = doc[req[r].token].replaced_by]
                ELSE [req EXCEPT ![r].phase = "reject"]
    /\ UNCHANGED <<minted, doc, opened, ended>>

ClaimSuccessor(r, n) ==
    /\ req[r].phase = "successor"
    /\ ClaimToken(r, req[r].successor, n)

ClaimSuccessorFails(r) ==
    /\ req[r].phase = "successor"
    /\ ~Live(req[r].successor)
    /\ req' = [req EXCEPT ![r].phase = "reject"]
    /\ UNCHANGED <<minted, doc, opened, ended>>

\* Slip: the new token starts a family of its own, as create_session's default does.
InsertAlone(r) ==
    /\ req[r].phase = "insert"
    /\ doc' = [doc EXCEPT ![req[r].fresh] = Fresh(req[r].fresh)]
    /\ req' = [req EXCEPT ![r] = NoRequest]
    /\ UNCHANGED <<minted, opened, ended>>

\* the end of rotate: the new token, in the claimed token's family
Insert(r) ==
    /\ req[r].phase = "insert"
    /\ doc' = [doc EXCEPT ![req[r].fresh] = Fresh(req[r].family)]
    /\ req' = [req EXCEPT ![r] = NoRequest]
    /\ UNCHANGED <<minted, opened, ended>>

\* _reject: unknown and merely expired tokens change nothing
Reject(r) ==
    /\ req[r].phase = "reject"
    /\ req' = [req EXCEPT ![r] =
                 IF doc[req[r].token].revoked
                   THEN [req[r] EXCEPT !.phase = "reuse",
                                       !.family = doc[req[r].token].family]
                   ELSE NoRequest]
    /\ UNCHANGED <<minted, doc, opened, ended>>

-----------------------------------------------------------------------------
(***************************************************************************)
(* Signing out                                                             *)
(***************************************************************************)

Logout(r, t) ==
    /\ req[r].phase = "idle"
    /\ t \in Known
    /\ req' = [req EXCEPT ![r].phase = "find", ![r].token = t]
    /\ UNCHANGED <<minted, doc, opened, ended>>

\* Slip: logout does not look whether the token was found.
FindAnyFamily(r) ==
    /\ req[r].phase = "find"
    /\ req' = [req EXCEPT ![r].phase = "logout", ![r].family = doc[req[r].token].family]
    /\ UNCHANGED <<minted, doc, opened, ended>>

FindFamily(r) ==
    /\ req[r].phase = "find"
    /\ req' = [req EXCEPT ![r] =
                 IF req[r].token \in Stored
                   THEN [req[r] EXCEPT !.phase = "logout",
                                       !.family = doc[req[r].token].family]
                   ELSE NoRequest]
    /\ UNCHANGED <<minted, doc, opened, ended>>

\* Slip: only the token that was presented is revoked.
RevokeToken(r) ==
    /\ req[r].phase \in {"logout", "reuse"}
    /\ doc' = Revoked(Stored \cap {req[r].token})
    /\ ended' = ended \cup NoSwap({req[r].family})
    /\ req' = [req EXCEPT ![r] = NoRequest]
    /\ UNCHANGED <<minted, opened>>

\* revoke_family, at the end of logout or of _reject
RevokeFamily(r) ==
    /\ req[r].phase \in {"logout", "reuse"}
    /\ doc' = Revoked({t \in Stored : doc[t].family = req[r].family})
    /\ ended' = ended \cup NoSwap({req[r].family})
    /\ req' = [req EXCEPT ![r] = NoRequest]
    /\ UNCHANGED <<minted, opened>>

\* logout_everywhere; reset_password and an account merge end with it too
RevokeUserSessions ==
    /\ Stored # {}
    /\ doc' = Revoked(Stored)
    /\ ended' = ended \cup NoSwap({doc[t].family : t \in Stored})
    /\ UNCHANGED <<minted, req, opened>>

\* a request dies with its process or its connection to Mongo
Crash(r) ==
    /\ req[r].phase # "idle"
    /\ req' = [req EXCEPT ![r] = NoRequest]
    /\ UNCHANGED <<minted, doc, opened, ended>>

-----------------------------------------------------------------------------

Next ==
    \/ \E t \in Tokens : CreateSession(t) \/ GraceEnds(t) \/ Expire(t) \/ Remove(t)
    \/ \E r \in Requests, t \in Tokens : Refresh(r, t) \/ Logout(r, t)
    \/ \E r \in Requests, n \in Tokens : Claim(r, n) \/ ClaimSuccessor(r, n)
    \/ \E r \in Requests :
         \/ ClaimFails(r) \/ FindSuccessor(r) \/ ClaimSuccessorFails(r) \/ Insert(r)
         \/ Reject(r) \/ FindFamily(r) \/ RevokeFamily(r) \/ Crash(r)
    \/ RevokeUserSessions

Spec == Init /\ [][Next]_vars

-----------------------------------------------------------------------------
(***************************************************************************)
(* Properties                                                              *)
(***************************************************************************)

\* Whatever refreshes race, retry or take over a successor, a sign-in never has
\* two usable tokens, counting those about to be stored.
OneTokenPerSignIn ==
    \A f \in Tokens :
        /\ \A t, u \in LiveIn(f) : t = u
        /\ \A r, s \in SwapsOf(f) : r = s
        /\ LiveIn(f) = {} \/ SwapsOf(f) = {}

\* A refresh that succeeds extends the chain of the token it was presented: by
\* its direct successor, or, in the grace period, by its successor's successor.
SwapExtendsChain ==
    \A r \in Requests : req[r].phase = "insert" =>
        LET t == req[r].token
            next == IF req[r].successor = NoToken THEN t ELSE req[r].successor
        IN  /\ next \in Stored => doc[next].replaced_by = req[r].fresh
            /\ next # t /\ t \in Stored => doc[t].replaced_by = next

\* Signing out, or a rotated token that comes back, ends a sign-in for good,
\* unless a refresh had taken its token and not stored the successor yet.
SignedOutForGood ==
    \A f \in ended : LiveIn(f) = {} /\ SwapsOf(f) = {}

\* Each family is a sign-in of the abstract specification.
SignInOf(f) ==
    CASE SwapsOf(f) # {} -> "swapping"
      [] SwapsOf(f) = {} /\ LiveIn(f) # {} -> "usable"
      [] SwapsOf(f) = {} /\ LiveIn(f) = {} /\ f \in opened -> "over"
      [] OTHER -> "new"

Promise == INSTANCE SignIns WITH SignInIds <- Tokens,
                                 signIn <- [f \in Tokens |-> SignInOf(f)]

\* The token documents implement sign-ins that begin once and end once.
ImplementsSignIns == Promise!Spec

\* service.py: "two tabs refreshing together aren't mistaken for theft".  No
\* request is about to revoke the family of a token that was rotated within the
\* grace period while the refresh that rotated it still has to store its successor.
TabsRefreshTogether ==
    \A r, s \in Requests :
        ~ /\ req[r].phase = "reuse"
          /\ doc[req[r].token].rotated = "recent"
          /\ req[s].phase = "insert"
          /\ req[s].fresh = doc[req[r].token].replaced_by
=============================================================================
