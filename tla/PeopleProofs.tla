----------------------------- MODULE PeopleProofs -----------------------------
(***************************************************************************)
(* Proofs about Sessions, that it implements SignIns, and about the        *)
(* components MCPeople composes beside it: the shared OAuth grant (Grants), *)
(* a workspace's members and invites (Workspaces), the codes (Codes), the  *)
(* repositories a workspace may read (RepoAccess) and the merge of two     *)
(* accounts (Accounts), for any number of requests, accounts and           *)
(* workspaces, and then the composition, whose run checks the same.        *)
(***************************************************************************)
EXTENDS MCPeople, FiniteSetTheorems, TLAPS

-----------------------------------------------------------------------------
(***************************************************************************)
(* The inductive invariant                                                 *)
(***************************************************************************)

\* A token is known to a client when it was minted and no request still has to
\* store it: such a token is never stored (again) by another request.
KnownToken(t) == t \in minted /\ \A s \in Requests : req[s].fresh # t

\* What holds of the document of a token.
DocInv(t) ==
    /\ doc[t].family = NoToken => doc[t] = NoDoc
    /\ doc[t].family # NoToken => t \in minted /\ doc[t].family \in opened
    /\ doc[t].rotated # "no" => doc[t].revoked /\ doc[t].replaced_by # NoToken

\* t is no longer usable and, while its document is kept, names n its successor.
Replaced(t, n) == t \in Stored => doc[t].revoked /\ doc[t].replaced_by = n

\* What holds of the local state of a request.
ReqInv(r) ==
    /\ req[r].phase = "idle" => req[r] = NoRequest
    /\ req[r].phase # "idle" => KnownToken(req[r].token)
    /\ req[r].phase # "insert" => req[r].fresh = NoToken
    /\ req[r].phase = "insert" => /\ req[r].fresh \in minted \ Stored
                                  /\ req[r].family \in opened
    /\ req[r].phase \in {"claim", "grace"} => req[r].successor = NoToken
    /\ req[r].phase = "successor" =>
         /\ req[r].successor # NoToken
         /\ Replaced(req[r].token, req[r].successor)
    /\ req[r].phase \in {"logout", "reuse"} => req[r].family \in opened

\* The token a request took: the one it was presented or that one's successor.
Taken(r) == IF req[r].successor = NoToken THEN req[r].token ELSE req[r].successor

\* A request that stores a successor took a known token, and the chain from the
\* presented token leads to what it stores.
ChainInv(r) ==
    req[r].phase = "insert" =>
        /\ KnownToken(Taken(r))
        /\ Replaced(Taken(r), req[r].fresh)
        /\ Taken(r) # req[r].token => Replaced(req[r].token, Taken(r))

\* No two requests store the same token.
FreshInv ==
    \A r, s \in Requests : req[r].fresh = req[s].fresh /\ req[r].fresh # NoToken => r = s

\* OneTokenPerSignIn and SignedOutForGood, token by token.
OneInv ==
    /\ \A t, u \in Tokens : Live(t) /\ Live(u) /\ doc[t].family = doc[u].family => t = u
    /\ \A r, s \in Requests :
         req[r].phase = "insert" /\ req[s].phase = "insert" /\ req[r].family = req[s].family
           => r = s
    /\ \A t \in Tokens, r \in Requests :
         Live(t) /\ req[r].phase = "insert" => doc[t].family # req[r].family

EndedInv ==
    /\ \A t \in Tokens : Live(t) => doc[t].family \notin ended
    /\ \A r \in Requests : req[r].phase = "insert" => req[r].family \notin ended

Inv ==
    /\ TypeOK
    /\ \A t \in Tokens : DocInv(t)
    /\ \A r \in Requests : ReqInv(r) /\ ChainInv(r)
    /\ FreshInv
    /\ OneInv
    /\ EndedInv

-----------------------------------------------------------------------------
(***************************************************************************)
(* Types                                                                   *)
(***************************************************************************)

\* The documents and requests that actions write are documents and requests.
LEMMA Values ==
    /\ NoDoc \in Doc /\ NoRequest \in Request
    /\ \A f \in Tokens : Fresh(f) \in Doc
BY NoTokenAssumption DEF NoDoc, Doc, NoRequest, Request, TokenOrNone, Fresh

\* Revoking a set of documents keeps them documents.
LEMMA RevokedTypes == ASSUME TypeOK, NEW S PROVE Revoked(S) \in [Tokens -> Doc]
BY DEF TypeOK, Revoked, Doc

\* So does claiming one, and the request that claims is a request.
LEMMA ClaimTypes ==
    ASSUME TypeOK, NEW r \in Requests, NEW t \in Tokens, NEW n \in Tokens,
           ClaimToken(r, t, n)
    PROVE  TypeOK'
<1>0. doc[t] \in Doc /\ n \in TokenOrNone /\ req[r] \in Request
  BY DEF TypeOK, TokenOrNone
<1>1. doc' \in [Tokens -> Doc]
  <2>1. PICK d : d = [doc[t] EXCEPT !.revoked = TRUE, !.rotated = "recent", !.replaced_by = n]
    OBVIOUS
  <2>2. d \in Doc
    BY <1>0, <2>1 DEF Doc
  <2>3. doc' = [doc EXCEPT ![t] = d]
    BY <2>1 DEF TypeOK, ClaimToken
  <2> QED
    BY <2>2, <2>3 DEF TypeOK
<1>2. req' \in [Requests -> Request]
  <2>1. doc[t].family \in TokenOrNone
    BY <1>0 DEF Doc
  <2>2. PICK q : q = [req[r] EXCEPT !.phase = "insert", !.fresh = n, !.family = doc[t].family]
    OBVIOUS
  <2>3. q \in Request
    BY <1>0, <2>1, <2>2 DEF Request
  <2>4. req' = [req EXCEPT ![r] = q]
    BY <2>2 DEF TypeOK, ClaimToken
  <2> QED
    BY <2>3, <2>4 DEF TypeOK
<1> QED
  BY <1>1, <1>2 DEF TypeOK, ClaimToken

LEMMA InitInv == Init => Inv
<1> SUFFICES ASSUME Init PROVE Inv
  OBVIOUS
<1>1. TypeOK
  BY Values DEF Init, TypeOK
<1>2. \A t \in Tokens : DocInv(t)
  BY NoTokenAssumption DEF Init, DocInv, NoDoc
<1>3. \A r \in Requests : ReqInv(r) /\ ChainInv(r)
  BY DEF Init, ReqInv, ChainInv, NoRequest
<1>4. FreshInv /\ OneInv /\ EndedInv
  BY DEF Init, FreshInv, OneInv, EndedInv, NoRequest, NoDoc, Live
<1> QED
  BY <1>1, <1>2, <1>3, <1>4 DEF Inv

-----------------------------------------------------------------------------
(***************************************************************************)
(* Steps                                                                   *)
(***************************************************************************)

\* A document that a step leaves alone, wears out or removes: it is not usable
\* again, and what it says of its family and successor stays while it is kept.
Fades(t) ==
    \/ doc'[t] = NoDoc
    \/ /\ doc[t].family # NoToken
       /\ doc'[t].family = doc[t].family
       /\ doc'[t].replaced_by = doc[t].replaced_by
       /\ doc[t].revoked => doc'[t].revoked
       /\ doc[t].expired => doc'[t].expired
       /\ doc'[t].rotated # "no" => doc[t].rotated # "no"

LEMMA FadingDocs ==
    ASSUME NEW t \in Tokens, DocInv(t), Fades(t), UNCHANGED <<minted, opened>>
    PROVE  /\ DocInv(t)'
           /\ Live(t)' => Live(t) /\ doc'[t].family = doc[t].family
           /\ (t \in Stored)' => /\ t \in Stored
                                 /\ doc[t].revoked => doc'[t].revoked
                                 /\ doc'[t].replaced_by = doc[t].replaced_by
<1>1. CASE doc'[t] = NoDoc
  BY <1>1 DEF DocInv, Live, Stored, NoDoc
<1>2. CASE doc'[t] # NoDoc
  BY <1>2 DEF Fades, DocInv, Live, Stored
<1> QED
  BY <1>1, <1>2

\* Time, signing out and crashes: documents fade and requests are given up.  A
\* family may end that has no usable token left and none on its way.
LEMMA FadeStep ==
    ASSUME Inv, UNCHANGED <<minted, opened>>,
           doc' \in [Tokens -> Doc], \A t \in Tokens : Fades(t),
           req' \in [Requests -> Request],
           \A r \in Requests : req'[r] = req[r] \/ req'[r] = NoRequest,
           ended' \subseteq opened,
           \A t \in Tokens : Live(t)' => doc'[t].family \notin ended' \ ended,
           \A r \in Requests : req[r].phase = "insert" => req[r].family \notin ended' \ ended
    PROVE  Inv'
<1> USE DEF Inv
<1>1. TypeOK'
  BY DEF TypeOK
<1>2. \A t \in Tokens : /\ DocInv(t)'
                        /\ Live(t)' => Live(t) /\ doc'[t].family = doc[t].family
                        /\ (t \in Stored)' => /\ t \in Stored
                                              /\ doc[t].revoked => doc'[t].revoked
                                              /\ doc'[t].replaced_by = doc[t].replaced_by
  BY FadingDocs
<1>3. ASSUME NEW r \in Requests PROVE ReqInv(r)' /\ ChainInv(r)'
  <2>1. CASE req'[r] = NoRequest
    BY <2>1 DEF ReqInv, ChainInv, NoRequest
  <2>2. CASE req'[r] = req[r]
    <3>1. \A t : KnownToken(t) => KnownToken(t)'
      BY NoTokenAssumption DEF KnownToken, NoRequest, TypeOK
    <3>2. ReqInv(r)'
      BY <1>2, <2>2, <3>1 DEF ReqInv, TypeOK, KnownToken, Replaced
    <3>3. ChainInv(r)'
      <4> SUFFICES ASSUME req[r].phase = "insert" PROVE ChainInv(r)'
        BY <2>2 DEF ChainInv
      <4>1. KnownToken(Taken(r)) /\ KnownToken(req[r].token)
        BY DEF ChainInv, ReqInv
      <4>2. Taken(r) \in Tokens /\ req[r].token \in Tokens
        BY <4>1 DEF KnownToken, TypeOK
      <4>3. Taken(r)' = Taken(r) /\ KnownToken(Taken(r))'
        BY <2>2, <3>1, <4>1 DEF Taken
      <4>4. Replaced(Taken(r), req[r].fresh)'
        BY <1>2, <2>2, <4>2, <4>3 DEF ChainInv, Replaced
      <4>5. Taken(r) # req[r].token => Replaced(req[r].token, Taken(r))'
        BY <1>2, <2>2, <4>2, <4>3 DEF ChainInv, Replaced
      <4> QED
        BY <2>2, <4>3, <4>4, <4>5 DEF ChainInv
    <3> QED
      BY <3>2, <3>3
  <2> QED
    BY <2>1, <2>2
<1>4. \A r \in Requests : req'[r].phase = "insert" => req'[r] = req[r]
  BY DEF NoRequest
<1>5. FreshInv'
  BY DEF FreshInv, NoRequest
<1>6. OneInv'
  BY <1>2, <1>4 DEF OneInv
<1>7. EndedInv'
  BY <1>2, <1>4 DEF EndedInv
<1> QED
  BY <1>1, <1>2, <1>3, <1>5, <1>6, <1>7

\* A request that looks something up: nothing is written.
LEMMA LookupStep ==
    ASSUME Inv, UNCHANGED <<minted, doc, opened, ended>>,
           NEW r \in Requests, NEW q \in Request, req' = [req EXCEPT ![r] = q],
           q.phase # "insert", q.fresh = NoToken, req[r].phase # "insert",
           q.phase = "idle" => q = NoRequest,
           q.phase # "idle" => KnownToken(q.token),
           q.phase \in {"claim", "grace"} => q.successor = NoToken,
           q.phase = "successor" => q.successor # NoToken /\ Replaced(q.token, q.successor),
           q.phase \in {"logout", "reuse"} => q.family \in opened
    PROVE  Inv'
<1> USE DEF Inv
<1>1. TypeOK'
  BY DEF TypeOK
<1>2. req'[r] = q /\ \A s \in Requests \ {r} : req'[s] = req[s]
  BY DEF TypeOK
<1>3. \A t : KnownToken(t) => KnownToken(t)'
  BY <1>2, NoTokenAssumption DEF KnownToken, TypeOK
<1>4. \A t \in Tokens : DocInv(t)'
  BY DEF DocInv
<1>5. ASSUME NEW s \in Requests PROVE ReqInv(s)' /\ ChainInv(s)'
  <2>1. CASE s = r
    BY <1>2, <1>3, <2>1 DEF ChainInv, ReqInv, Replaced, Stored
  <2>2. CASE s # r
    <3>1. req'[s] = req[s] /\ Taken(s)' = Taken(s)
      BY <1>2, <2>2 DEF Taken
    <3>2. ReqInv(s)'
      BY <1>3, <3>1 DEF ReqInv, Replaced, Stored
    <3>3. ChainInv(s)'
      BY <1>3, <3>1 DEF ChainInv, Replaced, Stored
    <3> QED
      BY <3>2, <3>3
  <2> QED
    BY <2>1, <2>2
<1>6. FreshInv' /\ OneInv' /\ EndedInv'
  BY <1>2 DEF FreshInv, OneInv, EndedInv, Live
<1> QED
  BY <1>1, <1>4, <1>5, <1>6

\* A sign-in: its token is a new one, so is the family it opens.
LEMMA CreateSessionStep ==
    ASSUME Inv, NEW t \in Tokens, CreateSession(t) PROVE Inv'
<1> USE DEF Inv, CreateSession
<1>1. TypeOK'
  BY Values DEF TypeOK
<1>2. doc'[t] = Fresh(t) /\ \A u \in Tokens \ {t} : doc'[u] = doc[u]
  BY DEF TypeOK
<1>3. t \notin Stored /\ (\A u \in Tokens : doc[u].family # t) /\ t \notin ended
  BY NoTokenAssumption DEF DocInv, Stored, TypeOK
<1>4. ASSUME NEW u \in Tokens PROVE DocInv(u)'
  <2>1. CASE u = t
    <3>1. doc'[u].family = t /\ doc'[u].rotated = "no" /\ t # NoToken
      BY <1>2, <2>1, NoTokenAssumption DEF Fresh, NoDoc
    <3> QED
      BY <2>1, <3>1 DEF DocInv
  <2>2. CASE u # t
    BY <1>2, <2>2 DEF DocInv
  <2> QED
    BY <2>1, <2>2
<1>5. \A u : KnownToken(u) => KnownToken(u)' /\ u \in Tokens \ {t}
  BY DEF KnownToken, TypeOK
<1>6. ASSUME NEW r \in Requests PROVE ReqInv(r)' /\ ChainInv(r)'
  <2>1. req'[r] = req[r] /\ Taken(r)' = Taken(r)
    BY DEF Taken
  <2>2. \A u \in Tokens \ {t} : u \in Stored' <=> u \in Stored
    BY <1>2 DEF Stored
  <2>3. ReqInv(r)'
    BY <1>2, <1>5, <2>1, <2>2 DEF ReqInv, Replaced, TypeOK
  <2>4. ChainInv(r)'
    BY <1>2, <1>5, <2>1, <2>2 DEF ChainInv, ReqInv, Replaced
  <2> QED
    BY <2>3, <2>4
<1>7. FreshInv'
  BY DEF FreshInv
<1>8. \A r \in Requests : req[r].phase = "insert" => req[r].family # t
  BY DEF ReqInv, TypeOK
<1>9. OneInv' /\ EndedInv'
  BY <1>2, <1>3, <1>8 DEF OneInv, EndedInv, Live, Fresh, NoDoc
<1> QED
  BY <1>1, <1>4, <1>6, <1>7, <1>9

\* A refresh takes a usable token: the family has no other, and none on its way.
LEMMA ClaimStep ==
    ASSUME Inv, NEW r \in Requests, NEW t \in Tokens, NEW n \in Tokens,
           req[r].phase \in {"claim", "successor"}, t = Taken(r), ClaimToken(r, t, n)
    PROVE  Inv'
<1> USE DEF Inv
<1>1. TypeOK'
  BY ClaimTypes
<1>2. /\ doc'[t].family = doc[t].family /\ doc'[t].revoked
      /\ doc'[t].rotated = "recent" /\ doc'[t].replaced_by = n
      /\ \A u \in Tokens \ {t} : doc'[u] = doc[u]
  BY DEF TypeOK, ClaimToken, Doc
<1>3. /\ req'[r].phase = "insert" /\ req'[r].fresh = n /\ req'[r].family = doc[t].family
      /\ req'[r].token = req[r].token /\ req'[r].successor = req[r].successor
      /\ \A s \in Requests \ {r} : req'[s] = req[s]
  BY DEF TypeOK, ClaimToken, Request
<1>4. /\ n \notin minted /\ minted' = minted \cup {n} /\ n # NoToken
      /\ UNCHANGED <<opened, ended>>
      /\ Live(t) /\ doc[t].family # NoToken /\ t \in Stored /\ t \in minted /\ n # t
  BY NoTokenAssumption DEF ClaimToken, DocInv, Live, Stored
<1>5. n \notin Stored /\ Stored' = Stored
  BY <1>2, <1>4 DEF DocInv, Stored
<1>6. \A u : KnownToken(u) => KnownToken(u)' /\ u \in Tokens \ {n}
  BY <1>3, <1>4 DEF KnownToken, TypeOK
<1>7. KnownToken(t)
  BY <1>4, NoTokenAssumption DEF KnownToken, ReqInv
<1>8. ASSUME NEW u \in Tokens PROVE DocInv(u)'
  <2>1. CASE u = t
    BY <1>2, <1>4, <2>1 DEF DocInv
  <2>2. CASE u # t
    BY <1>2, <1>4, <2>2 DEF DocInv
  <2> QED
    BY <2>1, <2>2
<1>9. \A u \in Tokens : doc[u].revoked => doc'[u] = doc[u]
  BY <1>2, <1>4 DEF Live
<1>10. ReqInv(r)' /\ ChainInv(r)'
  <2>1. Taken(r)' = t
    BY <1>3 DEF Taken
  <2>2. ReqInv(r)'
    BY <1>3, <1>4, <1>5, <1>6 DEF ReqInv, DocInv
  <2>3. Replaced(t, n)'
    BY <1>2 DEF Replaced
  <2>4. t # req[r].token => Replaced(req[r].token, t)'
    <3>1. SUFFICES ASSUME t # req[r].token PROVE Replaced(req[r].token, t)'
      OBVIOUS
    <3>2. req[r].phase = "successor" /\ Replaced(req[r].token, t) /\ req[r].token \in Tokens
      BY <1>6, <3>1 DEF ReqInv, Taken
    <3> QED
      BY <1>3, <1>5, <1>9, <3>2 DEF Replaced
  <2> QED
    BY <1>3, <1>6, <1>7, <2>1, <2>2, <2>3, <2>4 DEF ChainInv
<1>11. ASSUME NEW s \in Requests \ {r} PROVE ReqInv(s)' /\ ChainInv(s)'
  <2>1. req'[s] = req[s] /\ Taken(s)' = Taken(s)
    BY <1>3 DEF Taken
  <2>2. \A u \in Tokens : \A v : Replaced(u, v) => (u \in Stored => doc'[u].revoked /\ doc'[u].replaced_by = v)
    BY <1>9 DEF Replaced
  <2>3. ReqInv(s)'
    BY <1>4, <1>5, <1>6, <2>1, <2>2 DEF ReqInv, Replaced
  <2>4. ChainInv(s)'
    BY <1>5, <1>6, <2>1, <2>2 DEF ChainInv, ReqInv, Replaced
  <2> QED
    BY <2>3, <2>4
<1>12. FreshInv'
  BY <1>3, <1>4 DEF FreshInv, ReqInv
<1>13. \A u \in Tokens : Live(u)' => Live(u) /\ u # t /\ doc'[u] = doc[u]
  BY <1>2 DEF Live
<1>14. OneInv'
  BY <1>3, <1>4, <1>13 DEF OneInv
<1>15. EndedInv'
  BY <1>3, <1>4, <1>13 DEF EndedInv
<1> QED
  BY <1>1, <1>8, <1>10, <1>11, <1>12, <1>14, <1>15

\* The end of a refresh: the token that was on its way is stored.
LEMMA InsertStep ==
    ASSUME Inv, NEW r \in Requests, Insert(r) PROVE Inv'
<1> DEFINE n == req[r].fresh
           f == req[r].family
<1> USE DEF Inv
<1>1. /\ n \in Tokens /\ n \in minted /\ n \notin Stored
      /\ f \in opened /\ f \in Tokens /\ f # NoToken /\ f \notin ended
  BY NoTokenAssumption DEF Insert, ReqInv, EndedInv, TypeOK
<1>2. /\ doc'[n] = Fresh(f) /\ \A u \in Tokens \ {n} : doc'[u] = doc[u]
      /\ req'[r] = NoRequest /\ \A s \in Requests \ {r} : req'[s] = req[s]
      /\ UNCHANGED <<minted, opened, ended>>
  BY <1>1 DEF Insert, TypeOK
<1>3. doc'[n].family = f /\ ~doc'[n].revoked /\ doc'[n].rotated = "no"
  BY <1>2 DEF Fresh, NoDoc
<1>4. TypeOK'
  BY <1>1, Values DEF Insert, TypeOK
<1> HIDE DEF n, f
<1>5. ASSUME NEW u \in Tokens PROVE DocInv(u)'
  BY <1>1, <1>2, <1>3 DEF DocInv
<1>6. \A u : KnownToken(u) => KnownToken(u)' /\ u \in Tokens \ {n}
  BY <1>2, NoTokenAssumption DEF KnownToken, TypeOK, NoRequest, n
<1>7. \A u \in Tokens \ {n} : u \in Stored' <=> u \in Stored
  BY <1>2 DEF Stored
<1>8. ReqInv(r)' /\ ChainInv(r)'
  BY <1>2 DEF ReqInv, ChainInv, NoRequest
<1>9. ASSUME NEW s \in Requests \ {r} PROVE ReqInv(s)' /\ ChainInv(s)'
  <2>1. req'[s] = req[s] /\ Taken(s)' = Taken(s)
    BY <1>2 DEF Taken
  <2>2. req[s].phase = "insert" => req[s].fresh # n
    BY NoTokenAssumption, <1>1 DEF FreshInv, n
  <2>3. ReqInv(s)'
    BY <1>2, <1>6, <1>7, <2>1, <2>2 DEF ReqInv, Replaced, TypeOK
  <2>4. ChainInv(s)'
    BY <1>2, <1>6, <1>7, <2>1 DEF ChainInv, ReqInv, Replaced
  <2> QED
    BY <2>3, <2>4
<1>10. FreshInv'
  BY <1>2 DEF FreshInv, NoRequest
<1>11. \A u \in Tokens : Live(u)' => u = n \/ (Live(u) /\ doc'[u] = doc[u])
  BY <1>2 DEF Live
<1>12. req[r].phase = "insert" /\ \A s \in Requests : req'[s].phase = "insert" => s # r /\ req'[s] = req[s]
  BY <1>2 DEF NoRequest, Insert
<1>13. OneInv'
  BY <1>3, <1>11, <1>12 DEF OneInv, f
<1>14. EndedInv'
  BY <1>1, <1>2, <1>3, <1>11, <1>12 DEF EndedInv
<1> QED
  BY <1>4, <1>5, <1>8, <1>9, <1>10, <1>13, <1>14

\* Revoking a set of documents, and giving up a request or none.
LEMMA RevokeStep ==
    ASSUME Inv, NEW S \in SUBSET Stored, doc' = Revoked(S), UNCHANGED <<minted, opened>>,
           req' \in [Requests -> Request],
           \A r \in Requests : req'[r] = req[r] \/ req'[r] = NoRequest,
           NEW F \in SUBSET opened, ended' = ended \cup NoSwap(F),
           \A t \in Stored : doc[t].family \in F => t \in S
    PROVE  Inv'
<1>1. \A t \in Tokens : Fades(t)
  BY DEF Fades, Revoked, Inv, DocInv, Stored, TypeOK, Doc
<1>2. \A t \in Tokens : Live(t)' => doc'[t].family \notin ended' \ ended
  BY DEF Revoked, Live, NoSwap, Stored, Inv, TypeOK, Doc
<1>3. \A r \in Requests : req[r].phase = "insert" => req[r].family \notin ended' \ ended
  BY DEF NoSwap, SwapsOf
<1>4. ended' \subseteq opened
  BY DEF NoSwap, Inv, TypeOK
<1> QED
  BY <1>1, <1>2, <1>3, <1>4, RevokedTypes, FadeStep DEF Inv

\* Every step keeps the invariant.
LEMMA InvStep == Inv /\ [Next]_vars => Inv'
<1> SUFFICES ASSUME Inv, [Next]_vars PROVE Inv'
  OBVIOUS
<1> USE DEF Inv
<1>1. ASSUME NEW t \in Tokens, CreateSession(t) PROVE Inv'
  BY <1>1, CreateSessionStep
<1>2. ASSUME NEW t \in Tokens, GraceEnds(t) \/ Expire(t) \/ Remove(t) PROVE Inv'
  <2>1. doc' \in [Tokens -> Doc] /\ \A u \in Tokens : Fades(u)
    <3>1. CASE GraceEnds(t)
      <4>1. [doc[t] EXCEPT !.rotated = "past"] \in Doc
        BY DEF TypeOK, Doc
      <4>2. doc[t].family # NoToken
        BY <3>1 DEF GraceEnds, DocInv, NoDoc
      <4> QED
        BY <3>1, <4>1, <4>2 DEF GraceEnds, TypeOK, Doc, Fades, DocInv
    <3>2. CASE Expire(t)
      <4>1. [doc[t] EXCEPT !.expired = TRUE] \in Doc
        BY DEF TypeOK, Doc
      <4> QED
        BY <3>2, <4>1 DEF Expire, TypeOK, Doc, Fades, DocInv, Stored
    <3>3. CASE Remove(t)
      BY <3>3, Values DEF Remove, TypeOK, Fades, DocInv
    <3> QED
      BY <1>2, <3>1, <3>2, <3>3
  <2>2. UNCHANGED <<minted, req, opened, ended>>
    BY <1>2 DEF GraceEnds, Expire, Remove
  <2> QED
    BY <2>1, <2>2, FadeStep DEF TypeOK
<1>3. ASSUME NEW r \in Requests, NEW t \in Tokens, Refresh(r, t) \/ Logout(r, t) PROVE Inv'
  <2>1. req[r] = NoRequest /\ t \in Known /\ KnownToken(t)
    BY <1>3 DEF ReqInv, Refresh, Logout, Known, KnownToken
  <2>2. PICK p \in {"claim", "find"} : req' = [req EXCEPT ![r].phase = p, ![r].token = t]
    BY <1>3 DEF Refresh, Logout
  <2> DEFINE q == [NoRequest EXCEPT !.phase = p, !.token = t]
  <2>3. q \in Request /\ q.phase = p /\ q.token = t /\ q.fresh = NoToken /\ q.successor = NoToken
    BY Values DEF Request, NoRequest, TokenOrNone
  <2>4. req' = [req EXCEPT ![r] = q]
    BY <2>1, <2>2 DEF TypeOK
  <2> HIDE DEF q
  <2>5. req[r].phase # "insert" /\ UNCHANGED <<minted, doc, opened, ended>>
    BY <1>3 DEF Refresh, Logout
  <2> QED
    BY <2>1, <2>3, <2>4, <2>5, LookupStep
<1>4. ASSUME NEW r \in Requests, NEW n \in Tokens, Claim(r, n) \/ ClaimSuccessor(r, n) PROVE Inv'
  <2>1. Taken(r) \in Tokens
    <3>1. CASE req[r].phase = "claim"
      BY <3>1 DEF ReqInv, Taken, KnownToken, TypeOK
    <3>2. CASE req[r].phase = "successor"
      BY <3>2 DEF ReqInv, Taken, TypeOK, Request, TokenOrNone
    <3> QED
      BY <1>4, <3>1, <3>2 DEF Claim, ClaimSuccessor
  <2>2. req[r].phase \in {"claim", "successor"} /\ ClaimToken(r, Taken(r), n)
    BY <1>4 DEF Claim, ClaimSuccessor, Taken, ReqInv
  <2> QED
    BY <2>1, <2>2, ClaimStep
<1>5. ASSUME NEW r \in Requests, ClaimFails(r) \/ ClaimSuccessorFails(r) PROVE Inv'
  <2> DEFINE p == IF req[r].phase = "claim" THEN "grace" ELSE "reject"
             q == [req[r] EXCEPT !.phase = p]
  <2>1. /\ req[r].phase \in {"claim", "successor"}
        /\ req' = [req EXCEPT ![r] = q] /\ UNCHANGED <<minted, doc, opened, ended>>
    BY <1>5 DEF ClaimFails, ClaimSuccessorFails, TypeOK
  <2>2. /\ q \in Request /\ q.phase = p /\ q.token = req[r].token
        /\ q.fresh = req[r].fresh /\ q.successor = req[r].successor
    BY DEF TypeOK, Request
  <2>3. req[r].fresh = NoToken /\ KnownToken(req[r].token)
        /\ (req[r].phase = "claim" => req[r].successor = NoToken)
    BY <2>1 DEF ReqInv
  <2> HIDE DEF q
  <2> QED
    BY <2>1, <2>2, <2>3, LookupStep
<1>6. ASSUME NEW r \in Requests, FindSuccessor(r) PROVE Inv'
  <2> DEFINE t == req[r].token
             q == IF doc[t].rotated = "recent"
                    THEN [req[r] EXCEPT !.phase = "successor", !.successor = doc[t].replaced_by]
                    ELSE [req[r] EXCEPT !.phase = "reject"]
  <2>1. /\ req[r].phase = "grace"
        /\ req' = [req EXCEPT ![r] = q] /\ UNCHANGED <<minted, doc, opened, ended>>
    BY <1>6 DEF FindSuccessor, TypeOK
  <2>2. req[r].fresh = NoToken /\ KnownToken(t) /\ t \in Tokens
    BY <2>1 DEF ReqInv, KnownToken, TypeOK
  <2>3. q \in Request /\ q.token = t /\ q.fresh = NoToken
    BY <2>2 DEF TypeOK, Request, Doc
  <2>4. /\ q.phase \in {"successor", "reject"}
        /\ q.phase = "successor" => /\ doc[t].rotated = "recent"
                                    /\ q.successor = doc[t].replaced_by
    BY DEF TypeOK, Request
  <2>5. q.phase = "successor" => q.successor # NoToken /\ Replaced(t, q.successor)
    BY <2>2, <2>4 DEF DocInv, Replaced
  <2> HIDE DEF q
  <2> QED
    BY <2>1, <2>2, <2>3, <2>4, <2>5, LookupStep
<1>7. ASSUME NEW r \in Requests, Reject(r) \/ FindFamily(r) PROVE Inv'
  <2> DEFINE t == req[r].token
             p == IF req[r].phase = "find" THEN "logout" ELSE "reuse"
             q == [req[r] EXCEPT !.phase = p, !.family = doc[t].family]
  <2>1. req[r].phase \in {"find", "reject"} /\ UNCHANGED <<minted, doc, opened, ended>>
    BY <1>7 DEF Reject, FindFamily
  <2>2. req[r].fresh = NoToken /\ KnownToken(t) /\ t \in Tokens
    BY <2>1 DEF ReqInv, KnownToken, TypeOK
  <2>3. CASE req' = [req EXCEPT ![r] = NoRequest]
    <3>1. NoRequest.phase = "idle" /\ NoRequest.fresh = NoToken
      BY DEF NoRequest
    <3> QED
      BY <2>1, <2>3, <3>1, Values, LookupStep
  <2>4. CASE req' = [req EXCEPT ![r] = q] /\ doc[t].family # NoToken
    <3>1. doc[t].family \in opened
      BY <2>2, <2>4 DEF DocInv
    <3>2. q \in Request /\ q.phase = p /\ q.token = t /\ q.fresh = NoToken /\ q.family = doc[t].family
      BY <2>2 DEF TypeOK, Request, Doc
    <3> HIDE DEF q
    <3> QED
      BY <2>1, <2>2, <2>4, <3>1, <3>2, LookupStep
  <2>5. doc[t].revoked => doc[t].family # NoToken
    BY <2>2 DEF DocInv, NoDoc
  <2> QED
    BY <1>7, <2>3, <2>4, <2>5 DEF Reject, FindFamily, Stored
<1>8. ASSUME NEW r \in Requests, Insert(r) PROVE Inv'
  BY <1>8, InsertStep
<1>9. ASSUME NEW r \in Requests, RevokeFamily(r) PROVE Inv'
  <2> DEFINE S == {t \in Stored : doc[t].family = req[r].family}
             F == {req[r].family}
  <2>1. F \in SUBSET opened
    BY <1>9 DEF RevokeFamily, ReqInv
  <2>2. /\ doc' = Revoked(S) /\ ended' = ended \cup NoSwap(F) /\ UNCHANGED <<minted, opened>>
        /\ req' \in [Requests -> Request]
        /\ \A s \in Requests : req'[s] = req[s] \/ req'[s] = NoRequest
    BY <1>9, Values DEF RevokeFamily, TypeOK
  <2>3. S \in SUBSET Stored /\ \A t \in Stored : doc[t].family \in F => t \in S
    OBVIOUS
  <2> HIDE DEF S, F
  <2> QED
    BY <2>1, <2>2, <2>3, RevokeStep
<1>10. CASE RevokeUserSessions
  <2> DEFINE F == {doc[t].family : t \in Stored}
  <2>1. F \in SUBSET opened
    BY DEF DocInv, Stored
  <2>2. /\ doc' = Revoked(Stored) /\ ended' = ended \cup NoSwap(F) /\ UNCHANGED <<minted, opened>>
        /\ req' \in [Requests -> Request] /\ \A s \in Requests : req'[s] = req[s]
    BY <1>10 DEF RevokeUserSessions, TypeOK
  <2> HIDE DEF F
  <2> QED
    BY <2>1, <2>2, RevokeStep
<1>11. ASSUME NEW r \in Requests, Crash(r) PROVE Inv'
  <2>1. \A t \in Tokens : Fades(t)
    BY <1>11 DEF Crash, Fades, DocInv
  <2> QED
    BY <1>11, <2>1, Values, FadeStep DEF Crash, TypeOK
<1>12. CASE UNCHANGED vars
  <2>1. \A t \in Tokens : Fades(t)
    BY <1>12 DEF vars, Fades, DocInv
  <2> QED
    BY <1>12, <2>1, FadeStep DEF vars, TypeOK
<1> QED
  BY <1>1, <1>2, <1>3, <1>4, <1>5, <1>6, <1>7, <1>8, <1>9, <1>10, <1>11, <1>12 DEF Next

LEMMA Invariance == Spec => []Inv
BY InitInv, InvStep, PTL DEF Spec

-----------------------------------------------------------------------------
(***************************************************************************)
(* What follows                                                            *)
(***************************************************************************)

\* Every variable keeps its type.
THEOREM TypeCorrect == Spec => []TypeOK
<1>1. Inv => TypeOK
  BY DEF Inv
<1> QED
  BY <1>1, Invariance, PTL

LEMMA InvGivesOneToken == Inv => OneTokenPerSignIn
<1> SUFFICES ASSUME Inv, NEW f \in Tokens
             PROVE  /\ \A t, u \in LiveIn(f) : t = u
                    /\ \A r, s \in SwapsOf(f) : r = s
                    /\ LiveIn(f) = {} \/ SwapsOf(f) = {}
  BY DEF OneTokenPerSignIn
<1> QED
  BY DEF Inv, OneInv, LiveIn, SwapsOf

\* However refreshes race, retry and take over successors, a sign-in never has
\* two usable tokens, those on their way counted: claim_refresh_token is one
\* atomic update.
THEOREM OneToken == Spec => []OneTokenPerSignIn
BY InvGivesOneToken, Invariance, PTL

\* A refresh that got through extends the chain of the token it was presented,
\* by one token or, in the grace period, by the successor of its successor.
THEOREM ChainsExtend == Spec => []SwapExtendsChain
<1>1. Inv => SwapExtendsChain
  <2> SUFFICES ASSUME Inv, NEW r \in Requests, req[r].phase = "insert"
               PROVE  /\ Taken(r) \in Stored => doc[Taken(r)].replaced_by = req[r].fresh
                      /\ Taken(r) # req[r].token /\ req[r].token \in Stored
                           => doc[req[r].token].replaced_by = Taken(r)
    BY DEF SwapExtendsChain, Taken
  <2> QED
    BY DEF Inv, ChainInv, Replaced
<1> QED
  BY <1>1, Invariance, PTL

\* A sign-in that ended while none of its tokens was being swapped stays ended.
THEOREM SignedOutStays == Spec => []SignedOutForGood
<1>1. Inv => SignedOutForGood
  <2> SUFFICES ASSUME Inv, NEW f \in ended PROVE LiveIn(f) = {} /\ SwapsOf(f) = {}
    BY DEF SignedOutForGood
  <2> QED
    BY DEF Inv, EndedInv, LiveIn, SwapsOf
<1> QED
  BY <1>1, Invariance, PTL

-----------------------------------------------------------------------------
(***************************************************************************)
(* The token documents implement SignIns                                   *)
(***************************************************************************)

Swapping(f) == \E r \in Requests : req[r].phase = "insert" /\ req[r].family = f
Usable(f) == \E t \in Tokens : Live(t) /\ doc[t].family = f

\* The sign-ins as the refinement mapping sees them.
View == [f \in Tokens |-> SignInOf(f)]

LEMMA SignInCases ==
    \A f \in Tokens : SignInOf(f) = IF Swapping(f) THEN "swapping"
                                    ELSE IF Usable(f) THEN "usable"
                                    ELSE IF f \in opened THEN "over" ELSE "new"
<1> SUFFICES ASSUME NEW f \in Tokens
             PROVE  SignInOf(f) = IF Swapping(f) THEN "swapping"
                                  ELSE IF Usable(f) THEN "usable"
                                  ELSE IF f \in opened THEN "over" ELSE "new"
  OBVIOUS
<1>1. SwapsOf(f) # {} <=> Swapping(f)
  BY DEF SwapsOf, Swapping
<1>2. LiveIn(f) # {} <=> Usable(f)
  BY DEF LiveIn, Usable
<1> HIDE DEF Swapping, Usable
<1> QED
  BY <1>1, <1>2 DEF SignInOf

\* ... and after a step.
LEMMA SignInCasesAfter ==
    \A f \in Tokens : SignInOf(f)' = IF Swapping(f)' THEN "swapping"
                                     ELSE IF Usable(f)' THEN "usable"
                                     ELSE IF f \in opened' THEN "over" ELSE "new"
<1>1. (\A f \in Tokens : SignInOf(f) = IF Swapping(f) THEN "swapping"
                                       ELSE IF Usable(f) THEN "usable"
                                       ELSE IF f \in opened THEN "over" ELSE "new")'
  BY SignInCases, PTL
<1> QED
  BY <1>1

\* Steps that leave alone which tokens are usable and which are on their way.
LEMMA SameSignIns ==
    ASSUME \A f \in Tokens : /\ Swapping(f)' <=> Swapping(f)
                             /\ Usable(f)' <=> Usable(f)
                             /\ f \in opened' <=> f \in opened
    PROVE  View' = View
BY SignInCases, SignInCasesAfter DEF View

\* Steps that do so for every family but one.
LEMMA OneSignInMoves ==
    ASSUME NEW g \in Tokens,
           \A f \in Tokens \ {g} : /\ Swapping(f)' <=> Swapping(f)
                                   /\ Usable(f)' <=> Usable(f)
                                   /\ f \in opened' <=> f \in opened
    PROVE  View' = [View EXCEPT ![g] = SignInOf(g)']
<1>1. \A f \in Tokens \ {g} : SignInOf(f)' = SignInOf(f)
  BY SignInCases, SignInCasesAfter
<1> QED
  BY <1>1 DEF View

LEMMA ClaimImplements ==
    ASSUME Inv, NEW r \in Requests, NEW t \in Tokens, NEW n \in Tokens,
           req[r].phase \in {"claim", "successor"}, ClaimToken(r, t, n)
    PROVE  Promise!Next
<1> PICK g \in Tokens : g = doc[t].family
  BY DEF Inv, TypeOK, ClaimToken, Doc, TokenOrNone, Live
<1>1. /\ doc'[t].family = g /\ doc'[t].revoked /\ \A u \in Tokens \ {t} : doc'[u] = doc[u]
      /\ req'[r].phase = "insert" /\ req'[r].family = g
      /\ \A s \in Requests \ {r} : req'[s] = req[s]
      /\ opened' = opened /\ Live(t)
  BY DEF Inv, TypeOK, ClaimToken, Doc, Request
<1>2. /\ \A u \in Tokens : Live(u) /\ doc[u].family = g => u = t
      /\ \A s \in Requests : req[s].phase = "insert" => req[s].family # g
  BY <1>1 DEF Inv, OneInv
<1>3. \A f \in Tokens \ {g} : /\ Swapping(f)' <=> Swapping(f)
                              /\ Usable(f)' <=> Usable(f)
  BY <1>1 DEF Swapping, Usable, Live
<1>4. ~Swapping(g) /\ Usable(g) /\ Swapping(g)'
  BY <1>1, <1>2 DEF Swapping, Usable
<1>5. SignInOf(g) = "usable" /\ SignInOf(g)' = "swapping"
  BY <1>1, <1>4, SignInCases, SignInCasesAfter
<1>6. View' = [View EXCEPT ![g] = "swapping"]
  BY <1>1, <1>3, <1>5, OneSignInMoves
<1>7. Promise!Swap(g)
  BY <1>1, <1>5, <1>6 DEF Promise!Swap, View
<1> QED
  BY <1>1, <1>7 DEF Promise!Next

LEMMA InsertImplements ==
    ASSUME Inv, NEW r \in Requests, Insert(r) PROVE Promise!Next
<1> PICK g \in Tokens : g = req[r].family
  BY DEF Inv, ReqInv, Insert, TypeOK
<1> PICK n \in Tokens : n = req[r].fresh
  BY DEF Inv, ReqInv, Insert, TypeOK
<1>1. /\ req[r].phase = "insert" /\ n \notin Stored
      /\ doc' = [doc EXCEPT ![n] = Fresh(g)] /\ req' = [req EXCEPT ![r] = NoRequest]
      /\ opened' = opened
  BY DEF Insert, Inv, ReqInv
<1>2. /\ doc'[n] = Fresh(g) /\ \A u \in Tokens \ {n} : doc'[u] = doc[u]
      /\ req'[r] = NoRequest /\ \A s \in Requests \ {r} : req'[s] = req[s]
  BY <1>1 DEF Inv, TypeOK
<1>3. /\ \A u \in Tokens : Live(u) => doc[u].family # g
      /\ \A s \in Requests : req[s].phase = "insert" /\ req[s].family = g => s = r
  BY <1>1 DEF Inv, OneInv
<1>4. Fresh(g).family = g /\ ~Fresh(g).revoked /\ ~Fresh(g).expired /\ g # NoToken
  BY NoTokenAssumption DEF Fresh, NoDoc
<1>5. \A f \in Tokens \ {g} : /\ Swapping(f)' <=> Swapping(f)
                              /\ Usable(f)' <=> Usable(f)
  BY <1>1, <1>2, <1>4 DEF Swapping, Usable, Live, NoRequest, Stored
<1>6. Swapping(g)
  BY <1>1 DEF Swapping
<1>7. ~Swapping(g)'
  BY <1>2, <1>3 DEF Swapping, NoRequest
<1>8. Usable(g)'
  BY <1>2, <1>4 DEF Usable, Live
<1>9. SignInOf(g) = "swapping" /\ SignInOf(g)' = "usable"
  BY <1>6, <1>7, <1>8, SignInCases, SignInCasesAfter
<1>10. Promise!HandOut(g)
  BY <1>1, <1>5, <1>9, OneSignInMoves DEF Promise!HandOut, View
<1> QED
  BY <1>10 DEF Promise!Next

\* What ends one sign-in: its usable token expires or is revoked, or the request
\* that was to store its next one dies.
LEMMA EndImplements ==
    ASSUME NEW g \in Tokens, opened' = opened, g \in opened,
           \A f \in Tokens \ {g} : /\ Swapping(f)' <=> Swapping(f)
                                   /\ Usable(f)' <=> Usable(f),
           Swapping(g) \/ Usable(g), ~Swapping(g)', ~Usable(g)'
    PROVE  Promise!Next
<1>1. SignInOf(g) # "over" /\ SignInOf(g)' = "over"
  BY SignInCases, SignInCasesAfter
<1>2. Promise!End(g)
  BY <1>1, OneSignInMoves DEF Promise!End, View
<1> QED
  BY <1>2 DEF Promise!Next

LEMMA RevokeFamilyImplements ==
    ASSUME Inv, NEW r \in Requests, RevokeFamily(r) PROVE Promise!Next \/ View' = View
<1> PICK g \in Tokens : g = req[r].family
  BY DEF Inv, ReqInv, RevokeFamily, TypeOK
<1>1. /\ req[r].phase # "insert" /\ opened' = opened /\ g \in opened
      /\ req'[r] = NoRequest /\ \A s \in Requests \ {r} : req'[s] = req[s]
  BY DEF RevokeFamily, Inv, TypeOK, ReqInv
<1>2. \A t \in Tokens : Live(t)' <=> Live(t) /\ doc[t].family # g
  BY DEF RevokeFamily, Revoked, Live, Stored, Inv, TypeOK, Doc
<1>3. \A t \in Tokens : doc'[t].family = doc[t].family
  BY DEF RevokeFamily, Revoked, Inv, TypeOK, Doc
<1>4. \A f \in Tokens : Swapping(f)' <=> Swapping(f)
  BY <1>1 DEF Swapping, NoRequest
<1>5. ~Usable(g)' /\ \A f \in Tokens \ {g} : Usable(f)' <=> Usable(f)
  BY <1>2, <1>3 DEF Usable
<1>6. Usable(g) => ~Swapping(g)
  BY DEF Usable, Swapping, Inv, OneInv
<1>7. CASE Usable(g)
  BY <1>1, <1>4, <1>5, <1>6, <1>7, EndImplements
<1>8. CASE ~Usable(g)
  BY <1>1, <1>4, <1>5, <1>8, SameSignIns
<1> QED
  BY <1>7, <1>8

LEMMA RevokeAllImplements == ASSUME Inv, RevokeUserSessions PROVE Promise!Next
<1>1. opened' = opened /\ \A f \in Tokens : Swapping(f)' <=> Swapping(f)
  BY DEF RevokeUserSessions, Swapping
<1>2. \A f \in Tokens : ~Usable(f)'
  BY DEF RevokeUserSessions, Revoked, Usable, Live, Stored, Inv, TypeOK, Doc
<1>3. \A f \in Tokens : Usable(f) => f \in opened
  BY NoTokenAssumption DEF Usable, Inv, DocInv
<1>4. \A f \in Tokens :
        SignInOf(f)' = IF SignInOf(f) = "usable" THEN "over" ELSE SignInOf(f)
  BY <1>1, <1>2, <1>3, SignInCases, SignInCasesAfter
<1>5. Promise!EndAll
  BY <1>4 DEF Promise!EndAll, View
<1> QED
  BY <1>5 DEF Promise!Next

LEMMA CreateSessionImplements ==
    ASSUME Inv, NEW t \in Tokens, CreateSession(t) PROVE Promise!Next
<1>1. /\ doc'[t] = Fresh(t) /\ \A u \in Tokens \ {t} : doc'[u] = doc[u]
      /\ UNCHANGED req /\ opened' = opened \cup {t} /\ t \notin opened /\ t \notin Stored
      /\ Fresh(t).family = t /\ ~Fresh(t).revoked /\ ~Fresh(t).expired /\ t # NoToken
  BY NoTokenAssumption DEF CreateSession, Inv, TypeOK, DocInv, Stored, Fresh, NoDoc
<1>2. /\ \A u \in Tokens : Live(u) => doc[u].family # t
      /\ \A r \in Requests : req[r].phase = "insert" => req[r].family # t
  BY <1>1 DEF Inv, DocInv, ReqInv, Live
<1>3. \A f \in Tokens \ {t} : Swapping(f)' <=> Swapping(f)
  BY <1>1 DEF Swapping
<1>4. \A f \in Tokens \ {t} : Usable(f)' <=> Usable(f)
  BY <1>1 DEF Usable, Live, Stored
<1>5. ~Swapping(t) /\ ~Usable(t) /\ ~Swapping(t)' /\ Usable(t)'
  BY <1>1, <1>2 DEF Swapping, Usable, Live
<1>6. SignInOf(t) = "new" /\ SignInOf(t)' = "usable"
  BY <1>1, <1>5, SignInCases, SignInCasesAfter
<1>7. Promise!Begin(t)
  BY <1>1, <1>3, <1>4, <1>6, OneSignInMoves DEF Promise!Begin, View
<1> QED
  BY <1>7 DEF Promise!Next

LEMMA ExpireImplements ==
    ASSUME Inv, NEW t \in Tokens, Expire(t) PROVE Promise!Next \/ View' = View
<1> PICK g \in Tokens : g = doc[t].family
  BY DEF Expire, Stored, Inv, TypeOK, Doc, TokenOrNone
<1>1. /\ UNCHANGED <<req, opened>> /\ g \in opened
      /\ \A u \in Tokens : doc'[u].family = doc[u].family /\ (Live(u)' <=> Live(u) /\ u # t)
  <2>1. /\ doc'[t].family = doc[t].family /\ doc'[t].expired
        /\ \A u \in Tokens \ {t} : doc'[u] = doc[u]
    BY DEF Expire, Inv, TypeOK, Doc
  <2>2. UNCHANGED <<req, opened>> /\ g \in opened
    BY NoTokenAssumption DEF Expire, Inv, DocInv
  <2> QED
    BY <2>1, <2>2 DEF Live
<1>2. \A f \in Tokens : Swapping(f)' <=> Swapping(f)
  BY <1>1 DEF Swapping
<1>3. \A f \in Tokens \ {g} : Usable(f)' <=> Usable(f)
  BY <1>1 DEF Usable
<1>4. CASE Live(t)
  <2>1. ~Usable(g)' /\ Usable(g) /\ ~Swapping(g)
    BY <1>1, <1>4 DEF Usable, Swapping, Inv, OneInv
  <2> QED
    BY <1>1, <1>2, <1>3, <2>1, EndImplements
<1>5. CASE ~Live(t)
  <2>1. Usable(g)' <=> Usable(g)
    BY <1>1, <1>5 DEF Usable
  <2> QED
    BY <1>1, <1>2, <1>3, <2>1, SameSignIns
<1> QED
  BY <1>4, <1>5

LEMMA CrashImplements ==
    ASSUME Inv, NEW r \in Requests, Crash(r) PROVE Promise!Next \/ View' = View
<1>1. /\ UNCHANGED <<doc, opened>> /\ req'[r].phase = "idle"
      /\ \A s \in Requests \ {r} : req'[s] = req[s]
  BY DEF Crash, Inv, TypeOK, NoRequest
<1>2. \A f \in Tokens : Usable(f)' <=> Usable(f)
  BY <1>1 DEF Usable, Live
<1>3. CASE req[r].phase = "insert"
  <2> PICK g \in Tokens : g = req[r].family
    BY <1>3 DEF Inv, ReqInv, TypeOK
  <2>1. \A f \in Tokens \ {g} : Swapping(f)' <=> Swapping(f)
    BY <1>1 DEF Swapping
  <2>2. Swapping(g) /\ ~Swapping(g)' /\ ~Usable(g) /\ g \in opened
    BY <1>1, <1>3 DEF Swapping, Usable, Inv, OneInv, ReqInv
  <2> QED
    BY <1>1, <1>2, <2>1, <2>2, EndImplements
<1>4. CASE req[r].phase # "insert"
  <2>1. \A f \in Tokens : Swapping(f)' <=> Swapping(f)
    BY <1>1, <1>4 DEF Swapping
  <2> QED
    BY <1>1, <1>2, <2>1, SameSignIns
<1> QED
  BY <1>3, <1>4

\* Every other step leaves every sign-in as it was.
LEMMA QuietDocs ==
    ASSUME Inv, NEW t \in Tokens, GraceEnds(t) \/ Remove(t) PROVE View' = View
<1>1. \A u \in Tokens : (Live(u)' <=> Live(u)) /\ (Live(u) => doc'[u].family = doc[u].family)
  <2>1. CASE GraceEnds(t)
    BY <2>1 DEF GraceEnds, Live, Inv, TypeOK, Doc
  <2>2. CASE Remove(t)
    BY <2>2 DEF Remove, Live, NoDoc, Inv, TypeOK, Doc
  <2> QED
    BY <2>1, <2>2
<1>2. UNCHANGED <<req, opened>>
  BY DEF GraceEnds, Remove
<1>3. \A f \in Tokens : (Swapping(f)' <=> Swapping(f)) /\ (Usable(f)' <=> Usable(f))
  BY <1>1, <1>2 DEF Swapping, Usable
<1> QED
  BY <1>2, <1>3, SameSignIns

\* A request that looks something up.
LooksUp(r) ==
    \/ \E t \in Tokens : Refresh(r, t) \/ Logout(r, t)
    \/ ClaimFails(r) \/ FindSuccessor(r) \/ ClaimSuccessorFails(r) \/ Reject(r) \/ FindFamily(r)

LEMMA QuietRequests ==
    ASSUME Inv, NEW r \in Requests, LooksUp(r) PROVE View' = View
<1>1. UNCHANGED <<doc, opened>> /\ req[r].phase # "insert" /\ \A s \in Requests \ {r} : req'[s] = req[s]
  BY DEF LooksUp, Refresh, Logout, ClaimFails, FindSuccessor, ClaimSuccessorFails, Reject,
         FindFamily, Inv, TypeOK
<1>2. req'[r].phase # "insert"
  <2>1. req[r] \in Request
    BY DEF Inv, TypeOK
  <2>2. CASE \E t \in Tokens : Refresh(r, t) \/ Logout(r, t)
    BY <2>2 DEF Refresh, Logout, Inv, TypeOK, Request
  <2>3. CASE ClaimFails(r) \/ ClaimSuccessorFails(r)
    BY <2>3 DEF ClaimFails, ClaimSuccessorFails, Inv, TypeOK, Request
  <2>4. CASE FindSuccessor(r)
    BY <2>4 DEF FindSuccessor, Inv, TypeOK, Request
  <2>5. \A p, f : [req[r] EXCEPT !.phase = p, !.family = f].phase = p
    BY <2>1 DEF Request
  <2>6. NoRequest.phase = "idle"
    BY DEF NoRequest
  <2>7. CASE Reject(r)
    <3>1. req'[r] = IF doc[req[r].token].revoked
                      THEN [req[r] EXCEPT !.phase = "reuse", !.family = doc[req[r].token].family]
                      ELSE NoRequest
      BY <2>7 DEF Reject, Inv, TypeOK
    <3> QED
      BY <2>5, <2>6, <3>1
  <2>8. CASE FindFamily(r)
    <3>1. req'[r] = IF req[r].token \in Stored
                      THEN [req[r] EXCEPT !.phase = "logout", !.family = doc[req[r].token].family]
                      ELSE NoRequest
      BY <2>8 DEF FindFamily, Inv, TypeOK
    <3> QED
      BY <2>5, <2>6, <3>1
  <2> QED
    BY <2>2, <2>3, <2>4, <2>7, <2>8 DEF LooksUp
<1>3. \A f \in Tokens : (Swapping(f)' <=> Swapping(f)) /\ (Usable(f)' <=> Usable(f))
  BY <1>1, <1>2 DEF Swapping, Usable, Live
<1> QED
  BY <1>1, <1>3, SameSignIns

LEMMA InitImplements == Init => Promise!Init
<1> SUFFICES ASSUME Init, NEW f \in Tokens PROVE SignInOf(f) = "new"
  BY DEF Promise!Init
<1> QED
  BY SignInCases, NoTokenAssumption DEF Init, Swapping, Usable, Live, NoRequest, NoDoc

LEMMA StepImplements ==
    Inv /\ [Next]_vars => [Promise!Next]_([f \in Tokens |-> SignInOf(f)])
<1> SUFFICES ASSUME Inv, [Next]_vars PROVE Promise!Next \/ View' = View
  BY DEF View
<1>1. ASSUME NEW r \in Requests, NEW n \in Tokens, Claim(r, n) \/ ClaimSuccessor(r, n)
      PROVE  Promise!Next
  <2>1. CASE Claim(r, n)
    BY <2>1, ClaimImplements DEF Claim, Inv, ReqInv, KnownToken, TypeOK
  <2>2. CASE ClaimSuccessor(r, n)
    BY <2>2, ClaimImplements DEF ClaimSuccessor, Inv, ReqInv, TypeOK, Request, TokenOrNone
  <2> QED
    BY <1>1, <2>1, <2>2
<1>2. CASE UNCHANGED vars
  <2>1. \A f \in Tokens : /\ Swapping(f)' <=> Swapping(f)
                          /\ Usable(f)' <=> Usable(f)
                          /\ f \in opened' <=> f \in opened
    BY <1>2 DEF vars, Swapping, Usable, Live
  <2> QED
    BY <2>1, SameSignIns
<1>3. ASSUME NEW r \in Requests, LooksUp(r) PROVE View' = View
  BY <1>3, QuietRequests
<1> QED
  BY <1>1, <1>2, <1>3, CreateSessionImplements, ExpireImplements, QuietDocs,
     InsertImplements, RevokeFamilyImplements, RevokeAllImplements, CrashImplements
     DEF Next, LooksUp

\* The token documents implement sign-ins: each begins once, hands its one token
\* on, and once over stays over.
THEOREM SessionsImplementSignIns == Spec => ImplementsSignIns
<1>1. Init => Promise!Init
  BY InitImplements
<1>2. Inv /\ [Next]_vars => [Promise!Next]_([f \in Tokens |-> SignInOf(f)])
  BY StepImplements
<1> QED
  BY <1>1, <1>2, Invariance, PTL DEF Spec, ImplementsSignIns, Promise!Spec


-----------------------------------------------------------------------------
(***************************************************************************)
(* Grants                                                                  *)
(***************************************************************************)

\* A request holds a token pair from the provider's answer until it is stored.
Holds(r, t) == grantReq[r].pc \in {"save", "store"} /\ grantReq[r].token = t

GrantRequest == [pc : {"idle", "refresh", "save", "reread", "refused", "call", "mark",
                       "store", "connect", "siblings", "drop", "over"},
                 product : Products \cup {None}, had : 0..issued, token : 0..issued]

GrantTypes ==
    /\ issued \in 0..MaxTokens
    /\ conn \in [Products -> {"active", "disconnected"}]
    /\ tokenDoc \in [token : 0..issued, status : Grants!Statuses, due : BOOLEAN]
    /\ usable \subseteq 1..issued /\ good \subseteq 1..issued /\ lost \subseteq 1..issued
    /\ grantReq \in [Others -> GrantRequest]

\* A pair that is held was never stored, so nobody can have used it: it still
\* works, or the grant was taken away.
HeldInv ==
    \A r \in Others : \A t \in 0..issued : Holds(r, t) =>
        /\ t \in usable \cup lost
        /\ tokenDoc.token # t
        /\ \A s \in Others : /\ Holds(s, t) => s = r
                             /\ grantReq[s].pc = "refresh" => grantReq[s].had # t

GrantInv == GrantTypes /\ HeldInv /\ Grants!TokenKept

LEMMA GrantInit == ASSUME MaxTokens \in Nat PROVE Grants!Init => GrantInv
<1> SUFFICES ASSUME Grants!Init PROVE GrantInv
  OBVIOUS
<1>1. GrantTypes
  BY DEF Grants!Init, GrantTypes, Grants!Statuses, Grants!Idle, GrantRequest
<1>2. HeldInv
  BY DEF Grants!Init, HeldInv, Holds, Grants!Idle
<1>3. Grants!TokenKept
  BY DEF Grants!Init, Grants!TokenKept
<1> QED
  BY <1>1, <1>2, <1>3 DEF GrantInv

\* A step of a request that neither gets nor stores a token pair.
LEMMA GrantPlainStep ==
    ASSUME GrantInv, NEW r \in Others, NEW q \in GrantRequest,
           grantReq' = [grantReq EXCEPT ![r] = q],
           q.pc \notin {"save", "store"},
           q.pc = "refresh" => q.had = tokenDoc.token,
           UNCHANGED <<issued, usable, good>>,
           lost \subseteq lost', lost' \subseteq 1..issued,
           \A t \in 0..issued : Holds(r, t) => t \in lost',
           conn' \in [Products -> {"active", "disconnected"}],
           tokenDoc' \in [token : 0..issued, status : Grants!Statuses, due : BOOLEAN],
           tokenDoc'.token = tokenDoc.token
    PROVE  GrantInv'
<1> USE DEF GrantInv
<1>1. grantReq'[r] = q /\ \A s \in Others \ {r} : grantReq'[s] = grantReq[s]
  BY DEF GrantTypes
<1>2. GrantTypes'
  BY DEF GrantTypes, GrantRequest
<1>3. \A s \in Others : \A t \in 0..issued : Holds(s, t)' => s # r /\ Holds(s, t)
  BY <1>1 DEF Holds
<1>4. HeldInv'
  <2> SUFFICES ASSUME NEW s \in Others, NEW t \in 0..issued, Holds(s, t)'
               PROVE  /\ t \in usable' \cup lost' /\ tokenDoc'.token # t
                      /\ \A o \in Others : /\ Holds(o, t)' => o = s
                                           /\ grantReq'[o].pc = "refresh" => grantReq'[o].had # t
    BY DEF HeldInv
  <2>1. s # r /\ Holds(s, t)
    BY <1>3
  <2>2. t \in usable \cup lost /\ tokenDoc.token # t
    BY <2>1 DEF HeldInv
  <2>3. ASSUME NEW o \in Others
        PROVE  /\ Holds(o, t)' => o = s
               /\ grantReq'[o].pc = "refresh" => grantReq'[o].had # t
    BY <1>1, <1>3, <2>1, <2>2 DEF HeldInv
  <2> QED
    BY <2>2, <2>3
<1>5. Grants!TokenKept'
  <2> SUFFICES ASSUME tokenDoc.token # 0, tokenDoc.token \notin usable
               PROVE  \E t \in tokenDoc.token..issued : Grants!Holding(t)' \/ t \in lost'
    BY DEF Grants!TokenKept
  <2>1. PICK t \in tokenDoc.token..issued : Grants!Holding(t) \/ t \in lost
    BY DEF Grants!TokenKept
  <2>2. t \in 0..issued /\ tokenDoc.token \in Nat /\ issued \in Nat
    BY DEF GrantTypes
  <2>3. CASE t \in lost
    BY <2>3
  <2>4. ASSUME NEW s \in Others, Holds(s, t) PROVE Grants!Holding(t)' \/ t \in lost'
    BY <1>1, <2>2, <2>4 DEF Holds, Grants!Holding
  <2> QED
    BY <2>1, <2>3, <2>4 DEF Grants!Holding, Holds
<1> QED
  BY <1>2, <1>4, <1>5

\* The provider issues a pair to a request: for the one it takes back, which that
\* request had, or for a code.  The answer reaches the request or gets lost.
LEMMA GrantIssueStep ==
    ASSUME MaxTokens \in Nat, GrantInv, NEW r \in Others, NEW S, Grants!Issue(S),
           \A s \in Others : \A t \in 0..issued : s # r /\ Holds(s, t) => t \notin S,
           NEW q, q \in GrantRequest', grantReq' = [grantReq EXCEPT ![r] = q],
           q.pc # "refresh", q.token = issued + 1 \/ q.pc \notin {"save", "store"},
           lost' = lost \/ lost' = lost \cup {issued + 1},
           q.pc \in {"save", "store"} \/ lost' = lost \cup {issued + 1},
           \A t \in 0..issued : ~Holds(r, t),
           UNCHANGED <<conn, tokenDoc>>
    PROVE  GrantInv'
<1> USE DEF GrantInv
<1>1. grantReq'[r] = q /\ \A s \in Others \ {r} : grantReq'[s] = grantReq[s]
  BY DEF GrantTypes
<1>2. /\ issued \in Nat /\ issued' = issued + 1 /\ issued' \in 0..MaxTokens
      /\ usable' = (usable \ S) \cup {issued + 1} /\ good' = good \cup {issued + 1}
  BY DEF Grants!Issue, GrantTypes
<1>3. 0..issued \subseteq 0..issued' /\ issued + 1 \in 1..issued' /\ 1..issued \subseteq 1..issued'
  BY <1>2
<1>4. GrantTypes'
  <2>1. \A s \in Others : grantReq'[s] \in GrantRequest'
    BY <1>1, <1>3 DEF GrantTypes, GrantRequest
  <2>2. usable' \subseteq 1..issued' /\ good' \subseteq 1..issued' /\ lost' \subseteq 1..issued'
    BY <1>2, <1>3 DEF GrantTypes
  <2>3. tokenDoc \in [token : 0..issued', status : Grants!Statuses, due : BOOLEAN]
    BY <1>3 DEF GrantTypes
  <2> QED
    BY <1>1, <1>2, <2>1, <2>2, <2>3 DEF GrantTypes
<1>5. \A s \in Others : \A t \in 0..issued' :
        Holds(s, t)' => \/ s = r /\ t = issued + 1
                        \/ s # r /\ Holds(s, t) /\ t \in 0..issued /\ t \notin S
  BY <1>1, <1>2 DEF Holds, GrantTypes, GrantRequest
<1>6. \A s \in Others \ {r} : grantReq[s].had # issued + 1 /\ grantReq[s].token # issued + 1
  BY <1>2 DEF GrantTypes, GrantRequest
<1>7. tokenDoc.token \in 0..issued
  BY DEF GrantTypes
<1>8. HeldInv'
  <2> SUFFICES ASSUME NEW s \in Others, NEW t \in 0..issued', Holds(s, t)'
               PROVE  /\ t \in usable' \cup lost' /\ tokenDoc'.token # t
                      /\ \A o \in Others : /\ Holds(o, t)' => o = s
                                           /\ grantReq'[o].pc = "refresh" => grantReq'[o].had # t
    BY DEF HeldInv
  <2>1. CASE s = r
    <3>1. t = issued + 1
      BY <1>5, <2>1
    <3> QED
      BY <1>1, <1>2, <1>5, <1>6, <1>7, <2>1, <3>1
  <2>2. CASE s # r
    <3>1. Holds(s, t) /\ t \in 0..issued /\ t \notin S /\ t # issued + 1
      BY <1>2, <1>5, <2>2
    <3>2. t \in usable \cup lost /\ tokenDoc.token # t
      BY <3>1 DEF HeldInv
    <3>3. ASSUME NEW o \in Others
          PROVE  /\ Holds(o, t)' => o = s
                 /\ grantReq'[o].pc = "refresh" => grantReq'[o].had # t
      BY <1>1, <1>5, <3>1 DEF HeldInv
    <3> QED
      BY <1>2, <3>1, <3>2, <3>3
  <2> QED
    BY <2>1, <2>2
<1>9. Grants!TokenKept'
  <2> PICK n \in Nat : n = issued + 1
    BY <1>2
  <2>1. Grants!Holding(n)' \/ n \in lost'
    BY <1>1 DEF Grants!Holding
  <2>2. n \in tokenDoc'.token..issued'
    BY <1>2, <1>7
  <2> QED
    BY <2>1, <2>2 DEF Grants!TokenKept
<1> QED
  BY <1>4, <1>8, <1>9

\* A held pair is stored: it is one the provider takes, or it was taken away.
LEMMA GrantStoreStep ==
    ASSUME GrantInv, NEW r \in Others, grantReq[r].pc \in {"save", "store"},
           tokenDoc' = [token |-> grantReq[r].token, status |-> "active", due |-> FALSE],
           NEW pc \in {"call", "connect"}, Grants!Goto(r, pc),
           UNCHANGED <<conn, issued, usable, good, lost>>
    PROVE  GrantInv'
<1> USE DEF GrantInv
<1> PICK n \in 0..issued : n = grantReq[r].token
  BY DEF GrantTypes, GrantRequest
<1>1. /\ grantReq'[r] = [grantReq[r] EXCEPT !.pc = pc] /\ grantReq'[r].pc = pc
      /\ \A s \in Others \ {r} : grantReq'[s] = grantReq[s]
  BY DEF Grants!Goto, GrantTypes, GrantRequest
<1>2. grantReq'[r] \in GrantRequest
  BY <1>1 DEF GrantTypes, GrantRequest
<1>3. Holds(r, n) /\ n \in usable \cup lost /\ tokenDoc'.token = n
  BY DEF Holds, HeldInv
<1>4. GrantTypes'
  BY <1>1, <1>2 DEF GrantTypes, GrantRequest, Grants!Goto, Grants!Statuses
<1>5. \A s \in Others : \A t \in 0..issued : Holds(s, t)' => s # r /\ Holds(s, t)
  BY <1>1 DEF Holds
<1>6. HeldInv'
  <2> SUFFICES ASSUME NEW s \in Others, NEW t \in 0..issued, Holds(s, t)'
               PROVE  /\ t \in usable' \cup lost' /\ tokenDoc'.token # t
                      /\ \A o \in Others : /\ Holds(o, t)' => o = s
                                           /\ grantReq'[o].pc = "refresh" => grantReq'[o].had # t
    BY DEF HeldInv
  <2>1. s # r /\ Holds(s, t)
    BY <1>5
  <2>2. t \in usable \cup lost /\ t # n
    BY <1>3, <2>1 DEF HeldInv
  <2>3. ASSUME NEW o \in Others
        PROVE  /\ Holds(o, t)' => o = s
               /\ grantReq'[o].pc = "refresh" => grantReq'[o].had # t
    BY <1>1, <1>5, <2>1 DEF HeldInv
  <2> QED
    BY <1>3, <2>2, <2>3
<1>7. Grants!TokenKept'
  <2>1. n \in n..issued'
    BY DEF GrantTypes
  <2> QED
    BY <1>3, <2>1 DEF Grants!TokenKept
<1> QED
  BY <1>4, <1>6, <1>7

\* Time passes, or the grant is taken away at the provider.
LEMMA GrantTimeStep ==
    ASSUME GrantInv, UNCHANGED <<conn, issued, grantReq>>,
           tokenDoc' \in [token : 0..issued, status : Grants!Statuses, due : BOOLEAN],
           tokenDoc'.token = tokenDoc.token,
           usable' \subseteq usable, usable \subseteq usable' \cup lost', good' \subseteq good,
           lost \subseteq lost', lost' \subseteq 1..issued
    PROVE  GrantInv'
<1> USE DEF GrantInv
<1>1. GrantTypes'
  BY DEF GrantTypes, GrantRequest
<1>2. HeldInv'
  BY DEF HeldInv, Holds
<1>3. Grants!TokenKept'
  <2>1. tokenDoc.token # 0 => tokenDoc.token \in tokenDoc.token..issued
    BY DEF GrantTypes
  <2> QED
    BY <2>1 DEF Grants!TokenKept, Grants!Holding
<1> QED
  BY <1>1, <1>2, <1>3

\* A request that holds nothing goes on to something that holds nothing.
LEMMA GrantMoveStep ==
    ASSUME GrantInv, NEW r \in Others, grantReq[r].pc \notin {"save", "store"},
           NEW pc \in {"call", "mark", "refused", "reread", "siblings", "drop", "over"},
           NEW t \in 0..issued,
           grantReq' = [grantReq EXCEPT ![r] = [grantReq[r] EXCEPT !.pc = pc, !.token = t]],
           UNCHANGED <<issued, usable, good, lost>>,
           conn' \in [Products -> {"active", "disconnected"}],
           tokenDoc' \in [token : 0..issued, status : Grants!Statuses, due : BOOLEAN],
           tokenDoc'.token = tokenDoc.token
    PROVE  GrantInv'
<1> DEFINE q == [grantReq[r] EXCEPT !.pc = pc, !.token = t]
<1>1. q \in GrantRequest /\ q.pc = pc
  BY DEF GrantInv, GrantTypes, GrantRequest
<1>2. lost \subseteq 1..issued /\ \A u \in 0..issued : ~Holds(r, u)
  BY DEF Holds, GrantInv, GrantTypes
<1>3. grantReq' = [grantReq EXCEPT ![r] = q]
  OBVIOUS
<1> HIDE DEF q
<1> QED
  BY <1>1, <1>2, <1>3, GrantPlainStep

LEMMA GrantGoto ==
    ASSUME GrantInv, NEW r \in Others, NEW pc, Grants!Goto(r, pc)
    PROVE  /\ grantReq[r].token \in 0..issued
           /\ grantReq' = [grantReq EXCEPT ![r] =
                             [grantReq[r] EXCEPT !.pc = pc, !.token = grantReq[r].token]]
<1>1. grantReq[r] \in GrantRequest
  BY DEF GrantInv, GrantTypes
<1> QED
  BY <1>1 DEF Grants!Goto, GrantRequest

LEMMA GrantStep == ASSUME MaxTokens \in Nat, GrantInv, [Grants!Next]_Grants!vars PROVE GrantInv'
<1>1. /\ tokenDoc.token \in 0..issued /\ issued \in Nat /\ lost \subseteq 1..issued
      /\ \A r \in Others : grantReq[r] \in GrantRequest
      /\ tokenDoc \in [token : 0..issued, status : Grants!Statuses, due : BOOLEAN]
      /\ conn \in [Products -> {"active", "disconnected"}]
  BY DEF GrantInv, GrantTypes
<1>2. ASSUME NEW r \in Others, Grants!Save(r) \/ Grants!Store(r) PROVE GrantInv'
  BY <1>2, GrantStoreStep DEF Grants!Save, Grants!Store, Grants!provider
<1>3. ASSUME NEW r \in Others, Grants!Refresh(r) PROVE GrantInv'
  <2>1. grantReq[r].pc = "refresh" /\ UNCHANGED <<conn, tokenDoc>>
    BY <1>3 DEF Grants!Refresh
  <2>2. \A t \in 0..issued : ~Holds(r, t)
    BY <2>1 DEF Holds
  <2>9. ASSUME NEW pc \in {"reread", "over"}, Grants!Goto(r, pc),
               UNCHANGED <<issued, usable, good, lost>>
        PROVE  GrantInv'
    <3>1. pc \in {"call", "mark", "refused", "reread", "siblings", "drop", "over"}
      BY <2>9
    <3>2. /\ grantReq[r].token \in 0..issued
          /\ grantReq' = [grantReq EXCEPT ![r] =
                            [grantReq[r] EXCEPT !.pc = pc, !.token = grantReq[r].token]]
      BY <2>9, GrantGoto
    <3> QED
      BY <1>1, <2>1, <2>9, <3>1, <3>2, GrantMoveStep
  <2>3. \A s \in Others : \A t \in 0..issued : s # r /\ Holds(s, t) => t \notin {grantReq[r].had}
    BY <2>1 DEF GrantInv, HeldInv
  <2>4. ASSUME Grants!Issue({grantReq[r].had})
        PROVE  issued' = issued + 1 /\ 0..issued \subseteq 0..issued' /\ issued + 1 \in 0..issued'
    BY <1>1, <2>4 DEF Grants!Issue
  <2>5. grantReq' = [grantReq EXCEPT ![r].pc = "save", ![r].token = issued + 1]
          => grantReq' = [grantReq EXCEPT ![r] = [grantReq[r] EXCEPT !.pc = "save", !.token = issued + 1]]
    BY DEF GrantInv, GrantTypes
  <2>6. Grants!Over(r) => /\ Grants!Goto(r, "over")
                          /\ grantReq' = [grantReq EXCEPT ![r] = [grantReq[r] EXCEPT !.pc = "over"]]
    BY DEF Grants!Over, Grants!Goto
  <2>7. CASE /\ Grants!Issue({grantReq[r].had})
             /\ \/ /\ grantReq' = [grantReq EXCEPT ![r].pc = "save", ![r].token = issued + 1]
                   /\ UNCHANGED lost
                \/ Grants!Over(r) /\ lost' = lost \cup {issued + 1}
    <3>1. CASE /\ grantReq' = [grantReq EXCEPT ![r].pc = "save", ![r].token = issued + 1]
               /\ UNCHANGED lost
      <4> DEFINE q == [grantReq[r] EXCEPT !.pc = "save", !.token = issued + 1]
      <4>1. grantReq[r] \in GrantRequest /\ grantReq[r] \in GrantRequest'
        BY <1>1, <2>4, <2>7 DEF GrantRequest
      <4>2. q \in GrantRequest'
        BY <2>4, <2>7, <4>1 DEF GrantRequest
      <4>3. q.pc = "save" /\ q.token = issued + 1
        BY <4>1 DEF GrantRequest
      <4>4. grantReq' = [grantReq EXCEPT ![r] = q] /\ lost' = lost
        BY <2>5, <3>1
      <4> HIDE DEF q
      <4> QED
        BY <2>1, <2>2, <2>3, <2>7, <4>2, <4>3, <4>4, GrantIssueStep
    <3>2. CASE Grants!Over(r) /\ lost' = lost \cup {issued + 1}
      <4> DEFINE q == [grantReq[r] EXCEPT !.pc = "over"]
      <4>1. grantReq[r] \in GrantRequest /\ grantReq[r] \in GrantRequest'
        BY <1>1, <2>4, <2>7 DEF GrantRequest
      <4>2. q \in GrantRequest' /\ q.pc = "over"
        BY <4>1 DEF GrantRequest
      <4>3. grantReq' = [grantReq EXCEPT ![r] = q]
        BY <2>6, <3>2
      <4> HIDE DEF q
      <4> QED
        BY <2>1, <2>2, <2>3, <2>7, <3>2, <4>2, <4>3, GrantIssueStep
    <3> QED
      BY <2>7, <3>1, <3>2
  <2>8. CASE /\ Grants!Goto(r, "reread") \/ Grants!Over(r)
             /\ UNCHANGED <<Grants!provider, lost>>
    BY <2>6, <2>8, <2>9 DEF Grants!provider
  <2> QED
    BY <1>3, <2>7, <2>8 DEF Grants!Refresh
<1>4. ASSUME NEW r \in Others, NEW p \in Products, Grants!Authorize(r, p) PROVE GrantInv'
  <2> DEFINE q == [pc |-> "store", product |-> p, had |-> 0, token |-> issued + 1]
  <2>1. issued' = issued + 1 /\ q \in GrantRequest'
    BY <1>1, <1>4 DEF Grants!Authorize, Grants!Issue, GrantRequest
  <2>2. \A t \in 0..issued : ~Holds(r, t)
    BY <1>4 DEF Holds, Grants!Authorize
  <2>3. /\ Grants!Issue({}) /\ grantReq' = [grantReq EXCEPT ![r] = q]
        /\ UNCHANGED <<conn, tokenDoc, lost>> /\ q.pc = "store" /\ q.token = issued + 1
    BY <1>4 DEF Grants!Authorize
  <2> HIDE DEF q
  <2> QED
    BY <2>1, <2>2, <2>3, GrantIssueStep
<1>5. ASSUME NEW r \in Others, NEW p \in Products, Grants!Use(r, p) PROVE GrantInv'
  <2> DEFINE q == [pc |-> IF tokenDoc.due THEN "refresh" ELSE "call", product |-> p,
                   had |-> tokenDoc.token, token |-> tokenDoc.token]
  <2>1. q \in GrantRequest /\ q.pc \in {"refresh", "call"} /\ q.had = tokenDoc.token
    BY <1>1 DEF GrantRequest
  <2>2. /\ grantReq' = [grantReq EXCEPT ![r] = q] /\ grantReq[r].pc = "idle"
        /\ UNCHANGED <<conn, tokenDoc, issued, usable, good, lost>>
    BY <1>5 DEF Grants!Use, Grants!provider
  <2> HIDE DEF q
  <2>3. \A u \in 0..issued : ~Holds(r, u)
    BY <2>2 DEF Holds
  <2> QED
    BY <1>1, <2>1, <2>2, <2>3, GrantPlainStep
<1>6. ASSUME NEW r \in Others, NEW p \in Products, Grants!Disconnect(r, p) PROVE GrantInv'
  <2> DEFINE q == [Grants!Idle EXCEPT !.pc = "siblings", !.product = p]
  <2>0. Grants!Idle \in GrantRequest
    BY <1>1 DEF GrantRequest, Grants!Idle
  <2>1. q \in GrantRequest /\ q.pc = "siblings"
    BY <2>0 DEF GrantRequest
  <2>2. /\ grantReq' = [grantReq EXCEPT ![r] = q] /\ grantReq[r].pc = "idle"
        /\ UNCHANGED <<tokenDoc, issued, usable, good, lost>>
        /\ conn' \in [Products -> {"active", "disconnected"}]
    BY <1>1, <1>6 DEF Grants!Disconnect, Grants!provider
  <2> HIDE DEF q
  <2>3. \A u \in 0..issued : ~Holds(r, u)
    BY <2>2 DEF Holds
  <2> QED
    BY <1>1, <2>1, <2>2, <2>3, GrantPlainStep
<1>7. ASSUME NEW r \in Others, Grants!Reread(r) PROVE GrantInv'
  <2>1. CASE Grants!Goto(r, "refused")
    BY <1>1, <1>7, <2>1, GrantGoto, GrantMoveStep DEF Grants!Reread, Grants!provider
  <2>2. CASE grantReq' = [grantReq EXCEPT ![r].pc = "call", ![r].token = tokenDoc.token]
    <3>1. grantReq' = [grantReq EXCEPT ![r] = [grantReq[r] EXCEPT !.pc = "call", !.token = tokenDoc.token]]
      BY <2>2 DEF GrantInv, GrantTypes
    <3> QED
      BY <1>1, <1>7, <3>1, GrantMoveStep DEF Grants!Reread, Grants!provider
  <2> QED
    BY <1>7, <2>1, <2>2 DEF Grants!Reread, Grants!Goto
<1>8. ASSUME NEW r \in Others, Grants!Call(r) \/ Grants!LookAtSiblings(r) PROVE GrantInv'
  <2>1. PICK pc \in {"over", "mark", "drop"} : Grants!Goto(r, pc)
    BY <1>8 DEF Grants!Call, Grants!LookAtSiblings
  <2>2. grantReq[r].pc \in {"call", "siblings"} /\ UNCHANGED <<conn, tokenDoc, issued, usable, good, lost>>
    BY <1>8 DEF Grants!Call, Grants!LookAtSiblings, Grants!provider
  <2>3. /\ grantReq[r].token \in 0..issued
        /\ grantReq' = [grantReq EXCEPT ![r] =
                          [grantReq[r] EXCEPT !.pc = pc, !.token = grantReq[r].token]]
    BY <2>1, GrantGoto
  <2> QED
    BY <1>1, <2>1, <2>2, <2>3, GrantMoveStep
<1>9. ASSUME NEW r \in Others, Grants!MarkReauth(r) \/ Grants!DropGrant(r) \/ Grants!Connect(r)
      PROVE  GrantInv'
  <2>1. Grants!Goto(r, "over") /\ grantReq[r].pc \in {"mark", "refused", "drop", "connect"}
        /\ UNCHANGED <<issued, usable, good, lost>>
    BY <1>9 DEF Grants!MarkReauth, Grants!DropGrant, Grants!Connect, Grants!Over, Grants!provider
  <2>2. conn' \in [Products -> {"active", "disconnected"}]
    BY <1>1, <1>9 DEF Grants!MarkReauth, Grants!DropGrant, Grants!Connect
  <2>3. /\ tokenDoc' \in [token : 0..issued, status : Grants!Statuses, due : BOOLEAN]
        /\ tokenDoc'.token = tokenDoc.token
    BY <1>1, <1>9 DEF Grants!MarkReauth, Grants!DropGrant, Grants!Connect, Grants!Statuses
  <2>4. /\ grantReq[r].token \in 0..issued
        /\ grantReq' = [grantReq EXCEPT ![r] =
                          [grantReq[r] EXCEPT !.pc = "over", !.token = grantReq[r].token]]
    BY <2>1, GrantGoto
  <2>5. grantReq[r].pc \notin {"save", "store"}
    BY <2>1
  <2> QED
    BY <2>1, <2>2, <2>3, <2>4, <2>5, GrantMoveStep
<1>10. ASSUME NEW r \in Others, Grants!Stop(r) PROVE GrantInv'
  <2> DEFINE q == [grantReq[r] EXCEPT !.pc = "over"]
  <2>1. q \in GrantRequest /\ q.pc = "over" /\ grantReq' = [grantReq EXCEPT ![r] = q]
    BY <1>1, <1>10 DEF GrantRequest, Grants!Stop, Grants!Over, Grants!Goto
  <2>2. /\ UNCHANGED <<conn, tokenDoc, issued, usable, good>> /\ lost \subseteq lost'
        /\ \A t \in 0..issued : Holds(r, t) => t \in lost'
    BY <1>10 DEF Grants!Stop, Grants!provider, Holds
  <2>3. grantReq[r].pc \in {"save", "store"} => grantReq[r].token \in 1..issued
    <3> SUFFICES ASSUME grantReq[r].pc \in {"save", "store"} PROVE grantReq[r].token \in 1..issued
      OBVIOUS
    <3> PICK t \in 0..issued : t = grantReq[r].token
      BY <1>1 DEF GrantRequest
    <3>1. Holds(r, t)
      BY DEF Holds
    <3> QED
      BY <3>1 DEF GrantInv, HeldInv, GrantTypes
  <2>4. lost' \subseteq 1..issued
    BY <1>1, <1>10, <2>3 DEF Grants!Stop
  <2> HIDE DEF q
  <2> QED
    BY <1>1, <2>1, <2>2, <2>4, GrantPlainStep
<1>11. CASE Grants!NearExpiry
  <2>1. /\ tokenDoc' \in [token : 0..issued, status : Grants!Statuses, due : BOOLEAN]
        /\ tokenDoc'.token = tokenDoc.token
    BY <1>1, <1>11 DEF Grants!NearExpiry
  <2> QED
    BY <1>1, <1>11, <2>1, GrantTimeStep DEF Grants!NearExpiry, Grants!provider
<1>12. CASE Grants!RevokeGrant
  <2>1. usable \subseteq 1..issued
    BY DEF GrantInv, GrantTypes
  <2> QED
    BY <1>1, <1>12, <2>1, GrantTimeStep DEF Grants!RevokeGrant
<1>13. CASE UNCHANGED Grants!vars
  BY <1>1, <1>13, GrantTimeStep DEF Grants!vars
<1> QED
  BY <1>2, <1>3, <1>4, <1>5, <1>6, <1>7, <1>8, <1>9, <1>10, <1>11, <1>12, <1>13 DEF Grants!Next

\* oauth_tokens.py: whichever requests refresh the shared grant, and in whatever
\* order their answers are stored, the stored pair works, or a later one is on its
\* way to the store, or was lost there, or the grant was taken away.
THEOREM GrantsTokenKept == ASSUME MaxTokens \in Nat PROVE Grants!Spec => []Grants!TokenKept
<1>1. Grants!Init => GrantInv
  BY GrantInit
<1>2. GrantInv /\ [Grants!Next]_Grants!vars => GrantInv'
  BY GrantStep
<1>3. GrantInv => Grants!TokenKept
  BY DEF GrantInv
<1> QED
  BY <1>1, <1>2, <1>3, PTL DEF Grants!Spec

-----------------------------------------------------------------------------
(***************************************************************************)
(* Workspaces                                                              *)
(***************************************************************************)

InviteRecord == [kind : Members!Kinds \cup {"none"}, to : 0..Members!Owner, for : Users \cup {None},
                 link : Members!Links, pending : BOOLEAN, expired : BOOLEAN, revoked : BOOLEAN,
                 by : Users \cup {None}]
MemberRequest == [pc : {"idle", "find", "count", "write", "delete", "invitee", "release", "insert",
                        "find invite", "resend", "revoke", "workspace", "membership", "claim", "join", "over"},
                  op : {"none", "set", "remove", "delete", "invite", "resend", "revoke", "accept"},
                  actor : Users \cup {None}, as : 0..Members!Owner, target : Users \cup {None},
                  to : 0..Members!Owner, kind : Members!Kinds \cup {"none"},
                  invite : Invites \cup {None}, link : Members!Links]

MemberTypes ==
    /\ role \in [Users -> 0..Members!Owner] /\ live \in BOOLEAN /\ crossed \in BOOLEAN
    /\ creator \in Users \cup {None}
    /\ invite \in [Invites -> InviteRecord]
    /\ admitted \in [Invites -> SUBSET Users]
    /\ wsReq \in [Requests -> MemberRequest]

\* What a request asked for, or found of its invite, which stays so until it writes.
Asked(q) ==
    /\ q.op = "remove" => q.to = 0
    /\ q.pc \in {"find invite", "resend", "revoke", "workspace", "membership", "claim", "join"} => q.invite \in Invites
    /\ q.pc = "resend" => q.link + 1 \in Members!Links
    /\ q.pc \in {"resend", "workspace", "membership", "claim", "join"} => Members!Made(q.invite)
    /\ q.pc \in {"workspace", "membership", "claim", "join"} => q.actor \in Users
    /\ q.pc \in {"membership", "claim", "join"} => invite[q.invite].for \in {None, q.actor}
    /\ q.pc = "join" => invite[q.invite].by = q.actor

\* Whom an invite let in is who claimed it, and whom it names.
LetIn(i, u) == Members!Made(i) /\ invite[i].by = u /\ invite[i].for \in {None, u}

InviteInv ==
    /\ \A r \in Requests : Asked(wsReq[r])
    /\ \A i \in Invites : \A u \in admitted[i] : LetIn(i, u)

\* Unless owners were counted while a role was about to be lowered, some owner is
\* nobody's target.
OwnerInv ==
    crossed \/ \E u \in Users : /\ role[u] = Members!Owner
                                /\ \A r \in Requests : Members!LowersRole(r) => wsReq[r].target # u

MemberInv == MemberTypes /\ InviteInv /\ OwnerInv

LEMMA IdleRequest == Members!Idle \in MemberRequest /\ Members!Idle.pc = "idle" /\ Members!Idle.op = "none"
                     /\ Members!Idle.to = 0
  BY DEF Members!Idle, MemberRequest, Members!Owner, Members!Links

LEMMA NoInviteRecord == Members!NoInvite \in InviteRecord
  BY DEF Members!NoInvite, InviteRecord, Members!Owner, Members!Links

LEMMA SentInvite ==
    ASSUME NEW kind \in Members!Kinds \cup {"none"}, NEW to \in 0..Members!Owner, NEW for \in Users \cup {None}
    PROVE  Members!Sent(kind, to, for) \in InviteRecord
<1>1. 1 \in Members!Links
  BY DEF Members!Links
<1>2. (kind = "email") \in BOOLEAN
  OBVIOUS
<1> QED
  BY <1>1, <1>2, NoInviteRecord DEF InviteRecord, Members!Sent

LEMMA MemberInit == ASSUME None \notin Users PROVE Members!Init => MemberInv
<1> SUFFICES ASSUME Members!Init PROVE MemberInv
  OBVIOUS
<1>1. \A r \in Requests : wsReq[r] = Members!Idle
  BY DEF Members!Init
<1>2. MemberTypes
  <2>1. ASSUME NEW i \in Invites PROVE invite[i] \in InviteRecord
    <3>1. Members!Roles \subseteq 0..Members!Owner /\ None \in Users \cup {None}
      BY DEF Members!Owner, Members!Roles
    <3>2. CASE invite[i] = Members!NoInvite
      BY <3>2, NoInviteRecord
    <3>3. CASE \E kind \in Members!Kinds, to \in Members!Roles, for \in Users \cup {None} :
                  invite[i] = Members!Sent(kind, to, for)
      BY <3>1, <3>3, SentInvite
    <3>4. invite[i] = Members!NoInvite \/ \E kind \in Members!Kinds, to \in Members!Roles, for \in Users \cup {None} :
                                             invite[i] = Members!Sent(kind, to, for)
      <4>1. invite[i] \in {Members!NoInvite} \cup {Members!Sent("link", to, None) : to \in Members!Roles}
                            \cup {Members!Sent(kind, to, u) : kind \in Members!Kinds \ {"link"}, to \in Members!Roles,
                                                              u \in Users \ Members!Members}
        BY DEF Members!Init
      <4>2. "link" \in Members!Kinds
        BY DEF Members!Kinds
      <4> QED
        BY <4>1, <4>2
    <3> QED
      BY <3>2, <3>3, <3>4
  <2>2. invite \in [Invites -> InviteRecord]
    BY <2>1 DEF Members!Init
  <2>3. creator \in Users \cup {None}
    BY DEF Members!Init, Members!Owners
  <2>4. /\ role \in [Users -> 0..Members!Owner] /\ live = TRUE /\ crossed = FALSE
        /\ wsReq = [r \in Requests |-> Members!Idle] /\ admitted = [i \in Invites |-> {}]
    BY DEF Members!Init
  <2>5. wsReq \in [Requests -> MemberRequest]
    BY <2>4, IdleRequest
  <2> QED
    BY <2>2, <2>3, <2>4, <2>5 DEF MemberTypes
<1>3. InviteInv
  BY <1>1, IdleRequest DEF InviteInv, Asked, Members!Init
<1>4. OwnerInv
  BY <1>1, IdleRequest DEF OwnerInv, Members!Init, Members!Owners, Members!LowersRole
<1> QED
  BY <1>2, <1>3, <1>4 DEF MemberInv

\* An invite that was made stays made, for whom it is, and claimed by who claimed it.
Keeps(i) == Members!Made(i) => /\ Members!Made(i)' /\ invite'[i].for = invite[i].for
                               /\ invite[i].by # None => invite'[i].by = invite[i].by

LEMMA InviteFrame ==
    ASSUME None \notin Users, MemberTypes, InviteInv,
           \A s \in Requests : wsReq'[s] = wsReq[s] \/ Asked(wsReq[s])',
           \A i \in Invites : Keeps(i),
           \A i \in Invites : \A u \in admitted'[i] : u \in admitted[i] \/ LetIn(i, u)'
    PROVE  InviteInv'
<1>1. ASSUME NEW s \in Requests PROVE Asked(wsReq[s])'
  <2>1. CASE wsReq'[s] = wsReq[s]
    <3>1. Asked(wsReq[s])
      BY DEF InviteInv
    <3>2. wsReq[s].invite \in Invites => Keeps(wsReq[s].invite)
      OBVIOUS
    <3>3. None # wsReq[s].actor \/ wsReq[s].actor \notin Users
      OBVIOUS
    <3> QED
      BY <2>1, <3>1, <3>2, <3>3 DEF Asked, Keeps
  <2> QED
    BY <2>1
<1>2. ASSUME NEW i \in Invites, NEW u \in admitted'[i] PROVE LetIn(i, u)'
  <2>1. CASE u \in admitted[i]
    <3>1. LetIn(i, u) /\ u # None /\ Keeps(i)
      BY <2>1 DEF InviteInv, MemberTypes
    <3> QED
      BY <3>1 DEF LetIn, Keeps
  <2> QED
    BY <1>2, <2>1
<1> QED
  BY <1>1, <1>2 DEF InviteInv

\* A step that lowers nobody but a target, and is about to lower nobody who is an owner.
LEMMA OwnerFrame ==
    ASSUME OwnerInv, NEW r, crossed => crossed',
           \A s \in Requests \ {r} : wsReq'[s] = wsReq[s],
           \A u \in Users : role[u] = Members!Owner =>
              \/ role'[u] = Members!Owner
              \/ r \in Requests /\ Members!LowersRole(r) /\ wsReq[r].target = u,
           \A u \in Users : r \in Requests /\ Members!LowersRole(r)' /\ wsReq'[r].target = u
                              => role[u] # Members!Owner
    PROVE  OwnerInv'
<1> SUFFICES ASSUME ~crossed'
             PROVE  \E u \in Users : /\ role'[u] = Members!Owner
                                     /\ \A s \in Requests : Members!LowersRole(s)' => wsReq'[s].target # u
  BY DEF OwnerInv
<1>1. PICK u \in Users : /\ role[u] = Members!Owner
                         /\ \A s \in Requests : Members!LowersRole(s) => wsReq[s].target # u
  BY DEF OwnerInv
<1>2. role'[u] = Members!Owner
  BY <1>1
<1>3. ASSUME NEW s \in Requests, Members!LowersRole(s)' PROVE wsReq'[s].target # u
  BY <1>1, <1>3 DEF Members!LowersRole
<1> QED
  BY <1>2, <1>3

LEMMA MembersCardinality == ASSUME NEW S PROVE Members!Cardinality(S) = Cardinality(S)
  BY DEF Members!Cardinality, Cardinality

\* A request goes on, with what it asked or found, and may write.
LEMMA MemberGoes ==
    ASSUME None \notin Users, MemberInv, NEW r \in Requests, NEW q \in MemberRequest,
           wsReq' = [wsReq EXCEPT ![r] = q], Asked(q)',
           invite' \in [Invites -> InviteRecord], \A i \in Invites : Keeps(i),
           admitted' \in [Invites -> SUBSET Users],
           \A i \in Invites : \A u \in admitted'[i] : u \in admitted[i] \/ LetIn(i, u)',
           role' \in [Users -> 0..Members!Owner], live' \in BOOLEAN, UNCHANGED <<creator, crossed>>,
           \A u \in Users : role[u] = Members!Owner =>
              role'[u] = Members!Owner \/ (Members!LowersRole(r) /\ wsReq[r].target = u),
           q.pc = "write" /\ q.to # Members!Owner => role[q.target] # Members!Owner
    PROVE  MemberInv'
<1> USE DEF MemberInv
<1>1. wsReq'[r] = q /\ \A s \in Requests \ {r} : wsReq'[s] = wsReq[s]
  BY DEF MemberTypes
<1>2. MemberTypes'
  BY DEF MemberTypes
<1>3. InviteInv'
  <2>1. \A s \in Requests : wsReq'[s] = wsReq[s] \/ Asked(wsReq[s])'
    BY <1>1
  <2> QED
    BY <2>1, InviteFrame
<1>4. OwnerInv'
  <2>1. \A u \in Users : Members!LowersRole(r)' /\ wsReq'[r].target = u => role[u] # Members!Owner
    BY <1>1 DEF Members!LowersRole
  <2> QED
    BY <1>1, <2>1, OwnerFrame
<1> QED
  BY <1>2, <1>3, <1>4

\* What it asked stands while it writes nothing.
LEMMA AskedStands ==
    ASSUME NEW q, UNCHANGED invite, Asked(q) PROVE Asked(q)'
  BY DEF Asked, Members!Made

\* A request goes on and writes nothing.
LEMMA MemberReads ==
    ASSUME None \notin Users, MemberInv, NEW r \in Requests, NEW q \in MemberRequest,
           wsReq' = [wsReq EXCEPT ![r] = q], Asked(q),
           UNCHANGED <<role, live, creator, invite, crossed, admitted>>,
           q.pc = "write" /\ q.to # Members!Owner => role[q.target] # Members!Owner
    PROVE  MemberInv'
<1>1. Asked(q)'
  BY AskedStands
<1>2. \A i \in Invites : Keeps(i)
  BY DEF Keeps, Members!Made
<1> QED
  BY <1>1, <1>2, MemberGoes DEF MemberInv, MemberTypes

\* A request is over, and wrote nothing, or no invite.
LEMMA MemberOver ==
    ASSUME None \notin Users, MemberInv, NEW r \in Requests, Members!Over(r),
           invite' \in [Invites -> InviteRecord], \A i \in Invites : Keeps(i),
           admitted' \in [Invites -> SUBSET Users],
           \A i \in Invites : \A u \in admitted'[i] : u \in admitted[i] \/ LetIn(i, u)',
           role' \in [Users -> 0..Members!Owner], live' \in BOOLEAN, UNCHANGED <<creator, crossed>>,
           \A u \in Users : role[u] = Members!Owner =>
              role'[u] = Members!Owner \/ (Members!LowersRole(r) /\ wsReq[r].target = u)
    PROVE  MemberInv'
<1> DEFINE q == [Members!Idle EXCEPT !.pc = "over"]
<1>1. q \in MemberRequest /\ q.pc = "over" /\ q.op = "none"
  BY IdleRequest DEF MemberRequest
<1>2. wsReq' = [wsReq EXCEPT ![r] = q]
  BY DEF Members!Over
<1> HIDE DEF q
<1>3. Asked(q)'
  BY <1>1 DEF Asked
<1> QED
  BY <1>1, <1>2, <1>3, MemberGoes

LEMMA MemberStops ==
    ASSUME None \notin Users, MemberInv, NEW r \in Requests, Members!Over(r),
           UNCHANGED <<role, live, creator, invite, crossed, admitted>>
    PROVE  MemberInv'
<1>1. \A i \in Invites : Keeps(i)
  BY DEF Keeps, Members!Made
<1> QED
  BY <1>1, MemberOver DEF MemberInv, MemberTypes

\* A request goes on to another step.
LEMMA MemberGoto ==
    ASSUME MemberInv, NEW r \in Requests, NEW pc, Members!Goto(r, pc),
           pc \in {"count", "write", "release", "insert", "membership", "claim", "join"}
    PROVE  \E q \in MemberRequest :
              /\ wsReq' = [wsReq EXCEPT ![r] = q]
              /\ q = [wsReq[r] EXCEPT !.pc = pc]
              /\ q.pc = pc /\ q.op = wsReq[r].op /\ q.to = wsReq[r].to /\ q.target = wsReq[r].target
              /\ q.invite = wsReq[r].invite /\ q.actor = wsReq[r].actor /\ q.link = wsReq[r].link
<1>1. wsReq \in [Requests -> MemberRequest] /\ wsReq[r] \in MemberRequest
  BY DEF MemberInv, MemberTypes
<1> DEFINE q == [wsReq[r] EXCEPT !.pc = pc]
<1>2. /\ q \in MemberRequest /\ q.pc = pc /\ q.op = wsReq[r].op /\ q.to = wsReq[r].to
      /\ q.target = wsReq[r].target
      /\ q.invite = wsReq[r].invite /\ q.actor = wsReq[r].actor /\ q.link = wsReq[r].link
  <2>1. q \in MemberRequest
    BY <1>1 DEF MemberRequest
  <2>2. q.pc = pc
    BY <1>1 DEF MemberRequest
  <2>3. q.op = wsReq[r].op /\ q.to = wsReq[r].to /\ q.target = wsReq[r].target
    OBVIOUS
  <2>4. q.invite = wsReq[r].invite /\ q.actor = wsReq[r].actor /\ q.link = wsReq[r].link
    OBVIOUS
  <2> QED
    BY <2>1, <2>2, <2>3, <2>4
<1>3. wsReq' = [wsReq EXCEPT ![r] = q]
  BY <1>1 DEF Members!Goto
<1> QED
  BY <1>2, <1>3

\* A request that asked for nothing of an invite may go on to the steps that need none.
LEMMA MemberGoesOn ==
    ASSUME None \notin Users, MemberInv, NEW r \in Requests,
           NEW pc \in {"count", "write", "release", "insert", "membership", "claim"}, Members!Goto(r, pc),
           pc \in {"membership", "claim"} =>
             /\ wsReq[r].pc \in {"workspace", "membership"}
             /\ invite[wsReq[r].invite].for \in {None, wsReq[r].actor},
           UNCHANGED <<role, live, creator, invite, crossed, admitted>>,
           pc = "write" /\ wsReq[r].to # Members!Owner => role[wsReq[r].target] # Members!Owner
    PROVE  MemberInv'
<1>1. PICK q \in MemberRequest :
              /\ wsReq' = [wsReq EXCEPT ![r] = q]
              /\ q.pc = pc /\ q.op = wsReq[r].op /\ q.to = wsReq[r].to /\ q.target = wsReq[r].target
              /\ q.invite = wsReq[r].invite /\ q.actor = wsReq[r].actor
  BY MemberGoto
<1>2. Asked(wsReq[r])
  BY DEF MemberInv, InviteInv
<1>3. Asked(q)
  BY <1>1, <1>2 DEF Asked
<1> QED
  BY <1>1, <1>3, MemberReads

\* The owners are counted: while no other request is about to lower a role, one
\* of them is not the target.
LEMMA MemberCounts ==
    ASSUME None \notin Users, MemberInv, NEW r \in Requests, Members!KeepAnOwner(r) PROVE MemberInv'
<1>1. /\ UNCHANGED <<role, live, creator, invite, admitted>> /\ wsReq[r].pc = "count"
      /\ crossed' = (crossed \/ \E x \in Requests : Members!LowersRole(x))
  BY DEF Members!KeepAnOwner
<1>2. wsReq \in [Requests -> MemberRequest] /\ Asked(wsReq[r]) /\ crossed \in BOOLEAN /\ crossed' \in BOOLEAN
  BY <1>1 DEF MemberInv, MemberTypes, InviteInv
<1>3. PICK q \in MemberRequest : wsReq' = [wsReq EXCEPT ![r] = q] /\ Asked(q)
                                 /\ (q.pc # "over" => Members!Cardinality(Members!Owners) > 1 /\ q.target = wsReq[r].target)
  <2>1. CASE Members!Over(r)
    <3> DEFINE q == [Members!Idle EXCEPT !.pc = "over"]
    <3>1. q \in MemberRequest /\ q.pc = "over" /\ q.op = "none" /\ wsReq' = [wsReq EXCEPT ![r] = q]
      BY <2>1, IdleRequest DEF MemberRequest, Members!Over
    <3> HIDE DEF q
    <3>2. Asked(q)
      BY <3>1 DEF Asked
    <3> QED
      BY <3>1, <3>2
  <2>2. CASE Members!Goto(r, "write") /\ Members!Cardinality(Members!Owners) > 1
    <3>1. PICK q \in MemberRequest :
              /\ wsReq' = [wsReq EXCEPT ![r] = q]
              /\ q.pc = "write" /\ q.op = wsReq[r].op /\ q.to = wsReq[r].to /\ q.target = wsReq[r].target
      BY <2>2, MemberGoto
    <3>2. Asked(q)
      BY <1>2, <3>1 DEF Asked
    <3> QED
      BY <2>2, <3>1, <3>2
  <2> QED
    BY <2>1, <2>2 DEF Members!KeepAnOwner
<1>4. wsReq'[r] = q /\ \A s \in Requests \ {r} : wsReq'[s] = wsReq[s]
  BY <1>2, <1>3
<1>5. MemberTypes'
  BY <1>1, <1>2, <1>3 DEF MemberInv, MemberTypes
<1>6. InviteInv'
  <2>1. Asked(q)'
    BY <1>1, <1>3, AskedStands
  <2>2. \A i \in Invites : Keeps(i)
    BY <1>1 DEF Keeps, Members!Made
  <2>3. \A s \in Requests : wsReq'[s] = wsReq[s] \/ Asked(wsReq[s])'
    BY <1>4, <2>1
  <2> QED
    BY <1>1, <2>2, <2>3, InviteFrame DEF MemberInv
<1>7. OwnerInv'
  <2>1. CASE crossed'
    BY <2>1 DEF OwnerInv
  <2>2. CASE ~crossed' /\ q.pc = "over"
    <3>1. ~Members!LowersRole(r)'
      BY <1>4, <2>2 DEF Members!LowersRole
    <3> QED
      BY <1>1, <1>2, <1>4, <3>1, OwnerFrame DEF MemberInv
  <2>3. CASE ~crossed' /\ q.pc # "over"
    <3>1. \A s \in Requests : ~Members!LowersRole(s)
      BY <1>1, <2>3
    <3>2. PICK u \in Members!Owners : u # q.target
      <4>1. CASE Members!Owners \subseteq {q.target}
        <5>1. Cardinality(Members!Owners) <= 1
          <6>1. CASE Members!Owners = {}
            BY <6>1, FS_EmptySet
          <6>2. CASE Members!Owners = {q.target}
            BY <6>2, FS_Singleton
          <6> QED
            BY <4>1, <6>1, <6>2
        <5>2. Cardinality(Members!Owners) > 1
          BY <1>3, <2>3, MembersCardinality
        <5>3. Cardinality(Members!Owners) \in Nat
          <6>1. IsFiniteSet({q.target})
            BY FS_Singleton
          <6>2. IsFiniteSet(Members!Owners)
            BY <4>1, <6>1, FS_Subset
          <6> QED
            BY <6>2, FS_CardinalityType
        <5> QED
          BY <5>1, <5>2, <5>3
      <4> QED
        BY <4>1
    <3>3. u \in Users /\ role'[u] = Members!Owner
      BY <1>1, <3>2 DEF Members!Owners
    <3>4. \A s \in Requests : Members!LowersRole(s)' => wsReq'[s].target # u
      BY <1>4, <3>1, <3>2 DEF Members!LowersRole
    <3> QED
      BY <3>3, <3>4 DEF OwnerInv
  <2> QED
    BY <2>1, <2>2, <2>3
<1> QED
  BY <1>5, <1>6, <1>7 DEF MemberInv

LEMMA ActorFields ==
    ASSUME NEW a, NEW pc, NEW op
    PROVE  /\ Members!Actor(a, pc, op).pc = pc /\ Members!Actor(a, pc, op).op = op
           /\ Members!Actor(a, pc, op).to = 0
  BY DEF Members!Actor, Members!Idle

LEMMA ActorRequest ==
    ASSUME MemberInv, NEW a \in Users,
           NEW pc \in {"find", "delete", "invitee", "insert", "find invite", "revoke"},
           NEW op \in {"set", "remove", "delete", "invite", "resend", "revoke"}
    PROVE  Members!Actor(a, pc, op) \in MemberRequest
<1>1. role[a] \in 0..Members!Owner
  BY DEF MemberInv, MemberTypes
<1> QED
  BY <1>1, IdleRequest DEF Members!Actor, MemberRequest

LEMMA MemberStep ==
    ASSUME None \notin Users, MemberInv, [Members!Next]_Members!vars PROVE MemberInv'
<1>1. /\ \A r \in Requests : wsReq[r] \in MemberRequest /\ Asked(wsReq[r])
      /\ \A i \in Invites : invite[i] \in InviteRecord
      /\ role \in [Users -> 0..Members!Owner] /\ invite \in [Invites -> InviteRecord]
      /\ admitted \in [Invites -> SUBSET Users] /\ live \in BOOLEAN
      /\ wsReq \in [Requests -> MemberRequest] /\ OwnerInv
  BY DEF MemberInv, MemberTypes, InviteInv
\* Requests begin.
<1>2. ASSUME NEW r \in Requests, NEW q \in MemberRequest, wsReq' = [wsReq EXCEPT ![r] = q],
             UNCHANGED <<role, live, creator, invite, crossed, admitted>>,
             q.op = "remove" => q.to = 0,
             \/ q.pc \in {"find", "delete", "invitee", "insert"}
             \/ q.pc \in {"find invite", "revoke"} /\ q.invite \in Invites
             \/ q.pc = "workspace" /\ q.invite \in Invites /\ q.actor \in Users /\ Members!Made(q.invite)
      PROVE  MemberInv'
  <2>1. Asked(q)
    BY <1>2 DEF Asked
  <2> QED
    BY <1>2, <2>1, MemberReads
<1>4. ASSUME NEW r \in Requests, NEW a \in Users, NEW t \in Users, NEW to \in Members!Roles,
             Members!AskRole(r, a, t, to)
      PROVE  MemberInv'
  <2> PICK q : q = [Members!Actor(a, "find", "set") EXCEPT !.target = t, !.to = to]
    OBVIOUS
  <2>0. to \in 0..Members!Owner
    BY DEF Members!Roles, Members!Owner
  <2>1. Members!Actor(a, "find", "set") \in MemberRequest
    BY ActorRequest
  <2>2. Members!Actor(a, "find", "set").pc = "find" /\ Members!Actor(a, "find", "set").op = "set"
    BY ActorFields
  <2>3. q \in MemberRequest /\ q.pc = "find" /\ q.op = "set"
    BY <2>0, <2>1, <2>2 DEF MemberRequest
  <2> QED
    BY <1>2, <1>4, <2>3 DEF Members!AskRole, Members!Begin
<1>5. ASSUME NEW r \in Requests, NEW a \in Users, NEW t \in Users, Members!AskRemoval(r, a, t)
      PROVE  MemberInv'
  <2> PICK q : q = [Members!Actor(a, "find", "remove") EXCEPT !.target = t]
    OBVIOUS
  <2>1. Members!Actor(a, "find", "remove") \in MemberRequest
    BY ActorRequest
  <2>2. Members!Actor(a, "find", "remove").pc = "find" /\ Members!Actor(a, "find", "remove").to = 0
    BY ActorFields
  <2>3. q \in MemberRequest /\ q.pc = "find" /\ q.to = 0
    BY <2>1, <2>2 DEF MemberRequest
  <2> QED
    BY <1>2, <1>5, <2>3 DEF Members!AskRemoval, Members!Begin
<1>6. ASSUME NEW r \in Requests, NEW a \in Users, Members!AskDelete(r, a) PROVE MemberInv'
  <2>1. wsReq' = [wsReq EXCEPT ![r] = Members!Actor(a, "delete", "delete")]
        /\ UNCHANGED <<role, live, creator, invite, crossed, admitted>>
    BY <1>6 DEF Members!AskDelete, Members!Begin
  <2>2. Members!Actor(a, "delete", "delete") \in MemberRequest
    BY ActorRequest
  <2>3. Members!Actor(a, "delete", "delete").pc = "delete" /\ Members!Actor(a, "delete", "delete").op = "delete"
    BY ActorFields
  <2> QED
    BY <1>2, <2>1, <2>2, <2>3
<1>7. ASSUME NEW r \in Requests, NEW a \in Users, NEW kind \in Members!Kinds, NEW to \in Members!Roles,
             NEW for \in Users \cup {None}, Members!AskInvite(r, a, kind, to, for)
      PROVE  MemberInv'
  <2> PICK pc \in {"invitee", "insert"} : pc = IF kind = "email" THEN "invitee" ELSE "insert"
    OBVIOUS
  <2> PICK q : q = [Members!Actor(a, pc, "invite") EXCEPT !.kind = kind, !.to = to, !.target = for]
    OBVIOUS
  <2>0. to \in 0..Members!Owner
    BY DEF Members!Roles, Members!Owner
  <2>1. Members!Actor(a, pc, "invite") \in MemberRequest
    BY ActorRequest
  <2>2. Members!Actor(a, pc, "invite").pc = pc /\ Members!Actor(a, pc, "invite").op = "invite"
    BY ActorFields
  <2>4. q \in MemberRequest /\ q.pc = pc /\ q.op = "invite"
    <3>1. PICK k \in MemberRequest : k = Members!Actor(a, pc, "invite")
      BY <2>1
    <3>2. q = [k EXCEPT !.kind = kind, !.to = to, !.target = for] /\ k.pc = pc /\ k.op = "invite"
      BY <2>2, <3>1
    <3>3. q \in MemberRequest
      BY <2>0, <3>2 DEF MemberRequest
    <3> QED
      BY <3>2, <3>3 DEF MemberRequest
  <2>3. wsReq' = [wsReq EXCEPT ![r] = q] /\ UNCHANGED <<role, live, creator, invite, crossed, admitted>>
    BY <1>7 DEF Members!AskInvite, Members!Begin
  <2> QED
    BY <1>2, <2>3, <2>4
<1>8. ASSUME NEW r \in Requests, NEW a \in Users, NEW i \in Invites,
             Members!AskResend(r, a, i) \/ Members!AskRevoke(r, a, i)
      PROVE  MemberInv'
  <2>0. PICK op \in {"resend", "revoke"}, pc \in {"find invite", "revoke"} :
             /\ wsReq' = [wsReq EXCEPT ![r] = [Members!Actor(a, pc, op) EXCEPT !.invite = i]]
             /\ UNCHANGED <<role, live, creator, invite, crossed, admitted>>
    BY <1>8 DEF Members!AskResend, Members!AskRevoke, Members!Begin
  <2>4. PICK q : q = [Members!Actor(a, pc, op) EXCEPT !.invite = i]
    OBVIOUS
  <2>1. Members!Actor(a, pc, op) \in MemberRequest
    BY ActorRequest
  <2>2. Members!Actor(a, pc, op).pc = pc /\ Members!Actor(a, pc, op).op = op
    BY DEF Members!Actor, Members!Idle
  <2>3. q \in MemberRequest /\ q.pc = pc /\ q.op = op /\ q.invite = i
    BY <2>1, <2>2, <2>4 DEF MemberRequest
  <2> QED
    BY <1>2, <2>0, <2>3, <2>4
<1>9. ASSUME NEW r \in Requests, NEW a \in Users, NEW i \in Invites, NEW link \in Members!Links,
             Members!AskAccept(r, a, i, link)
      PROVE  MemberInv'
  <2> PICK q : q = [Members!Idle EXCEPT !.pc = "workspace", !.op = "accept", !.actor = a, !.invite = i, !.link = link]
    OBVIOUS
  <2>1. q \in MemberRequest /\ q.pc = "workspace" /\ q.op = "accept" /\ q.invite = i /\ q.actor = a
    BY IdleRequest DEF MemberRequest
  <2>2. Members!Made(i)
    BY <1>9 DEF Members!AskAccept, Members!Open
  <2> QED
    BY <1>2, <1>9, <2>1, <2>2 DEF Members!AskAccept, Members!Begin
\* Requests read.
<1>10. ASSUME NEW r \in Requests, Members!FindTarget(r) PROVE MemberInv'
  <2>1. UNCHANGED <<role, live, creator, invite, crossed, admitted>>
    BY <1>10 DEF Members!FindTarget
  <2>2. CASE Members!Over(r)
    BY <2>1, <2>2, MemberStops
  <2>3. CASE Members!Goto(r, "count")
    BY <2>1, <2>3, MemberGoesOn
  <2>4. CASE Members!Goto(r, "write")
             /\ ~(role[wsReq[r].target] = Members!Owner /\ wsReq[r].to # Members!Owner)
    BY <2>1, <2>4, MemberGoesOn
  <2> QED
    BY <1>10, <2>2, <2>3, <2>4 DEF Members!FindTarget
<1>11. ASSUME NEW r \in Requests, Members!CheckInvitee(r) PROVE MemberInv'
  <2>1. UNCHANGED <<role, live, creator, invite, crossed, admitted>>
    BY <1>11 DEF Members!CheckInvitee
  <2>2. CASE Members!Over(r)
    BY <2>1, <2>2, MemberStops
  <2>3. CASE Members!Goto(r, "release")
    BY <2>1, <2>3, MemberGoesOn
  <2> QED
    BY <1>11, <2>2, <2>3 DEF Members!CheckInvitee
<1>12. ASSUME NEW r \in Requests, Members!FindInvite(r) PROVE MemberInv'
  <2> DEFINE i == wsReq[r].invite
  <2>1. UNCHANGED <<role, live, creator, invite, crossed, admitted>> /\ i \in Invites
    BY <1>1, <1>12 DEF Members!FindInvite, Asked
  <2>2. CASE Members!Over(r)
    BY <2>1, <2>2, MemberStops
  <2>3. CASE /\ Members!Made(i) /\ invite[i].link + 1 \in Members!Links
             /\ wsReq' = [wsReq EXCEPT ![r].pc = "resend", ![r].link = invite[i].link]
    <3> PICK q : q = [wsReq[r] EXCEPT !.pc = "resend", !.link = invite[i].link]
      OBVIOUS
    <3>1. invite[i].link \in Members!Links /\ wsReq[r] \in MemberRequest /\ Asked(wsReq[r])
      BY <1>1, <2>1 DEF InviteRecord
    <3>2. /\ q \in MemberRequest /\ q.pc = "resend" /\ q.op = wsReq[r].op /\ q.to = wsReq[r].to
          /\ q.invite = i /\ q.link = invite[i].link
      BY <3>1 DEF MemberRequest
    <3>3. wsReq' = [wsReq EXCEPT ![r] = q]
      BY <1>1, <2>3
    <3> HIDE DEF i
    <3>4. Asked(q)
      BY <2>1, <2>3, <3>1, <3>2 DEF Asked
    <3> QED
      BY <2>1, <3>2, <3>3, <3>4, MemberReads
  <2>4. Members!Over(r)
        \/ /\ Members!Made(i) /\ invite[i].link + 1 \in Members!Links
           /\ wsReq' = [wsReq EXCEPT ![r].pc = "resend", ![r].link = invite[i].link]
    BY <1>12 DEF Members!FindInvite, Members!Over, Members!Open
  <2> QED
    BY <2>2, <2>3, <2>4
<1>13. ASSUME NEW r \in Requests, Members!FindWorkspace(r) PROVE MemberInv'
  <2>1. UNCHANGED <<role, live, creator, invite, crossed, admitted>> /\ wsReq[r].pc = "workspace"
    BY <1>13 DEF Members!FindWorkspace
  <2>2. CASE Members!Over(r)
    BY <2>1, <2>2, MemberStops
  <2>3. CASE Members!Goto(r, "membership") /\ invite[wsReq[r].invite].for \in {None, wsReq[r].actor}
    BY <2>1, <2>3, MemberGoesOn
  <2> QED
    BY <1>13, <2>2, <2>3 DEF Members!FindWorkspace
<1>14. ASSUME NEW r \in Requests, Members!FindMembership(r) PROVE MemberInv'
  <2>1. UNCHANGED <<role, live, creator, invite, crossed, admitted>> /\ wsReq[r].pc = "membership"
    BY <1>14 DEF Members!FindMembership
  <2>2. CASE Members!Over(r)
    BY <2>1, <2>2, MemberStops
  <2>3. invite[wsReq[r].invite].for \in {None, wsReq[r].actor}
    BY <1>1, <2>1 DEF Asked
  <2>4. CASE Members!Goto(r, "claim")
    BY <2>1, <2>3, <2>4, MemberGoesOn
  <2> QED
    BY <1>14, <2>2, <2>4 DEF Members!FindMembership
<1>15. ASSUME NEW r \in Requests, Members!Stop(r) PROVE MemberInv'
  BY <1>15, MemberStops DEF Members!Stop
\* Roles are written, and the workspace.
<1>16. ASSUME NEW r \in Requests, Members!Over(r), UNCHANGED <<creator, invite, crossed, admitted>>,
             role' \in [Users -> 0..Members!Owner], live' \in BOOLEAN,
             \A u \in Users : role[u] = Members!Owner =>
                role'[u] = Members!Owner \/ (Members!LowersRole(r) /\ wsReq[r].target = u)
      PROVE  MemberInv'
  <2>1. \A i \in Invites : Keeps(i)
    BY <1>16 DEF Keeps, Members!Made
  <2> QED
    BY <1>1, <1>16, <2>1, MemberOver
<1>17. ASSUME NEW r \in Requests, Members!SetRole(r) PROVE MemberInv'
  <2>1. wsReq[r].to \in 0..Members!Owner /\ wsReq[r].pc = "write"
    BY <1>1, <1>17 DEF Members!SetRole, MemberRequest
  <2>2. /\ \A u \in Users : role'[u] = IF u = wsReq[r].target /\ role[u] # 0 THEN wsReq[r].to ELSE role[u]
        /\ role' \in [Users -> 0..Members!Owner]
    BY <1>1, <1>17, <2>1 DEF Members!SetRole
  <2>3. \A u \in Users : role[u] = Members!Owner =>
          role'[u] = Members!Owner \/ (Members!LowersRole(r) /\ wsReq[r].target = u)
    <3>1. ASSUME NEW u \in Users, role[u] = Members!Owner, role'[u] # Members!Owner
          PROVE  Members!LowersRole(r) /\ wsReq[r].target = u
      <4>1. u = wsReq[r].target /\ wsReq[r].to # Members!Owner
        BY <2>2, <3>1
      <4> QED
        BY <2>1, <4>1 DEF Members!LowersRole
    <3> QED
      BY <3>1
  <2> QED
    BY <1>1, <1>16, <1>17, <2>2, <2>3 DEF Members!SetRole
<1>18. ASSUME NEW r \in Requests, Members!Remove(r) PROVE MemberInv'
  <2>1. \A u \in Users : role'[u] = IF u = wsReq[r].target THEN 0 ELSE role[u]
    BY <1>1, <1>18 DEF Members!Remove
  <2>2. 0 \in 0..Members!Owner
    BY DEF Members!Owner
  <2>3. role' \in [Users -> 0..Members!Owner]
    BY <1>1, <1>18, <2>2 DEF Members!Remove
  <2>4. Members!LowersRole(r)
    <3>1. wsReq[r].to = 0 /\ wsReq[r].pc = "write"
      BY <1>1, <1>18 DEF Members!Remove, Asked
    <3> QED
      BY <3>1 DEF Members!LowersRole, Members!Owner
  <2>5. \A u \in Users : role[u] = Members!Owner =>
          role'[u] = Members!Owner \/ (Members!LowersRole(r) /\ wsReq[r].target = u)
    BY <2>1, <2>4
  <2> QED
    BY <1>1, <1>16, <1>18, <2>3, <2>5 DEF Members!Remove
<1>19. ASSUME NEW r \in Requests, Members!Delete(r) PROVE MemberInv'
  BY <1>1, <1>16, <1>19 DEF Members!Delete
\* Invites are written.
<1>20. ASSUME NEW i, NEW v \in InviteRecord, invite' = [invite EXCEPT ![i] = v],
              (i \in Invites /\ Members!Made(i)) => v.kind # "none" /\ v.for = invite[i].for,
              (i \in Invites /\ Members!Made(i) /\ invite[i].by # None) => v.by = invite[i].by
       PROVE  invite' \in [Invites -> InviteRecord] /\ \A j \in Invites : Keeps(j)
  <2>1. invite' \in [Invites -> InviteRecord]
    BY <1>1, <1>20
  <2>2. ASSUME NEW j \in Invites PROVE Keeps(j)
    <3>1. CASE j = i
      <4>1. i \in Invites /\ invite'[i] = v
        BY <1>1, <1>20, <3>1
      <4> QED
        BY <1>20, <3>1, <4>1 DEF Keeps, Members!Made
    <3>2. CASE j # i
      BY <1>1, <1>20, <3>2 DEF Keeps, Members!Made
    <3> QED
      BY <3>1, <3>2
  <2> QED
    BY <2>1, <2>2
<1>21. ASSUME NEW r \in Requests, Members!Over(r), UNCHANGED <<role, live, creator, crossed, admitted>>,
              invite' \in [Invites -> InviteRecord], \A i \in Invites : Keeps(i)
       PROVE  MemberInv'
  BY <1>1, <1>21, MemberOver
<1>22. ASSUME NEW r \in Requests, Members!ReleaseExpired(r) PROVE MemberInv'
  <2>1. \A j \in Invites : invite'[j] = IF invite[j].expired THEN [invite[j] EXCEPT !.pending = FALSE] ELSE invite[j]
    BY <1>22 DEF Members!ReleaseExpired
  <2>2. \A j \in Invites : /\ invite'[j] \in InviteRecord /\ invite'[j].kind = invite[j].kind
                           /\ invite'[j].for = invite[j].for /\ invite'[j].by = invite[j].by
    <3> SUFFICES ASSUME NEW j \in Invites
                 PROVE  /\ invite'[j] \in InviteRecord /\ invite'[j].kind = invite[j].kind
                        /\ invite'[j].for = invite[j].for /\ invite'[j].by = invite[j].by
      OBVIOUS
    <3>1. invite[j] \in InviteRecord
      BY <1>1
    <3>2. CASE invite'[j] = invite[j]
      BY <3>1, <3>2
    <3>3. CASE invite'[j] = [invite[j] EXCEPT !.pending = FALSE]
      BY <3>1, <3>3 DEF InviteRecord
    <3> QED
      BY <2>1, <3>2, <3>3
  <2>3. invite' \in [Invites -> InviteRecord]
    BY <1>22, <2>2 DEF Members!ReleaseExpired
  <2>4. \A j \in Invites : Keeps(j)
    BY <2>2 DEF Keeps, Members!Made
  <2>5. PICK q \in MemberRequest :
              /\ wsReq' = [wsReq EXCEPT ![r] = q]
              /\ q.pc = "insert" /\ q.op = wsReq[r].op /\ q.to = wsReq[r].to
    BY <1>22, MemberGoto DEF Members!ReleaseExpired
  <2>6. Asked(q)'
    BY <1>1, <2>5 DEF Asked
  <2> QED
    BY <1>1, <1>22, <2>3, <2>4, <2>5, <2>6, MemberGoes DEF Members!ReleaseExpired
<1>23. ASSUME NEW r \in Requests, NEW i \in Invites, Members!InsertInvite(r, i) PROVE MemberInv'
  <2> PICK v : v = Members!Sent(wsReq[r].kind, wsReq[r].to, wsReq[r].target)
    OBVIOUS
  <2>1. /\ wsReq[r].kind \in Members!Kinds \cup {"none"} /\ wsReq[r].to \in 0..Members!Owner
        /\ wsReq[r].target \in Users \cup {None}
    BY <1>1 DEF MemberRequest
  <2>2. v \in InviteRecord
    BY <2>1, SentInvite
  <2>3. Members!Over(r) /\ UNCHANGED <<role, live, creator, crossed, admitted>> /\ ~Members!Made(i)
    BY <1>23 DEF Members!InsertInvite
  <2>4. CASE invite' = invite
    BY <2>3, <2>4, MemberStops
  <2>5. CASE invite' = [invite EXCEPT ![i] = v]
    BY <1>20, <1>21, <2>2, <2>3, <2>5
  <2> QED
    BY <1>23, <2>4, <2>5 DEF Members!InsertInvite
<1>24. ASSUME NEW r \in Requests, Members!RevokeInvite(r) PROVE MemberInv'
  <2> PICK i : i = wsReq[r].invite
    OBVIOUS
  <2>1. i \in Invites /\ invite[i] \in InviteRecord
    BY <1>1, <1>24 DEF Members!RevokeInvite, Asked
  <2> PICK v : v = [invite[i] EXCEPT !.revoked = TRUE, !.pending = FALSE]
    OBVIOUS
  <2>2. v \in InviteRecord /\ v.kind = invite[i].kind /\ v.for = invite[i].for /\ v.by = invite[i].by
    BY <2>1 DEF InviteRecord
  <2>3. Members!Over(r) /\ UNCHANGED <<role, live, creator, crossed, admitted>>
    BY <1>24 DEF Members!RevokeInvite
  <2>4. CASE invite' = invite
    BY <2>3, <2>4, MemberStops
  <2>5. CASE invite' = [invite EXCEPT ![i].revoked = TRUE, ![i].pending = FALSE]
    <3>1. invite' = [invite EXCEPT ![i] = v]
      BY <1>1, <2>1, <2>5
    <3> QED
      BY <1>20, <1>21, <2>2, <2>3, <3>1 DEF Members!Made
  <2> QED
    BY <1>24, <2>4, <2>5 DEF Members!RevokeInvite
<1>25. ASSUME NEW r \in Requests, Members!Resend(r) PROVE MemberInv'
  <2> PICK i : i = wsReq[r].invite
    OBVIOUS
  <2>1. i \in Invites /\ invite[i] \in InviteRecord /\ wsReq[r].link + 1 \in Members!Links
    BY <1>1, <1>25 DEF Members!Resend, Asked
  <2> PICK v : v = [invite[i] EXCEPT !.link = wsReq[r].link + 1, !.expired = FALSE]
    OBVIOUS
  <2>2. v \in InviteRecord /\ v.kind = invite[i].kind /\ v.for = invite[i].for /\ v.by = invite[i].by
    BY <2>1 DEF InviteRecord
  <2>3. Members!Over(r) /\ UNCHANGED <<role, live, creator, crossed, admitted>>
    BY <1>25 DEF Members!Resend
  <2>4. CASE invite' = invite
    BY <2>3, <2>4, MemberStops
  <2>5. CASE invite' = [invite EXCEPT ![i].link = wsReq[r].link + 1, ![i].expired = FALSE]
    <3>1. invite' = [invite EXCEPT ![i] = v]
      BY <1>1, <2>1, <2>5
    <3> QED
      BY <1>20, <1>21, <2>2, <2>3, <3>1 DEF Members!Made
  <2> QED
    BY <1>25, <2>4, <2>5 DEF Members!Resend
<1>26. ASSUME NEW r \in Requests, Members!ClaimInvite(r) PROVE MemberInv'
  <2> PICK i : i = wsReq[r].invite
    OBVIOUS
  <2>1. /\ i \in Invites /\ invite[i] \in InviteRecord /\ wsReq[r].pc = "claim"
        /\ wsReq[r].actor \in Users /\ Members!Made(i) /\ Asked(wsReq[r])
        /\ UNCHANGED <<role, live, creator, crossed, admitted>>
    BY <1>1, <1>26 DEF Members!ClaimInvite, Asked
  <2>2. CASE invite' = invite /\ Members!Over(r)
    BY <2>1, <2>2, MemberStops
  <2>3. CASE /\ Members!Open(i, wsReq[r].link) /\ Members!Goto(r, "join")
             /\ invite' = [invite EXCEPT ![i].by = wsReq[r].actor, ![i].pending = FALSE]
    <3> PICK v : v = [invite[i] EXCEPT !.by = wsReq[r].actor, !.pending = FALSE]
      OBVIOUS
    <3>1. v \in InviteRecord /\ v.kind = invite[i].kind /\ v.for = invite[i].for /\ v.by = wsReq[r].actor
      BY <2>1 DEF InviteRecord
    <3>2. invite' = [invite EXCEPT ![i] = v] /\ invite[i].by = None /\ v.kind # "none"
      BY <1>1, <2>1, <2>3, <3>1 DEF Members!Open, Members!Made
    <3>3. invite' \in [Invites -> InviteRecord] /\ \A j \in Invites : Keeps(j)
      BY <1>20, <3>1, <3>2
    <3>4. PICK q \in MemberRequest :
              /\ wsReq' = [wsReq EXCEPT ![r] = q]
              /\ q.pc = "join" /\ q.op = wsReq[r].op /\ q.to = wsReq[r].to
              /\ q.invite = i /\ q.actor = wsReq[r].actor
      BY <2>3, MemberGoto
    <3>5. invite'[i] = v
      BY <1>1, <2>1, <3>2
    <3>6. Asked(q)'
      BY <2>1, <3>1, <3>2, <3>4, <3>5 DEF Asked, Members!Made
    <3> QED
      BY <1>1, <2>1, <3>3, <3>4, <3>6, MemberGoes
  <2> QED
    BY <1>26, <2>2, <2>3 DEF Members!ClaimInvite
<1>27. ASSUME NEW r \in Requests, Members!Join(r) PROVE MemberInv'
  <2> PICK i \in Invites, u \in Users : i = wsReq[r].invite /\ u = wsReq[r].actor
    BY <1>1, <1>27 DEF Members!Join, Asked
  <2>1. LetIn(i, u) /\ wsReq[r].pc = "join" /\ invite[i].to \in 0..Members!Owner
    BY <1>1, <1>27 DEF Members!Join, Asked, LetIn, InviteRecord
  <2>2. /\ admitted' = [admitted EXCEPT ![i] = @ \cup {u}] /\ UNCHANGED <<live, creator, invite, crossed>>
        /\ Members!Over(r)
    BY <1>27 DEF Members!Join
  <2>3. role' = IF role[u] = 0 THEN [role EXCEPT ![u] = invite[i].to] ELSE role
    BY <1>27 DEF Members!Join
  <2>4. LetIn(i, u)'
    BY <2>1, <2>2 DEF LetIn, Members!Made
  <2>5. role' \in [Users -> 0..Members!Owner]
    BY <1>1, <2>1, <2>3
  <2>6. \A w \in Users : role[w] = Members!Owner => role'[w] = Members!Owner
    BY <1>1, <2>1, <2>3 DEF Members!Owner
  <2>7. admitted' \in [Invites -> SUBSET Users]
    BY <1>1, <2>1, <2>2
  <2>8. ASSUME NEW j \in Invites, NEW w \in admitted'[j] PROVE w \in admitted[j] \/ LetIn(j, w)'
    <3>1. w \in admitted[j] \/ (j = i /\ w = u)
      BY <1>1, <2>1, <2>2, <2>8
    <3> QED
      BY <2>4, <3>1
  <2>9. \A j \in Invites : Keeps(j)
    BY <2>2 DEF Keeps, Members!Made
  <2> QED
    BY <1>1, <2>2, <2>5, <2>6, <2>7, <2>8, <2>9, MemberOver
<1>28. ASSUME UNCHANGED <<role, live, creator, wsReq, crossed, admitted>>, invite' \in [Invites -> InviteRecord],
              \A j \in Invites : Keeps(j)
       PROVE  MemberInv'
  <2>1. InviteInv'
    BY <1>1, <1>28, InviteFrame DEF MemberInv
  <2>2. OwnerInv' /\ MemberTypes'
    BY <1>1, <1>28 DEF OwnerInv, MemberInv, MemberTypes, Members!LowersRole
  <2> QED
    BY <2>1, <2>2 DEF MemberInv
<1>29. ASSUME NEW i \in Invites, Members!Expire(i) PROVE MemberInv'
  <2> PICK v : v = [invite[i] EXCEPT !.expired = TRUE]
    OBVIOUS
  <2>1. v \in InviteRecord /\ v.kind = invite[i].kind /\ v.for = invite[i].for /\ v.by = invite[i].by
    BY <1>1 DEF InviteRecord
  <2>2. invite' = [invite EXCEPT ![i] = v] /\ UNCHANGED <<role, live, creator, wsReq, crossed, admitted>>
    BY <1>1, <1>29 DEF Members!Expire
  <2> QED
    BY <1>20, <1>28, <2>1, <2>2 DEF Members!Made
<1>30. CASE UNCHANGED Members!vars
  <2>1. UNCHANGED <<role, live, creator, invite, wsReq, crossed, admitted>>
    BY <1>30 DEF Members!vars
  <2> QED
    BY <1>1, <1>28, <2>1 DEF Keeps, Members!Made
<1>31. CASE Members!Next
  <2>1. CASE \E r \in Requests :
               Members!FindTarget(r) \/ Members!KeepAnOwner(r) \/ Members!SetRole(r) \/ Members!Remove(r)
               \/ Members!Delete(r) \/ Members!CheckInvitee(r) \/ Members!ReleaseExpired(r)
    BY <2>1, <1>10, <1>11, <1>17, <1>18, <1>19, <1>22, MemberCounts
  <2>2. CASE \E r \in Requests :
               Members!FindInvite(r) \/ Members!Resend(r) \/ Members!RevokeInvite(r) \/ Members!FindWorkspace(r)
               \/ Members!FindMembership(r) \/ Members!ClaimInvite(r) \/ Members!Join(r) \/ Members!Stop(r)
    BY <2>2, <1>12, <1>13, <1>14, <1>15, <1>24, <1>25, <1>26, <1>27
  <2>3. CASE \E r \in Requests : \E i \in Invites : Members!InsertInvite(r, i)
    BY <2>3, <1>23
  <2>4. CASE \E r \in Requests : \E a \in Users :
               \/ Members!AskDelete(r, a)
               \/ \E t \in Users : Members!AskRemoval(r, a, t)
               \/ \E t \in Users, to \in Members!Roles : Members!AskRole(r, a, t, to)
    BY <2>4, <1>4, <1>5, <1>6
  <2>5. CASE \E r \in Requests : \E a \in Users :
               \/ \E i \in Invites : Members!AskResend(r, a, i) \/ Members!AskRevoke(r, a, i)
               \/ \E kind \in Members!Kinds, to \in Members!Roles, for \in Users \cup {None} :
                     Members!AskInvite(r, a, kind, to, for)
               \/ \E i \in Invites, link \in Members!Links : Members!AskAccept(r, a, i, link)
    BY <2>5, <1>7, <1>8, <1>9
  <2>6. CASE \E i \in Invites : Members!Expire(i)
    BY <2>6, <1>29
  <2> QED
    BY <1>31, <2>1, <2>2, <2>3, <2>4, <2>5, <2>6 DEF Members!Next
<1> QED
  BY <1>30, <1>31
-----------------------------------------------------------------------------
(***************************************************************************)
(* Codes                                                                   *)
(***************************************************************************)

Challenge == [purpose : Codes!Purposes \cup {None}, real : BOOLEAN, code : Codes!Codes,
              attempts : 0..MaxAttempts, resends : 0..MaxResends, cooling : BOOLEAN, fresh : BOOLEAN]
CodeRequest == [pc : {"idle", "delete", "insert", "renew", "attempt", "consume", "verified", "password",
                      "drop", "sign out", "rehash", "session", "over"},
                ch : Challenges \cup {None}, code : Codes!Codes, purpose : Codes!Purposes,
                password : Codes!Passwords]

CodeTypes ==
    /\ ch \in [Challenges -> Challenge]
    /\ mailed \in Codes!Codes
    /\ user \in [password : Codes!Passwords, old : BOOLEAN, verified : BOOLEAN]
    /\ codeReq \in [Others -> CodeRequest]
    /\ tried \in [Challenges -> [Codes!Codes -> Nat]]
    /\ redeemed \in [Challenges -> SUBSET Others]
    /\ session \subseteq Others /\ late \subseteq Others /\ since \subseteq Codes!Passwords

\* The attempts a challenge counts are the guesses at its present code; earlier
\* codes had no more, later ones none. What let a request through is gone.
Counted(c) ==
    /\ ch[c].code <= mailed
    /\ \A k \in Codes!Codes \ {0} : /\ tried[c][k] <= MaxAttempts
                                    /\ k > mailed => tried[c][k] = 0
                                    /\ ch[c].code = k => tried[c][k] = ch[c].attempts
UsedUp(c) == redeemed[c] = {} \/ (~Codes!There(c) /\ \E r \in Others : redeemed[c] = {r})

Looks(q) == q.pc \in {"renew", "attempt", "consume"} => q.ch \in Challenges
SignedIn(r) == codeReq[r].pc = "over" /\ (codeReq[r].password \in since \/ r \in late)

CodeInv ==
    /\ CodeTypes
    /\ \A c \in Challenges : Counted(c) /\ UsedUp(c)
    /\ \A r \in Others : Looks(codeReq[r])
    /\ \A r \in session : SignedIn(r)

\* Nobody and nothing are told apart from a request and from a purpose.
CodeConstants ==
    /\ MaxAttempts \in Nat /\ MaxResends \in Nat /\ MaxCodes \in Nat \ {0}
    /\ None \notin Codes!Purposes

LEMMA CodesCardinality == ASSUME NEW S PROVE Codes!Cardinality(S) = Cardinality(S)
  BY DEF Codes!Cardinality, Cardinality

LEMMA NoChallengeType ==
    ASSUME CodeConstants
    PROVE  /\ Codes!NoChallenge \in Challenge /\ Codes!NoChallenge.purpose = None
           /\ Codes!NoChallenge.code = 0
           /\ Codes!Idle \in CodeRequest /\ Codes!Idle.pc = "idle"
  BY DEF CodeConstants, Codes!NoChallenge, Challenge, Codes!Codes, CodeRequest, Codes!Idle,
         Codes!Purposes, Codes!Passwords

LEMMA IssuedType ==
    ASSUME CodeConstants, NEW p \in Codes!Purposes, NEW k \in Codes!Codes
    PROVE  /\ Codes!Issued(p, k) \in Challenge
           /\ Codes!Issued(p, k).code = k /\ Codes!Issued(p, k).attempts = 0
  BY DEF CodeConstants, Codes!Issued, Challenge

LEMMA CodeInit == ASSUME CodeConstants PROVE Codes!Init => CodeInv
<1> SUFFICES ASSUME Codes!Init PROVE CodeInv
  OBVIOUS
<1>1. mailed \in Codes!Codes /\ 0 \in Codes!Codes /\ 1 \in Codes!Codes /\ Codes!Codes \subseteq Nat
  BY DEF Codes!Init, Codes!Codes, CodeConstants
<1>2. /\ \A c \in Challenges : /\ ch[c] \in Challenge /\ ch[c].code <= mailed
                               /\ ch[c].code # 0 => ch[c].attempts = 0
      /\ ch \in [Challenges -> Challenge]
  <2>1. CASE mailed = 0 /\ ch = [c \in Challenges |-> Codes!NoChallenge]
    BY <2>1, NoChallengeType
  <2>2. ASSUME NEW first \in Challenges, NEW p \in Codes!Purposes, mailed = 1,
               ch = [c \in Challenges |-> IF c = first THEN Codes!Issued(p, 1) ELSE Codes!NoChallenge]
        PROVE  /\ \A c \in Challenges : /\ ch[c] \in Challenge /\ ch[c].code <= mailed
                                        /\ ch[c].code # 0 => ch[c].attempts = 0
               /\ ch \in [Challenges -> Challenge]
    BY <1>1, <2>2, NoChallengeType, IssuedType
  <2> QED
    BY <2>1, <2>2 DEF Codes!Init
<1>3. /\ codeReq = [r \in Others |-> Codes!Idle] /\ session = {} /\ since = {None} /\ late = {}
      /\ tried = [c \in Challenges |-> [k \in Codes!Codes |-> 0]]
      /\ redeemed = [c \in Challenges |-> {}]
      /\ user \in [password : {None}, old : BOOLEAN, verified : BOOLEAN]
  BY DEF Codes!Init
<1>4. CodeTypes
  BY <1>1, <1>2, <1>3, NoChallengeType DEF CodeTypes, Codes!Passwords
<1>5. \A c \in Challenges : Counted(c) /\ UsedUp(c)
  BY <1>1, <1>2, <1>3 DEF Counted, UsedUp, CodeConstants
<1>6. \A r \in Others : Looks(codeReq[r])
  BY <1>3, NoChallengeType DEF Looks
<1> QED
  BY <1>3, <1>4, <1>5, <1>6 DEF CodeInv

\* A challenge that stays, or goes.
LEMMA ChallengeStays ==
    ASSUME CodeConstants, CodeInv, NEW c \in Challenges,
           ch'[c] = ch[c] \/ ch'[c] = Codes!NoChallenge
             \/ (ch'[c].code = ch[c].code /\ ch'[c].attempts = ch[c].attempts /\ Codes!There(c)),
           mailed' \in Codes!Codes, mailed <= mailed',
           tried'[c] = tried[c], redeemed'[c] = redeemed[c]
    PROVE  Counted(c)' /\ UsedUp(c)'
<1>1. Counted(c) /\ UsedUp(c) /\ mailed \in Nat /\ mailed' \in Nat /\ ch[c].code \in Nat
  BY DEF CodeInv, CodeTypes, Codes!Codes, Challenge, CodeConstants
<1>2. Counted(c)'
  <2>1. \/ ch'[c].code = ch[c].code /\ ch'[c].attempts = ch[c].attempts
        \/ ch'[c].code = 0
    BY NoChallengeType
  <2>2. ch[c].code <= mailed'
    BY <1>1 DEF Counted
  <2>3. ch'[c].code <= mailed'
    BY <1>1, <2>1, <2>2
  <2>4. ASSUME NEW k \in Codes!Codes \ {0}
        PROVE  /\ tried'[c][k] <= MaxAttempts /\ (k > mailed' => tried'[c][k] = 0)
               /\ ch'[c].code = k => tried'[c][k] = ch'[c].attempts
    <3>1. k \in Nat /\ k # 0 /\ (k > mailed' => k > mailed)
      BY <1>1 DEF Codes!Codes
    <3>2. /\ tried[c][k] <= MaxAttempts /\ (k > mailed => tried[c][k] = 0)
          /\ ch[c].code = k => tried[c][k] = ch[c].attempts
      BY <1>1 DEF Counted
    <3> QED
      BY <2>1, <3>1, <3>2
  <2> QED
    BY <2>3, <2>4 DEF Counted
<1>3. UsedUp(c)'
  BY <1>1, NoChallengeType DEF UsedUp, Codes!There
<1> QED
  BY <1>2, <1>3

\* One request goes on; challenges and sessions keep what the invariant asks of them.
LEMMA CodeStepOf ==
    ASSUME CodeInv, NEW r \in Others, NEW q \in CodeRequest, codeReq' = [codeReq EXCEPT ![r] = q],
           codeReq[r].pc # "over", Looks(q),
           ch' \in [Challenges -> Challenge], mailed' \in Codes!Codes,
           user' \in [password : Codes!Passwords, old : BOOLEAN, verified : BOOLEAN],
           tried' \in [Challenges -> [Codes!Codes -> Nat]],
           redeemed' \in [Challenges -> SUBSET Others],
           \A c \in Challenges : Counted(c)' /\ UsedUp(c)',
           session' \subseteq session \cup {r},
           r \in session' => q.pc = "over" /\ (q.password \in since' \/ r \in late'),
           since' \subseteq Codes!Passwords, since \subseteq since' \/ session' = {},
           late \subseteq late', late' \subseteq Others
    PROVE  CodeInv'
<1> USE DEF CodeInv
<1>1. codeReq'[r] = q /\ \A s \in Others \ {r} : codeReq'[s] = codeReq[s]
  BY DEF CodeTypes
<1>2. CodeTypes'
  BY DEF CodeTypes
<1>3. \A s \in Others : Looks(codeReq'[s])
  BY <1>1
<1>4. ASSUME NEW s \in session' PROVE SignedIn(s)'
  <2>1. CASE s = r
    BY <1>1, <1>4, <2>1 DEF SignedIn
  <2>2. CASE s # r
    <3>1. s \in session /\ s \in Others /\ SignedIn(s)
      BY <1>4, <2>2 DEF CodeTypes
    <3> QED
      BY <1>1, <1>4, <2>2, <3>1 DEF SignedIn
  <2> QED
    BY <2>1, <2>2
<1> QED
  BY <1>2, <1>3, <1>4 DEF Looks

LEMMA AttemptGoes ==
    ASSUME NEW r, Codes!TakeAttempt(r) PROVE \E pc \in {"consume", "over"} : Codes!Goto(r, pc)
<1>1. CASE Codes!Goto(r, IF ch[codeReq[r].ch].real /\ codeReq[r].code = ch[codeReq[r].ch].code THEN "consume" ELSE "over")
  BY <1>1
<1> QED
  BY <1>1, Zenon DEF Codes!TakeAttempt, Codes!Over

LEMMA ConsumeGoes ==
    ASSUME NEW r, Codes!Consume(r) PROVE \E pc \in {"verified", "password", "over"} : Codes!Goto(r, pc)
<1>1. CASE Codes!Goto(r, IF codeReq[r].purpose = "verify" THEN "verified" ELSE "password")
  BY <1>1
<1> QED
  BY <1>1, Zenon DEF Codes!Consume, Codes!Over, Codes!Redeemed

LEMMA CodeGoto ==
    ASSUME CodeInv, NEW r \in Others,
           NEW pc \in {"insert", "consume", "verified", "password", "drop", "sign out", "session", "over"},
           Codes!Goto(r, pc)
    PROVE  \E q \in CodeRequest : /\ codeReq' = [codeReq EXCEPT ![r] = q] /\ q.pc = pc
                                  /\ q.ch = codeReq[r].ch /\ q.password = codeReq[r].password
<1> DEFINE q == [codeReq[r] EXCEPT !.pc = pc]
<1>1. codeReq[r] \in CodeRequest
  BY DEF CodeInv, CodeTypes
<1>2. /\ q \in CodeRequest /\ q.pc = pc
      /\ q.ch = codeReq[r].ch /\ q.password = codeReq[r].password
  BY <1>1 DEF CodeRequest
<1>3. codeReq' = [codeReq EXCEPT ![r] = q]
  BY DEF Codes!Goto
<1> QED
  BY <1>2, <1>3

LEMMA CodeStep ==
    ASSUME CodeConstants, CodeInv, [Codes!Next]_Codes!vars PROVE CodeInv'
<1>1. /\ ch \in [Challenges -> Challenge] /\ mailed \in Codes!Codes /\ mailed \in Nat
      /\ user \in [password : Codes!Passwords, old : BOOLEAN, verified : BOOLEAN]
      /\ tried \in [Challenges -> [Codes!Codes -> Nat]]
      /\ redeemed \in [Challenges -> SUBSET Others]
      /\ session \subseteq Others /\ late \subseteq Others /\ since \subseteq Codes!Passwords
      /\ \A r \in Others : codeReq[r] \in CodeRequest /\ Looks(codeReq[r])
      /\ \A c \in Challenges : ch[c] \in Challenge /\ Counted(c) /\ UsedUp(c)
      /\ Codes!Codes \subseteq Nat /\ 0 \in Codes!Codes
  BY DEF CodeInv, CodeTypes, Codes!Codes, CodeConstants
<1>2. ASSUME NEW r \in Others, codeReq[r].pc # "over" PROVE r \notin session
  BY <1>2 DEF CodeInv, SignedIn
<1> DEFINE Typed == /\ ch' \in [Challenges -> Challenge] /\ mailed' \in Codes!Codes
                    /\ user' \in [password : Codes!Passwords, old : BOOLEAN, verified : BOOLEAN]
                    /\ tried' \in [Challenges -> [Codes!Codes -> Nat]]
                    /\ redeemed' \in [Challenges -> SUBSET Others]
\* A request that leaves every challenge, or clears it, and nobody signed in.
<1>3. ASSUME NEW r \in Others, NEW q \in CodeRequest, codeReq' = [codeReq EXCEPT ![r] = q],
             codeReq[r].pc # "over", Looks(q), Typed,
             UNCHANGED <<mailed, tried, redeemed, session, late>>, since \subseteq since',
             since' \subseteq Codes!Passwords,
             \A c \in Challenges : ch'[c] = ch[c] \/ ch'[c] = Codes!NoChallenge
      PROVE  CodeInv'
  <2>1. \A c \in Challenges : Counted(c)' /\ UsedUp(c)'
    BY <1>1, <1>3, ChallengeStays
  <2>2. r \notin session'
    BY <1>2, <1>3
  <2> QED
    BY <1>1, <1>3, <2>1, <2>2, CodeStepOf
\* A request that only asks.
<1>4. ASSUME NEW r \in Others, NEW q \in CodeRequest, codeReq' = [codeReq EXCEPT ![r] = q],
             codeReq[r].pc # "over", Looks(q), UNCHANGED <<ch, mailed, user, session, tried, redeemed, since, late>>
      PROVE  CodeInv'
  <2>1. Typed
    BY <1>1, <1>4
  <2> QED
    BY <1>1, <1>3, <1>4, <2>1
<1>5. ASSUME NEW r \in Others, NEW p \in Codes!Purposes, Codes!AskCode(r, p) PROVE CodeInv'
  <2> DEFINE q == [Codes!Idle EXCEPT !.pc = "delete", !.purpose = p]
  <2>1. q \in CodeRequest /\ q.pc = "delete"
    BY NoChallengeType DEF CodeRequest
  <2>2. codeReq' = [codeReq EXCEPT ![r] = q] /\ codeReq[r].pc = "idle"
        /\ UNCHANGED <<ch, mailed, user, session, tried, redeemed, since, late>>
    BY <1>5 DEF Codes!AskCode, Codes!history
  <2> HIDE DEF q
  <2> QED
    BY <1>4, <2>1, <2>2 DEF Looks
<1>6. ASSUME NEW r \in Others, NEW c \in Challenges, Codes!AskResend(r, c) PROVE CodeInv'
  <2> DEFINE q == [Codes!Idle EXCEPT !.pc = "renew", !.ch = c]
  <2>1. q \in CodeRequest /\ q.pc = "renew" /\ q.ch = c
    BY NoChallengeType DEF CodeRequest
  <2>2. codeReq' = [codeReq EXCEPT ![r] = q] /\ codeReq[r].pc = "idle"
        /\ UNCHANGED <<ch, mailed, user, session, tried, redeemed, since, late>>
    BY <1>6 DEF Codes!AskResend, Codes!history
  <2> HIDE DEF q
  <2> QED
    BY <1>4, <2>1, <2>2 DEF Looks
<1>7. ASSUME NEW r \in Others, NEW c \in Challenges, NEW k \in Codes!Codes, Codes!AskRedeem(r, c, k)
      PROVE  CodeInv'
  <2> DEFINE q == [Codes!Idle EXCEPT !.pc = "attempt", !.ch = c, !.code = k, !.purpose = ch[c].purpose]
  <2>1. ch[c].purpose \in Codes!Purposes
    BY <1>1, <1>7 DEF Codes!AskRedeem, Codes!There, Challenge
  <2>2. q \in CodeRequest /\ q.pc = "attempt" /\ q.ch = c
    BY <2>1, NoChallengeType DEF CodeRequest
  <2>3. codeReq' = [codeReq EXCEPT ![r] = q] /\ codeReq[r].pc = "idle"
        /\ UNCHANGED <<ch, mailed, user, session, tried, redeemed, since, late>>
    BY <1>7 DEF Codes!AskRedeem, Codes!history
  <2> HIDE DEF q
  <2> QED
    BY <1>4, <2>2, <2>3 DEF Looks
<1>8. ASSUME NEW r \in Others, Codes!Login(r) PROVE CodeInv'
  <2>1. PICK pc \in {"rehash", "session"} : pc = IF user.old THEN "rehash" ELSE "session"
    OBVIOUS
  <2> DEFINE q == [codeReq[r] EXCEPT !.pc = pc, !.password = user.password]
  <2>2. user.password \in Codes!Passwords /\ codeReq[r] \in CodeRequest
    BY <1>1
  <2>3. q \in CodeRequest /\ q.pc = pc
    BY <2>2 DEF CodeRequest
  <2>4. codeReq' = [codeReq EXCEPT ![r] = q] /\ codeReq[r].pc = "idle"
        /\ UNCHANGED <<ch, mailed, user, session, tried, redeemed, since, late>>
    BY <1>8, <2>1 DEF Codes!Login, Codes!history, CodeInv, CodeTypes
  <2> HIDE DEF q
  <2> QED
    BY <1>4, <2>3, <2>4 DEF Looks
<1>9. ASSUME NEW r \in Others, Codes!Stop(r) PROVE CodeInv'
  <2>1. PICK q \in CodeRequest : codeReq' = [codeReq EXCEPT ![r] = q] /\ q.pc = "over"
    BY <1>9, CodeGoto DEF Codes!Stop, Codes!Over
  <2> QED
    BY <1>4, <1>9, <2>1 DEF Looks, Codes!Stop, Codes!history
<1>10. ASSUME NEW r \in Others, Codes!DeleteEarlier(r) PROVE CodeInv'
  <2>1. PICK q \in CodeRequest : codeReq' = [codeReq EXCEPT ![r] = q] /\ q.pc = "insert"
    BY <1>10, CodeGoto DEF Codes!DeleteEarlier
  <2>2. \A c \in Challenges : ch'[c] = ch[c] \/ ch'[c] = Codes!NoChallenge
    BY <1>10 DEF Codes!DeleteEarlier
  <2>3. Typed
    BY <1>1, <1>10, <2>2, NoChallengeType DEF Codes!DeleteEarlier, Codes!history
  <2>4. /\ codeReq[r].pc # "over" /\ UNCHANGED <<mailed, tried, redeemed, session, late, since>>
    BY <1>10 DEF Codes!DeleteEarlier, Codes!history
  <2> HIDE DEF Typed
  <2> QED
    BY <1>1, <1>3, <2>1, <2>2, <2>3, <2>4 DEF Looks
\* A request that writes one challenge.
<1>11. ASSUME NEW r \in Others, NEW q \in CodeRequest, codeReq' = [codeReq EXCEPT ![r] = q],
              codeReq[r].pc # "over", Looks(q), NEW c \in Challenges, NEW v \in Challenge,
              ch' = [ch EXCEPT ![c] = v], mailed' \in Codes!Codes, mailed <= mailed',
              tried' \in [Challenges -> [Codes!Codes -> Nat]],
              redeemed' \in [Challenges -> SUBSET Others],
              \A d \in Challenges \ {c} : tried'[d] = tried[d] /\ redeemed'[d] = redeemed[d],
              UNCHANGED <<user, session, late, since>>, Counted(c)', UsedUp(c)'
       PROVE  CodeInv'
  <2>1. \A d \in Challenges \ {c} : Counted(d)' /\ UsedUp(d)'
    BY <1>1, <1>11, ChallengeStays
  <2>2. ch' \in [Challenges -> Challenge]
    BY <1>1, <1>11
  <2>3. r \notin session'
    BY <1>2, <1>11
  <2> QED
    BY <1>1, <1>11, <2>1, <2>2, <2>3, CodeStepOf
\* A code that was just mailed has not been guessed at.
<1>12. ASSUME NEW c \in Challenges, mailed < MaxCodes, mailed' = mailed + 1,
              ch'[c].attempts = 0, ch'[c].code = mailed + 1 \/ ch'[c].code = 0,
              tried'[c] = tried[c]
       PROVE  Counted(c)'
  <2>1. ASSUME NEW k \in Codes!Codes \ {0}
        PROVE  /\ tried'[c][k] <= MaxAttempts /\ (k > mailed' => tried'[c][k] = 0)
               /\ ch'[c].code = k => tried'[c][k] = ch'[c].attempts
    <3>1. k \in Nat /\ k # 0 /\ (k > mailed' \/ k = mailed + 1 => k > mailed)
      BY <1>1, <1>12
    <3>2. tried[c][k] <= MaxAttempts /\ (k > mailed => tried[c][k] = 0)
      BY <1>1 DEF Counted
    <3> QED
      BY <1>12, <3>1, <3>2
  <2>2. ch'[c].code <= mailed'
    BY <1>1, <1>12
  <2> QED
    BY <2>1, <2>2 DEF Counted
<1>13. ASSUME mailed < MaxCodes PROVE mailed + 1 \in Codes!Codes /\ mailed <= mailed + 1
  BY <1>1, <1>13 DEF Codes!Codes, CodeConstants
<1>14. ASSUME NEW r \in Others, NEW c \in Challenges, Codes!InsertChallenge(r, c) PROVE CodeInv'
  <2> DEFINE v == Codes!Issued(codeReq[r].purpose, mailed + 1)
  <2>1. PICK q \in CodeRequest : codeReq' = [codeReq EXCEPT ![r] = q] /\ q.pc = "over"
    BY <1>14, CodeGoto DEF Codes!InsertChallenge, Codes!Over
  <2>2. /\ codeReq[r].pc # "over" /\ mailed < MaxCodes /\ mailed' = mailed + 1
        /\ ch' = [ch EXCEPT ![c] = v] /\ redeemed[c] = {}
        /\ UNCHANGED <<user, session, tried, redeemed, since, late>>
    BY <1>1, <1>14 DEF Codes!InsertChallenge, Codes!Unused, Codes!history
  <2>3. v \in Challenge /\ v.code = mailed + 1 /\ v.attempts = 0
    <3>1. codeReq[r].purpose \in Codes!Purposes
      BY <1>1 DEF CodeRequest
    <3> QED
      BY <1>13, <2>2, <3>1, IssuedType
  <2> HIDE DEF v
  <2>4. ch'[c] = v
    BY <1>1, <2>2
  <2>5. Counted(c)'
    BY <1>12, <2>2, <2>3, <2>4
  <2>6. UsedUp(c)'
    BY <2>2 DEF UsedUp
  <2> QED
    BY <1>1, <1>11, <1>13, <2>1, <2>2, <2>3, <2>5, <2>6 DEF Looks
<1>15. ASSUME NEW r \in Others, NEW c \in Challenges, Codes!InsertDecoy(r, c) PROVE CodeInv'
  <2> DEFINE v == [Codes!NoChallenge EXCEPT !.purpose = "reset", !.cooling = TRUE, !.fresh = TRUE]
  <2>1. PICK q \in CodeRequest : codeReq' = [codeReq EXCEPT ![r] = q] /\ q.pc = "over"
    BY <1>15, CodeGoto DEF Codes!InsertDecoy, Codes!Over
  <2>2. /\ codeReq[r].pc # "over" /\ mailed' = mailed
        /\ ch' = [ch EXCEPT ![c] = v] /\ redeemed[c] = {}
        /\ UNCHANGED <<user, session, tried, redeemed, since, late>>
    BY <1>1, <1>15 DEF Codes!InsertDecoy, Codes!Unused, Codes!history
  <2>3. v \in Challenge /\ v.code = 0
    BY NoChallengeType DEF Challenge, Codes!Purposes
  <2> HIDE DEF v
  <2>4. ch'[c] = v
    BY <1>1, <2>2
  <2>5. Counted(c)'
    <3>1. Counted(c) /\ tried' = tried /\ ch'[c].code = 0 /\ 0 <= mailed'
      BY <1>1, <2>2, <2>3, <2>4
    <3> QED
      BY <2>2, <3>1 DEF Counted
  <2>6. UsedUp(c)'
    BY <2>2 DEF UsedUp
  <2>7. mailed' \in Codes!Codes /\ mailed <= mailed' /\ Looks(q)
    BY <1>1, <2>1, <2>2 DEF Looks
  <2> QED
    BY <1>1, <1>11, <2>1, <2>2, <2>3, <2>5, <2>6, <2>7
<1>16. ASSUME NEW r \in Others, Codes!Renew(r) PROVE CodeInv'
  <2> PICK c \in Challenges : c = codeReq[r].ch
    BY <1>1, <1>16 DEF Codes!Renew, Looks
  <2>1. PICK q \in CodeRequest : codeReq' = [codeReq EXCEPT ![r] = q] /\ q.pc = "over"
    BY <1>16, CodeGoto DEF Codes!Renew, Codes!Over
  <2>2. codeReq[r].pc # "over" /\ UNCHANGED <<user, session, tried, redeemed, since, late>>
    BY <1>16 DEF Codes!Renew, Codes!history
  <2>3. CASE UNCHANGED <<ch, mailed>>
    BY <1>4, <2>1, <2>2, <2>3 DEF Looks
  <2>4. CASE /\ Codes!There(c) /\ ch[c].resends < MaxResends /\ mailed < MaxCodes /\ mailed' = mailed + 1
             /\ ch' = [ch EXCEPT ![c] = [ch[c] EXCEPT !.code = IF ch[c].real THEN mailed + 1 ELSE 0,
                          !.attempts = 0, !.resends = @ + 1, !.cooling = TRUE, !.fresh = TRUE]]
    <3> DEFINE k == IF ch[c].real THEN mailed + 1 ELSE 0
               v == [ch[c] EXCEPT !.code = k, !.attempts = 0, !.resends = @ + 1, !.cooling = TRUE, !.fresh = TRUE]
    <3>0. k \in Codes!Codes
      BY <1>1, <1>13, <2>4
    <3>1. ch[c] \in Challenge /\ ch[c].resends + 1 \in 0..MaxResends /\ 0 \in 0..MaxAttempts
      BY <1>1, <2>4 DEF Challenge, CodeConstants
    <3>3. ch' = [ch EXCEPT ![c] = v]
      BY <1>1, <2>4
    <3> HIDE DEF k
    <3>2. v \in Challenge /\ v.code = k /\ v.attempts = 0 /\ v.purpose = ch[c].purpose
      BY <3>0, <3>1 DEF Challenge
    <3>7. k = mailed + 1 \/ k = 0
      BY DEF k
    <3> HIDE DEF v
    <3>4. ch'[c] = v
      BY <1>1, <3>3
    <3>5. Counted(c)'
      BY <1>12, <2>2, <2>4, <3>2, <3>4, <3>7
    <3>6. UsedUp(c)'
      BY <1>1, <2>2, <2>4 DEF UsedUp
    <3>8. mailed' \in Codes!Codes /\ mailed <= mailed' /\ Looks(q)
      BY <1>13, <2>1, <2>4 DEF Looks
    <3> QED
      BY <1>1, <1>11, <2>1, <2>2, <3>2, <3>3, <3>5, <3>6, <3>8
  <2> QED
    BY <1>16, <2>3, <2>4 DEF Codes!Renew
<1>17. ASSUME NEW r \in Others, Codes!TakeAttempt(r) PROVE CodeInv'
  <2> PICK c \in Challenges : c = codeReq[r].ch
    BY <1>1, <1>17 DEF Codes!TakeAttempt, Looks
  <2>1. PICK q \in CodeRequest : codeReq' = [codeReq EXCEPT ![r] = q] /\ q.pc \in {"consume", "over"} /\ q.ch = c
    <3>1. CASE Codes!Goto(r, "consume")
      BY <3>1, CodeGoto
    <3>2. CASE Codes!Goto(r, "over")
      BY <3>2, CodeGoto
    <3> QED
      BY <3>1, <3>2, <1>17, AttemptGoes
  <2>2. codeReq[r].pc # "over" /\ UNCHANGED <<mailed, user, session, redeemed, since, late>>
    BY <1>17 DEF Codes!TakeAttempt
  <2>3. CASE UNCHANGED <<ch, tried>>
    BY <1>4, <2>1, <2>2, <2>3 DEF Looks
  <2>4. CASE /\ Codes!There(c) /\ ch[c].attempts < MaxAttempts
             /\ ch' = [ch EXCEPT ![c].attempts = @ + 1]
             /\ tried' = [tried EXCEPT ![c][ch[c].code] = @ + 1]
    <3> DEFINE v == [ch[c] EXCEPT !.attempts = @ + 1]
    <3>1. ch[c] \in Challenge /\ ch[c].attempts \in Nat /\ ch[c].attempts + 1 \in 0..MaxAttempts
          /\ ch[c].code \in Codes!Codes
      BY <1>1, <2>4 DEF Challenge, CodeConstants
    <3>2. v \in Challenge /\ v.code = ch[c].code /\ v.attempts = ch[c].attempts + 1
      BY <3>1 DEF Challenge
    <3>3. ch' = [ch EXCEPT ![c] = v]
      BY <1>1, <2>4
    <3> HIDE DEF v
    <3>4. ch'[c] = v
      BY <1>1, <3>3
    <3>5. /\ tried'[c][ch[c].code] = tried[c][ch[c].code] + 1
          /\ \A k \in Codes!Codes \ {ch[c].code} : tried'[c][k] = tried[c][k]
          /\ \A d \in Challenges \ {c} : tried'[d] = tried[d]
          /\ tried' \in [Challenges -> [Codes!Codes -> Nat]]
      BY <1>1, <2>4, <3>1
    <3>6. Counted(c)'
      <4>1. ASSUME NEW k \in Codes!Codes \ {0}
            PROVE  /\ tried'[c][k] <= MaxAttempts /\ (k > mailed' => tried'[c][k] = 0)
                   /\ ch'[c].code = k => tried'[c][k] = ch'[c].attempts
        <5>1. /\ tried[c][k] <= MaxAttempts /\ (k > mailed => tried[c][k] = 0)
              /\ ch[c].code = k => tried[c][k] = ch[c].attempts
              /\ ch[c].code <= mailed /\ k \in Nat /\ ch[c].code \in Nat
          BY <1>1, <3>1 DEF Counted
        <5>2. CASE k = ch[c].code
          <6>1. tried'[c][k] = ch[c].attempts + 1 /\ ch'[c].attempts = ch[c].attempts + 1
            BY <3>2, <3>4, <3>5, <5>1, <5>2
          <6>2. mailed' = mailed /\ ~(k > mailed)
            BY <1>1, <2>2, <5>1, <5>2
          <6> QED
            BY <3>1, <6>1, <6>2 DEF CodeConstants
        <5>3. CASE k # ch[c].code
          BY <1>1, <2>2, <3>2, <3>4, <3>5, <5>1, <5>3
        <5> QED
          BY <5>2, <5>3
      <4>2. ch'[c].code <= mailed'
        BY <1>1, <2>2, <3>2, <3>4 DEF Counted
      <4> QED
        BY <4>1, <4>2 DEF Counted
    <3>7. UsedUp(c)'
      BY <1>1, <2>2, <2>4 DEF UsedUp
    <3>8. /\ mailed' \in Codes!Codes /\ mailed <= mailed' /\ redeemed' = redeemed
          /\ redeemed' \in [Challenges -> SUBSET Others]
      BY <1>1, <2>2
    <3>9. Looks(q)
      BY <2>1 DEF Looks
    <3> QED
      BY <1>11, <2>1, <2>2, <3>2, <3>3, <3>5, <3>6, <3>7, <3>8, <3>9
  <2> QED
    BY <1>17, <2>3, <2>4 DEF Codes!TakeAttempt
<1>18. ASSUME NEW r \in Others, Codes!Consume(r) PROVE CodeInv'
  <2> PICK c \in Challenges : c = codeReq[r].ch
    BY <1>1, <1>18 DEF Codes!Consume, Looks
  <2>1. PICK q \in CodeRequest : codeReq' = [codeReq EXCEPT ![r] = q] /\ q.pc \in {"verified", "password", "over"}
    <3>1. CASE Codes!Goto(r, "verified")
      BY <3>1, CodeGoto
    <3>2. CASE Codes!Goto(r, "password")
      BY <3>2, CodeGoto
    <3>3. CASE Codes!Goto(r, "over")
      BY <3>3, CodeGoto
    <3> QED
      BY <3>1, <3>2, <3>3, <1>18, ConsumeGoes
  <2>2. codeReq[r].pc # "over" /\ UNCHANGED <<mailed, user, session, tried, since, late>>
    BY <1>18 DEF Codes!Consume
  <2>3. CASE UNCHANGED <<ch, redeemed>>
    BY <1>4, <2>1, <2>2, <2>3 DEF Looks
  <2>4. CASE /\ Codes!There(c) /\ ch' = [ch EXCEPT ![c] = Codes!NoChallenge]
             /\ redeemed' = [redeemed EXCEPT ![c] = @ \cup {r}]
    <3>1. /\ redeemed'[c] = redeemed[c] \cup {r}
          /\ redeemed' \in [Challenges -> SUBSET Others]
          /\ \A d \in Challenges \ {c} : redeemed'[d] = redeemed[d]
          /\ ch'[c] = Codes!NoChallenge
      BY <1>1, <2>4
    <3>2. UsedUp(c)'
      <4>1. redeemed[c] = {}
        BY <1>1, <2>4 DEF UsedUp
      <4> QED
        BY <3>1, <4>1, NoChallengeType DEF UsedUp, Codes!There
    <3>3. Counted(c)'
      <4>1. Counted(c) /\ tried' = tried /\ ch'[c].code = 0 /\ 0 <= mailed'
        BY <1>1, <2>2, <3>1, NoChallengeType
      <4> QED
        BY <2>2, <4>1 DEF Counted
    <3>4. /\ mailed' \in Codes!Codes /\ mailed <= mailed' /\ Looks(q)
          /\ tried' \in [Challenges -> [Codes!Codes -> Nat]] /\ tried' = tried
      BY <1>1, <2>1, <2>2 DEF Looks
    <3> QED
      BY <1>11, <2>1, <2>2, <2>4, <3>1, <3>2, <3>3, <3>4, NoChallengeType
  <2> QED
    BY <1>18, <2>3, <2>4 DEF Codes!Consume, Codes!Redeemed
\* What the account becomes.
<1>19. ASSUME NEW r \in Others, NEW q \in CodeRequest, codeReq' = [codeReq EXCEPT ![r] = q],
              codeReq[r].pc # "over", q.pc # "over", Looks(q),
              user' \in [password : Codes!Passwords, old : BOOLEAN, verified : BOOLEAN],
              UNCHANGED <<mailed, tried, redeemed, late, session>>,
              \A c \in Challenges : ch'[c] = ch[c] \/ ch'[c] = Codes!NoChallenge,
              ch' \in [Challenges -> Challenge],
              since \subseteq since', since' \subseteq Codes!Passwords
       PROVE  CodeInv'
  <2>1. Typed
    BY <1>1, <1>19
  <2> HIDE DEF Typed
  <2> QED
    BY <1>1, <1>3, <1>19, <2>1
<1>20. ASSUME NEW r \in Others, Codes!Verify(r) PROVE CodeInv'
  <2> DEFINE q == [codeReq[r] EXCEPT !.pc = "session", !.password = user.password]
  <2>1. user.password \in Codes!Passwords /\ codeReq[r] \in CodeRequest
    BY <1>1
  <2>2. q \in CodeRequest /\ q.pc = "session"
    BY <2>1 DEF CodeRequest
  <2>3. codeReq' = [codeReq EXCEPT ![r] = q] /\ codeReq[r].pc = "verified"
        /\ user' = [user EXCEPT !.verified = TRUE]
        /\ UNCHANGED <<ch, mailed, session, tried, redeemed, since, late>>
    BY <1>20 DEF Codes!Verify, Codes!history, CodeInv, CodeTypes
  <2> HIDE DEF q
  <2>4. user' \in [password : Codes!Passwords, old : BOOLEAN, verified : BOOLEAN]
    BY <1>1, <2>3
  <2>5. ch' \in [Challenges -> Challenge] /\ since' \subseteq Codes!Passwords
    BY <1>1, <2>3
  <2> QED
    BY <1>19, <2>2, <2>3, <2>4, <2>5 DEF Looks
<1>21. ASSUME NEW r \in Others, Codes!Rehash(r) PROVE CodeInv'
  <2>1. PICK q \in CodeRequest : codeReq' = [codeReq EXCEPT ![r] = q] /\ q.pc = "session"
    BY <1>21, CodeGoto DEF Codes!Rehash
  <2>2. codeReq[r].password \in Codes!Passwords
    BY <1>1 DEF CodeRequest
  <2>3. user' \in [password : Codes!Passwords, old : BOOLEAN, verified : BOOLEAN]
    BY <1>1, <1>21, <2>2 DEF Codes!Rehash
  <2>4. /\ ch' \in [Challenges -> Challenge] /\ since \subseteq since' /\ since' \subseteq Codes!Passwords
        /\ UNCHANGED <<ch, mailed, tried, redeemed, late, session>> /\ codeReq[r].pc = "rehash"
    BY <1>1, <1>21, <2>2 DEF Codes!Rehash
  <2> QED
    BY <1>19, <2>1, <2>3, <2>4 DEF Looks
<1>22. ASSUME NEW r \in Others, Codes!Reset(r) PROVE CodeInv'
  <2>1. /\ UNCHANGED <<mailed, tried, redeemed, late>> /\ r \in Codes!Passwords
        /\ codeReq[r].pc \in {"password", "drop", "sign out"}
    BY <1>22 DEF Codes!Reset, Codes!Passwords
  <2>2. CASE codeReq[r].pc = "password"
    <3>1. /\ Codes!Goto(r, "drop") /\ UNCHANGED <<ch, session>> /\ since' = since \cup {r}
          /\ user' = [password |-> r, old |-> FALSE, verified |-> TRUE]
      BY <1>22, <2>2 DEF Codes!Reset, Codes!SetPassword
    <3>2. PICK q \in CodeRequest : codeReq' = [codeReq EXCEPT ![r] = q] /\ q.pc = "drop"
      BY <3>1, CodeGoto DEF CodeInv
    <3>3. /\ user' \in [password : Codes!Passwords, old : BOOLEAN, verified : BOOLEAN]
          /\ since' \subseteq Codes!Passwords /\ ch' \in [Challenges -> Challenge]
      BY <1>1, <2>1, <3>1
    <3> QED
      BY <1>19, <2>1, <2>2, <3>1, <3>2, <3>3 DEF Looks
  <2>3. CASE codeReq[r].pc = "drop"
    <3>1. /\ Codes!Goto(r, "sign out") /\ UNCHANGED <<user, session, since>>
          /\ ch' = [c \in Challenges |-> IF ch[c].real THEN Codes!NoChallenge ELSE ch[c]]
      BY <1>22, <2>3 DEF Codes!Reset, Codes!DropChallenges
    <3>2. PICK q \in CodeRequest : codeReq' = [codeReq EXCEPT ![r] = q] /\ q.pc = "sign out"
      BY <3>1, CodeGoto DEF CodeInv
    <3>3. ch' \in [Challenges -> Challenge] /\ \A c \in Challenges : ch'[c] = ch[c] \/ ch'[c] = Codes!NoChallenge
      BY <1>1, <3>1, NoChallengeType
    <3>4. /\ user' \in [password : Codes!Passwords, old : BOOLEAN, verified : BOOLEAN]
          /\ since' \subseteq Codes!Passwords
      BY <1>1, <3>1
    <3> QED
      BY <1>19, <2>1, <2>3, <3>1, <3>2, <3>3, <3>4 DEF Looks
  <2>4. CASE codeReq[r].pc = "sign out"
    <3>1. Codes!Over(r) /\ UNCHANGED <<ch, user>> /\ session' = {} /\ since' = {user.password}
      BY <1>22, <2>4 DEF Codes!Reset, Codes!SignOut
    <3>2. PICK q \in CodeRequest : codeReq' = [codeReq EXCEPT ![r] = q] /\ q.pc = "over"
      BY <3>1, CodeGoto DEF Codes!Over
    <3>3. \A c \in Challenges : Counted(c)' /\ UsedUp(c)'
      <4>1. UNCHANGED <<ch, mailed, tried, redeemed>>
        BY <2>1, <3>1
      <4>2. mailed' \in Codes!Codes /\ mailed <= mailed'
        BY <1>1, <4>1
      <4> QED
        BY <4>1, <4>2, ChallengeStays
    <3>4. Typed /\ since' \subseteq Codes!Passwords
      BY <1>1, <2>1, <3>1
    <3> QED
      BY <1>1, <2>1, <2>4, <3>1, <3>2, <3>3, <3>4, CodeStepOf DEF Looks
  <2> QED
    BY <2>1, <2>2, <2>3, <2>4
<1>23. ASSUME NEW r \in Others, Codes!CreateSession(r) PROVE CodeInv'
  <2>1. /\ codeReq[r].pc = "session" /\ session' = session \cup {r} /\ Codes!Over(r)
        /\ late' = IF codeReq[r].password \in since THEN late ELSE late \cup {r}
        /\ UNCHANGED <<ch, mailed, user, tried, redeemed, since>>
    BY <1>23 DEF Codes!CreateSession
  <2>2. PICK q \in CodeRequest : /\ codeReq' = [codeReq EXCEPT ![r] = q] /\ q.pc = "over"
                                 /\ q.password = codeReq[r].password
    BY <2>1, CodeGoto DEF Codes!Over
  <2>3. \A c \in Challenges : Counted(c)' /\ UsedUp(c)'
    BY <1>1, <2>1, ChallengeStays
  <2>4. Typed /\ since' \subseteq Codes!Passwords /\ late' \subseteq Others /\ late \subseteq late'
    BY <1>1, <2>1
  <2>5. q.password \in since' \/ r \in late'
    BY <2>1, <2>2
  <2> QED
    BY <1>1, <2>1, <2>2, <2>3, <2>4, <2>5, CodeStepOf DEF Looks
\* Time passes over a challenge.
<1>24. ASSUME NEW c \in Challenges, NEW v \in Challenge, ch' = [ch EXCEPT ![c] = v],
              v = Codes!NoChallenge
                \/ (v.code = ch[c].code /\ v.attempts = ch[c].attempts /\ Codes!There(c)),
              UNCHANGED <<mailed, user, session, codeReq, tried, redeemed, since, late>>
       PROVE  CodeInv'
  <2>1. ch'[c] = v /\ \A d \in Challenges \ {c} : ch'[d] = ch[d]
    BY <1>1, <1>24
  <2>2. \A d \in Challenges : Counted(d)' /\ UsedUp(d)'
    BY <1>1, <1>24, <2>1, ChallengeStays
  <2>3. CodeTypes'
    BY <1>1, <1>24 DEF CodeInv, CodeTypes
  <2>4. \A r \in session' : SignedIn(r)'
    BY <1>24 DEF CodeInv, SignedIn
  <2> QED
    BY <1>1, <1>24, <2>2, <2>3, <2>4 DEF CodeInv
<1>25. ASSUME NEW c \in Challenges, Codes!Cools(c) PROVE CodeInv'
  <2> DEFINE v == [ch[c] EXCEPT !.cooling = FALSE]
  <2>1. v \in Challenge /\ v.code = ch[c].code /\ v.attempts = ch[c].attempts
    BY <1>1 DEF Challenge
  <2>2. ch' = [ch EXCEPT ![c] = v]
    BY <1>25 DEF Codes!Cools
  <2> HIDE DEF v
  <2> QED
    BY <1>24, <1>25, <2>1, <2>2 DEF Codes!Cools, Codes!history
<1>26. ASSUME NEW c \in Challenges, Codes!Expire(c) PROVE CodeInv'
  <2> DEFINE v == [ch[c] EXCEPT !.fresh = FALSE]
  <2>1. v \in Challenge /\ v.code = ch[c].code /\ v.attempts = ch[c].attempts
    BY <1>1 DEF Challenge
  <2>2. ch' = [ch EXCEPT ![c] = v] \/ ch' = [ch EXCEPT ![c] = Codes!NoChallenge]
    BY <1>26 DEF Codes!Expire
  <2> HIDE DEF v
  <2>3. UNCHANGED <<mailed, user, session, codeReq, tried, redeemed, since, late>> /\ Codes!There(c)
    BY <1>26 DEF Codes!Expire, Codes!history
  <2> QED
    BY <1>24, <2>1, <2>2, <2>3, NoChallengeType
<1>27. CASE UNCHANGED Codes!vars
  <2>1. UNCHANGED <<ch, mailed, user, session, codeReq, tried, redeemed, since, late>>
    BY <1>27 DEF Codes!vars
  <2>2. \A d \in Challenges : Counted(d)' /\ UsedUp(d)'
    BY <1>1, <2>1, ChallengeStays
  <2>3. CodeTypes'
    BY <2>1 DEF CodeInv, CodeTypes
  <2>4. \A r \in session' : SignedIn(r)'
    BY <2>1 DEF CodeInv, SignedIn
  <2> QED
    BY <1>1, <2>1, <2>2, <2>3, <2>4 DEF CodeInv
<1> QED
  BY <1>5, <1>6, <1>7, <1>8, <1>9, <1>10, <1>14, <1>15, <1>16, <1>17, <1>18, <1>20, <1>21, <1>22, <1>23,
     <1>25, <1>26, <1>27 DEF Codes!Next

-----------------------------------------------------------------------------
(***************************************************************************)
(* The composition: a step is of the part that runs, and keeps it.         *)
(***************************************************************************)

LEMMA SessionsPart == SessionsNext => InSessions
  BY DEF SessionsNext

LEMMA CodesPart == CodesNext => InCodes /\ Codes!Next
<1>1. ASSUME NEW r \in Others, NEW p \in Codes!Purposes, Codes!AskCode(r, p) PROVE Codes!Next
  BY <1>1 DEF Codes!Next
<1>2. ASSUME NEW r \in Others, NEW c \in Challenges,
             Codes!InsertChallenge(r, c) \/ Codes!InsertDecoy(r, c) \/ Codes!AskResend(r, c)
      PROVE  Codes!Next
  BY <1>2 DEF Codes!Next
<1>3. ASSUME NEW r \in Others, NEW c \in Challenges, NEW k \in Codes!Codes, Codes!AskRedeem(r, c, k)
      PROVE  Codes!Next
  BY <1>3 DEF Codes!Next
<1>4. ASSUME NEW c \in Challenges, Codes!Cools(c) \/ Codes!Expire(c) PROVE Codes!Next
  BY <1>4 DEF Codes!Next
<1>5. ASSUME NEW r \in Others,
             \/ Codes!DeleteEarlier(r) \/ Codes!Renew(r) \/ Codes!TakeAttempt(r) \/ Codes!Consume(r)
             \/ Codes!Verify(r) \/ Codes!Reset(r) \/ Codes!Login(r) \/ Codes!Rehash(r)
             \/ Codes!CreateSession(r) \/ Codes!Stop(r)
      PROVE  Codes!Next
  BY <1>5 DEF Codes!Next
<1> QED
  BY <1>1, <1>2, <1>3, <1>4, <1>5 DEF CodesNext

LEMMA GrantsPart == GrantsNext => InGrants /\ Grants!Next
  BY DEF GrantsNext, Grants!Next

LEMMA MembersPart == MembersNext => InMembers /\ Members!Next
  BY DEF MembersNext, Members!Next

LEMMA AccountsPart == AccountsNext => InAccounts /\ Accounts!Next
<1>1. AccountsNext => InAccounts
  BY DEF AccountsNext
<1>2. AccountsNext => Accounts!Next
  BY DEF AccountsNext, Accounts!Next, Accounts!MergeStep
<1> QED
  BY <1>1, <1>2

LEMMA AccessPart == AccessNext => InAccess
  BY DEF AccessNext

LEMMA PartStep ==
    ASSUME [MCNext]_allVars
    PROVE  /\ part' = part
           /\ part = "codes" => [Codes!Next]_Codes!vars
           /\ part = "grants" => [Grants!Next]_Grants!vars
           /\ part = "workspaces" => [Members!Next]_Members!vars
<1>1. ASSUME UNCHANGED allVars
      PROVE  UNCHANGED <<part, Codes!vars, Grants!vars, Members!vars>>
  BY <1>1 DEF allVars, ofCodes, ofGrants, ofMembers, Codes!vars, Grants!vars, Members!vars
<1>2. CASE MCNext
  BY <1>2, SessionsPart, CodesPart, GrantsPart, MembersPart, AccountsPart, AccessPart
  DEF MCNext, InSessions, InCodes, InGrants, InMembers, InAccounts, InAccess
<1> QED
  BY <1>1, <1>2

\* TokenKept of the composition, whose behaviours of "grants" are those of Grants.
THEOREM GrantsKeepToken == ASSUME MaxTokens \in Nat PROVE MCSpec => []TokenKept
<1> DEFINE I == part = "grants" => GrantInv
<1>1. MCInit => I
  BY GrantInit DEF MCInit
<1>2. I /\ [MCNext]_allVars => I'
  BY PartStep, GrantStep
<1>3. I => TokenKept
  <2>1. GrantInv => Grants!TypeOK
    BY DEF GrantInv, GrantTypes, Grants!TypeOK
  <2> QED
    BY <2>1 DEF TokenKept, GrantInv
<1> QED
  BY <1>1, <1>2, <1>3, PTL DEF MCSpec

LEMMA MemberInvariant ==
    ASSUME None \notin Users PROVE MCSpec => [](part = "workspaces" => MemberInv)
<1> DEFINE I == part = "workspaces" => MemberInv
<1>1. MCInit => I
  BY MemberInit DEF MCInit
<1>2. I /\ [MCNext]_allVars => I'
  BY PartStep, MemberStep
<1> QED
  BY <1>1, <1>2, PTL DEF MCSpec

\* service.py: an owner is left, whatever interleaves, unless the owners were
\* counted while another request was about to lower a role; for any number of
\* members and requests.
THEOREM OwnerStays == ASSUME None \notin Users PROVE MCSpec => []OwnerKeptAlone
<1>1. MemberInv => Members!TypeOK /\ Members!OwnerKeptAlone
  BY DEF MemberInv, MemberTypes, InviteRecord, OwnerInv, Members!TypeOK, Members!OwnerKeptAlone,
         Members!Owners
<1>2. (part = "workspaces" => MemberInv) => OwnerKeptAlone
  BY <1>1 DEF OwnerKeptAlone
<1> QED
  BY <1>2, MemberInvariant, PTL

\* repository.py:147: however many accept an invite at once, it admits one person,
\* the one it names if it names anybody; None is nobody.
THEOREM InviteAdmits == ASSUME None \notin Users PROVE MCSpec => []InviteAdmitsOne
<1>1. ASSUME MemberInv PROVE Members!InviteAdmitsOne
  <2> SUFFICES ASSUME NEW i \in Invites, NEW u \in admitted[i]
               PROVE  admitted[i] = {u} /\ invite[i].for \in {None, u}
    BY DEF Members!InviteAdmitsOne
  <2>1. \A w \in admitted[i] : LetIn(i, w)
    BY <1>1 DEF MemberInv, InviteInv
  <2> QED
    BY <2>1 DEF LetIn
<1>2. (part = "workspaces" => MemberInv) => InviteAdmitsOne
  BY <1>1 DEF InviteAdmitsOne
<1> QED
  BY <1>2, MemberInvariant, PTL
\* native.py, otp.py, repository.py: guesses are bounded, a challenge lets one request
\* through and a reset signs everybody else out, for any limits and any requests;
\* None is no purpose.
THEOREM CodesAreSafe == ASSUME CodeConstants PROVE MCSpec => []CodesSafe
<1> DEFINE I == part = "codes" => CodeInv
<1>1. MCInit => I
  BY CodeInit DEF MCInit
<1>2. I /\ [MCNext]_allVars => I'
  BY PartStep, CodeStep
<1>3. ASSUME CodeInv
      PROVE  Codes!TypeOK /\ Codes!AttemptsBounded /\ Codes!RedeemedOnce /\ Codes!ResetSignsOut
  <2>1. Codes!TypeOK
    BY <1>3 DEF CodeInv, CodeTypes, Challenge, Codes!TypeOK
  <2>2. Codes!AttemptsBounded
    BY <1>3 DEF CodeInv, Counted, Codes!AttemptsBounded
  <2>3. ASSUME NEW c \in Challenges PROVE Codes!Cardinality(redeemed[c]) <= 1
    <3>1. Codes!Cardinality(redeemed[c]) = Cardinality(redeemed[c])
      BY CodesCardinality
    <3>2. redeemed[c] = {} \/ \E r \in Others : redeemed[c] = {r}
      BY <1>3 DEF CodeInv, UsedUp
    <3> QED
      BY <3>1, <3>2, FS_EmptySet, FS_Singleton
  <2>4. Codes!ResetSignsOut
    BY <1>3 DEF CodeInv, SignedIn, Codes!ResetSignsOut
  <2> QED
    BY <2>1, <2>2, <2>3, <2>4 DEF Codes!RedeemedOnce
<1>4. I => CodesSafe
  BY <1>3 DEF CodesSafe
<1> QED
  BY <1>1, <1>2, <1>4, PTL DEF MCSpec

-----------------------------------------------------------------------------
(***************************************************************************)
(* RepoAccess as MCPeople composes it: a repository's connections follow   *)
(* what GitHub says of the installation, and what is kept of it goes with  *)
(* the last of them, for any number of workspaces.                         *)
(***************************************************************************)
Connection(n) == [inst : 1..(n + 1), active : BOOLEAN, done : BOOLEAN]
Phases == {"idle", "installation", "insert", "shared", "sole", "graph", "facts", "checkout"}
Pending == sent \cup handling

AccessTypes ==
    /\ app \in [id : 0..(changes + 1), suspended : BOOLEAN, has : BOOLEAN]
    /\ app.id = 0 => ~app.has /\ ~app.suspended
    /\ changes \in 0..2 /\ blurred \in BOOLEAN /\ strewn \in BOOLEAN
    /\ \A e \in Pending : e.n \in 0..(changes - 1) /\ e.id \in 1..(changes + 1)
    /\ \A e, f \in Pending : e.n = f.n => e = f
    /\ \A e \in sent : e \notin handling
    /\ repoConn \in [Requests -> {None} \cup Connection(changes)]
    /\ asks = [w \in Requests |-> asks[w]]
    /\ \A w \in Requests : asks[w].phase \in Phases
    /\ \A w \in Requests : asks[w].phase = "insert" => asks[w].inst \in 1..(changes + 1)
    /\ fresh \subseteq 1..(changes + 1) /\ stored \subseteq Access!Kept

\* A run that found its installation gone works for one that does not come back.
JobInv ==
    /\ job.phase \in {"idle", "token", "gone", "checkout", "graph", "facts", "release", "fail"}
    /\ job.phase \in {"token", "gone", "checkout"} => job.inst \in 1..(changes + 1)
    /\ job.phase = "gone" => job.inst # app.id

(***************************************************************************)
(* What GitHub has been, h[0] to h[changes], one state per event. The      *)
(* events not applied yet are the last of them, from k on, and each        *)
(* connection is as one of the states from there on would have it.         *)
(***************************************************************************)
Reads(a) == a.id # 0 /\ a.has /\ ~a.suspended
Fits(c, a) == c.active = Reads(a) /\ (a.has => c.inst = a.id)

Tells(e, a, b) ==
    \/ e.kind = "created" /\ a.id = 0 /\ b.id = e.id /\ (b.has <=> e.has) /\ ~b.suspended
    \/ e.kind = "deleted" /\ e.id = a.id /\ b.id = 0
    \/ e.kind = "suspend" /\ e.id = a.id /\ b.id = a.id /\ b.has = a.has /\ b.suspended
    \/ e.kind = "unsuspend" /\ e.id = a.id /\ b.id = a.id /\ a.has /\ b.has /\ ~b.suspended
    \/ e.kind = "removed" /\ e.id = a.id /\ b.id = a.id /\ a.has /\ ~b.has
    \/ e.kind = "added" /\ e.has /\ e.id = a.id /\ b.id = a.id /\ b.has /\ ~b.suspended

\* An installation that was there and is not now was uninstalled in between.
Course(h) ==
    /\ h[changes] = app
    /\ \A j \in 0..changes : h[j].id = 0 => ~h[j].has
    /\ \A j \in 0..changes : h[j].id # 0 /\ h[j].id # app.id => \E i \in j..changes : h[i].id = 0

ToldFrom(k, h) ==
    /\ \A e \in Pending : e.n \in k..(changes - 1) /\ Tells(e, h[e.n], h[e.n + 1])
    /\ \A i \in k..(changes - 1) : \E e \in Pending : e.n = i

Shown(k, h) ==
    /\ \A w \in Requests : repoConn[w] # None => \E j \in k..changes : Fits(repoConn[w], h[j])
    /\ \A w \in Requests : asks[w].phase = "insert" =>
         asks[w].asked \in k..changes /\ Reads(h[asks[w].asked]) /\ asks[w].inst = h[asks[w].asked].id

Followed == ~blurred => \E k \in 0..changes : \E h : Course(h) /\ ToldFrom(k, h) /\ Shown(k, h)

(***************************************************************************)
(* While disconnects have not overlapped what stores: whoever purges is    *)
(* alone, a shared disconnect leaves somebody, and what a run or a purge   *)
(* has done so far is what is kept.                                        *)
(***************************************************************************)
Leaving(w) == asks[w].phase \in {"shared", "sole"}

PurgeInv ==
    /\ \A w \in Requests : asks[w].phase \in Access!Kept =>
         (\A v \in Requests : repoConn[v] = None) /\ job.phase = "idle"
    /\ \A w \in Requests : asks[w].phase = "sole" =>
         /\ repoConn[w] # None /\ (\A v \in Requests \ {w} : repoConn[v] = None)
         /\ job.phase = "idle"
    /\ \A w \in Requests : asks[w].phase = "shared" =>
         \E v \in Requests \ {w} : repoConn[v] # None /\ ~Leaving(v)
    /\ \A w, v \in Access!Purging : w = v

StoredInv ==
    /\ \A w \in Requests : asks[w].phase = "facts" => "graph" \notin stored
    /\ \A w \in Requests : asks[w].phase = "checkout" => stored \subseteq {"checkout"}
    /\ (\A v \in Requests : repoConn[v] = None) /\ Access!Purging = {} =>
         stored = {} /\ job.phase = "idle"
    /\ \A w \in Requests : repoConn[w] # None /\ repoConn[w].done =>
         stored = Access!Kept \/ job.phase = "fail"
    /\ job.phase = "graph" => "checkout" \in stored
    /\ job.phase = "facts" => {"checkout", "graph"} \subseteq stored
    /\ job.phase = "release" => stored = Access!Kept

AccessInv == AccessTypes /\ JobInv /\ Followed /\ (~strewn => PurgeInv /\ StoredInv)

NoneIsNoConnection == None \notin [inst : Nat, active : BOOLEAN, done : BOOLEAN]

LEMMA AccessInit == ASSUME NoneIsNoConnection PROVE Access!Init => AccessInv
<1> SUFFICES ASSUME Access!Init PROVE AccessInv
  OBVIOUS
<1>0. PICK c \in [inst : Nat, active : BOOLEAN, done : BOOLEAN] :
        c = [inst |-> 1, active |-> TRUE, done |-> TRUE]
  OBVIOUS
<1>10. c.inst = 1 /\ c.active /\ c \in Connection(0) /\ c # None
  <2>1. c.inst = 1 /\ c.active /\ c.done
    BY <1>0
  <2>2. c \in [inst : 1..1, active : BOOLEAN, done : BOOLEAN]
    BY <1>0
  <2>3. c # None
    BY <1>0 DEF NoneIsNoConnection
  <2> QED
    BY <2>1, <2>2, <2>3 DEF Connection
<1>1. PICK W \in SUBSET Requests :
        /\ repoConn = [w \in Requests |-> IF w \in W THEN c ELSE None]
        /\ stored = IF W = {} THEN {} ELSE Access!Kept
  BY <1>0 DEF Access!Init
<1>2. /\ app = [id |-> 1, suspended |-> FALSE, has |-> TRUE] /\ sent = {} /\ handling = {}
      /\ asks = [w \in Requests |-> [phase |-> "idle"]] /\ job.phase = "idle" /\ fresh \subseteq {1}
      /\ changes = 0 /\ blurred = FALSE /\ strewn = FALSE
  BY DEF Access!Init, Access!Idle
<1>3. \A w \in Requests : asks[w].phase = "idle"
  BY <1>2
<1>4. AccessTypes
  <2>1. repoConn \in [Requests -> {None} \cup Connection(changes)]
    BY <1>1, <1>2, <1>10
  <2>2. stored \subseteq Access!Kept
    BY <1>1
  <2>3. app \in [id : 0..(changes + 1), suspended : BOOLEAN, has : BOOLEAN] /\ app.id # 0
    BY <1>2
  <2>4. asks = [w \in Requests |-> asks[w]]
    BY <1>2
  <2>5. changes \in 0..2 /\ fresh \subseteq 1..(changes + 1) /\ Pending = {} /\ sent = {}
    BY <1>2 DEF Pending
  <2>6. \A w \in Requests : asks[w].phase \in Phases /\ asks[w].phase # "insert"
    BY <1>3 DEF Phases
  <2> QED
    BY <1>2, <2>1, <2>2, <2>3, <2>4, <2>5, <2>6 DEF AccessTypes
<1>5. JobInv
  BY <1>2 DEF JobInv
<1>6. Followed
  <2>1. PICK h : h = [i \in {0} |-> app]
    OBVIOUS
  <2>2. Course(h)
    BY <1>2, <2>1 DEF Course
  <2>3. ToldFrom(0, h)
    BY <1>2 DEF ToldFrom, Pending
  <2>4. Shown(0, h)
    <3>1. ASSUME NEW w \in Requests, repoConn[w] # None PROVE Fits(repoConn[w], h[0])
      <4>1. repoConn[w] = c /\ h[0] = app
        BY <1>1, <2>1, <3>1
      <4> QED
        BY <1>2, <1>10, <4>1 DEF Fits, Reads
    <3> QED
      BY <1>2, <1>3, <3>1 DEF Shown
  <2> QED
    BY <1>2, <2>2, <2>3, <2>4 DEF Followed
<1>7. PurgeInv /\ StoredInv
  <2>1. Access!Purging = {}
    BY <1>3 DEF Access!Purging, Access!Kept
  <2>2. \A w \in Requests : repoConn[w] # None => w \in W
    BY <1>1
  <2>3. \A w \in W : repoConn[w] # None
    BY <1>1, <1>10
  <2> QED
    BY <1>1, <1>2, <1>3, <2>1, <2>2, <2>3 DEF PurgeInv, StoredInv, Access!Kept
<1> QED
  BY <1>2, <1>4, <1>5, <1>6, <1>7 DEF AccessInv

\* GitHub changes and sends an event of it.
LEMMA TellStep ==
    ASSUME AccessInv, NEW kind, NEW now, Access!Tell(kind, now),
           now \in [id : 0..(changes + 2), suspended : BOOLEAN, has : BOOLEAN],
           now.id = 0 => ~now.has /\ ~now.suspended,
           IF app.id = 0 THEN now.id = changes + 2 ELSE now.id \in {0, app.id},
           blurred' \in BOOLEAN,
           ~blurred' => /\ ~blurred
                        /\ \A e : e.kind = kind /\ e.id = (IF app.id = 0 THEN now.id ELSE app.id) /\ e.has = now.has
                                    => Tells(e, app, now)
    PROVE  AccessInv'
<1>1. AccessTypes /\ changes \in 0..1 /\ changes' = changes + 1 /\ app' = now
      /\ UNCHANGED <<handling, repoConn, asks, job, fresh, stored, requests, strewn>>
  BY DEF AccessInv, AccessTypes, Access!Tell
<1>2. PICK e : e = [n |-> changes, kind |-> kind, id |-> IF app.id = 0 THEN now.id ELSE app.id, has |-> now.has]
  OBVIOUS
<1>3. e.n = changes /\ e.kind = kind /\ e.id = (IF app.id = 0 THEN now.id ELSE app.id) /\ e.has = now.has
  BY <1>2
<1>4. sent' = sent \cup {e} /\ Pending' = Pending \cup {e}
  BY <1>1, <1>2 DEF Access!Tell, Pending
<1>5. AccessTypes'
  <2>1. /\ app' \in [id : 0..(changes' + 1), suspended : BOOLEAN, has : BOOLEAN] /\ changes' \in 0..2
        /\ app'.id = 0 => ~app'.has /\ ~app'.suspended
    BY <1>1
  <2>2. \A f \in Pending' : f.n \in 0..(changes' - 1) /\ f.id \in 1..(changes' + 1)
    <3>1. e.id \in 1..(changes + 2)
      BY <1>1, <1>3 DEF AccessTypes
    <3> QED
      BY <1>1, <1>3, <1>4, <3>1 DEF AccessTypes
  <2>3. \A f, g \in Pending' : f.n = g.n => f = g
    BY <1>1, <1>3, <1>4 DEF AccessTypes
  <2>4. repoConn' \in [Requests -> {None} \cup Connection(changes')]
    <3>1. Connection(changes) \subseteq Connection(changes')
      BY <1>1 DEF Connection
    <3> QED
      BY <1>1, <3>1 DEF AccessTypes
  <2>5. fresh' \subseteq 1..(changes' + 1)
    BY <1>1 DEF AccessTypes
  <2>6. \A f \in sent' : f \notin handling'
    BY <1>1, <1>3, <1>4 DEF AccessTypes, Pending
  <2> QED
    BY <1>1, <2>1, <2>2, <2>3, <2>4, <2>5, <2>6 DEF AccessTypes
<1>6. JobInv'
  <2>1. job.phase \in {"token", "gone", "checkout"} => job.inst \in 1..(changes + 1)
    BY DEF AccessInv, JobInv
  <2>2. job.phase = "gone" => job.inst # app.id
    BY DEF AccessInv, JobInv
  <2>3. app.id \in Nat
    BY <1>1 DEF AccessTypes
  <2>4. job.phase = "gone" => job.inst # now.id
    BY <1>1, <2>1, <2>2, <2>3
  <2> QED
    BY <1>1, <2>1, <2>4 DEF AccessInv, JobInv
<1>7. ASSUME ~blurred' PROVE Followed'
  <2>1. Tells(e, app, now)
    BY <1>3, <1>7
  <2>2. PICK k \in 0..changes : \E h : Course(h) /\ ToldFrom(k, h) /\ Shown(k, h)
    BY <1>7 DEF AccessInv, Followed
  <2>9. PICK h : Course(h) /\ ToldFrom(k, h) /\ Shown(k, h)
    BY <2>2
  <2>3. PICK g : g = [i \in 0..(changes + 1) |-> IF i <= changes THEN h[i] ELSE now]
    OBVIOUS
  <2>4. g[changes + 1] = now /\ \A i \in 0..changes : g[i] = h[i]
    BY <1>1, <2>3
  <2>5. Course(g)'
    <3>1. \A j \in 0..(changes + 1) : g[j].id = 0 => ~g[j].has
      <4>1. \A j \in 0..(changes + 1) : j \in 0..changes \/ j = changes + 1
        BY <1>1
      <4> QED
        BY <2>9, <2>4, <4>1 DEF Course
    <3>2. ASSUME NEW j \in 0..(changes + 1), g[j].id # 0, g[j].id # now.id
          PROVE  \E i \in j..(changes + 1) : g[i].id = 0
      <4>1. j \in 0..changes /\ h[j].id # 0 /\ h[j].id # now.id
        BY <1>1, <2>4, <3>2
      <4>2. CASE h[j].id = app.id
        <5>1. now.id = 0 /\ changes + 1 \in j..(changes + 1)
          BY <1>1, <4>1, <4>2
        <5> QED
          BY <2>4, <5>1
      <4>3. CASE h[j].id # app.id
        <5>1. PICK i \in j..changes : h[i].id = 0
          BY <2>9, <4>1, <4>3 DEF Course
        <5>2. i \in j..(changes + 1) /\ i \in 0..changes
          BY <1>1, <4>1
        <5> QED
          BY <2>4, <5>1, <5>2
      <4> QED
        BY <4>2, <4>3
    <3> QED
      BY <1>1, <2>4, <3>1, <3>2 DEF Course
  <2>6. ToldFrom(k, g)'
    <3>1. ASSUME NEW f \in Pending PROVE f.n \in k..changes /\ Tells(f, g[f.n], g[f.n + 1])
      <4>1. f.n \in k..(changes - 1) /\ Tells(f, h[f.n], h[f.n + 1])
        BY <2>9, <3>1 DEF ToldFrom
      <4>2. f.n \in 0..changes /\ f.n + 1 \in 0..changes
        BY <1>1, <4>1
      <4>3. g[f.n] = h[f.n] /\ g[f.n + 1] = h[f.n + 1]
        BY <2>4, <4>2
      <4> QED
        BY <1>1, <4>1, <4>3
    <3>2. e.n \in k..changes /\ Tells(e, g[e.n], g[e.n + 1])
      <4>1. g[e.n] = app /\ g[e.n + 1] = now
        BY <1>1, <1>3, <2>9, <2>4 DEF Course
      <4> QED
        BY <1>1, <1>3, <2>1, <4>1
    <3>3. \A i \in k..changes : \E f \in Pending \cup {e} : f.n = i
      <4>1. \A i \in k..changes : i \in k..(changes - 1) \/ i = changes
        BY <1>1
      <4> QED
        BY <1>3, <2>9, <4>1 DEF ToldFrom
    <3>4. changes' - 1 = changes
      BY <1>1
    <3> QED
      BY <1>4, <3>1, <3>2, <3>3, <3>4 DEF ToldFrom
  <2>7. Shown(k, g)'
    <3>1. ASSUME NEW w \in Requests, repoConn[w] # None PROVE \E j \in k..(changes + 1) : Fits(repoConn[w], g[j])
      <4>1. PICK j \in k..changes : Fits(repoConn[w], h[j])
        BY <2>9, <3>1 DEF Shown
      <4>2. j \in k..(changes + 1) /\ j \in 0..changes
        BY <1>1
      <4> QED
        BY <2>4, <4>1, <4>2
    <3>2. ASSUME NEW w \in Requests, asks[w].phase = "insert"
          PROVE  asks[w].asked \in k..(changes + 1) /\ Reads(g[asks[w].asked]) /\ asks[w].inst = g[asks[w].asked].id
      <4>1. asks[w].asked \in k..changes /\ Reads(h[asks[w].asked]) /\ asks[w].inst = h[asks[w].asked].id
        BY <2>9, <3>2 DEF Shown
      <4>2. asks[w].asked \in k..(changes + 1) /\ asks[w].asked \in 0..changes
        BY <1>1, <4>1
      <4> QED
        BY <2>4, <4>1, <4>2
    <3> QED
      BY <1>1, <3>1, <3>2 DEF Shown
  <2>8. k \in 0..changes'
    BY <1>1
  <2> QED
    BY <2>5, <2>6, <2>7, <2>8 DEF Followed
<1>8. Followed'
  BY <1>7 DEF Followed
<1>9. strewn' = strewn /\ (PurgeInv /\ StoredInv => PurgeInv' /\ StoredInv')
  BY <1>1 DEF PurgeInv, StoredInv, Leaving, Access!Purging, Access!Kept
<1> QED
  BY <1>5, <1>6, <1>8, <1>9 DEF AccessInv

\* A step that tells or applies no event: each connection is as it was, or as an
\* insert read it, or inactive with an installation that is gone.
LEMMA ConnectionsFollow ==
    ASSUME AccessTypes, Followed, blurred' = blurred, UNCHANGED <<app, changes>>, Pending' = Pending,
           \A w \in Requests : repoConn'[w] # None =>
             \/ repoConn[w] # None /\ repoConn'[w].inst = repoConn[w].inst /\ repoConn'[w].active = repoConn[w].active
             \/ \E v \in Requests : asks[v].phase = "insert" /\ repoConn'[w].active /\ repoConn'[w].inst = asks[v].inst
             \/ repoConn[w] # None /\ repoConn[w].inst # app.id /\ repoConn'[w].active = FALSE,
           \A w \in Requests : asks'[w].phase = "insert" =>
             asks'[w] = asks[w] \/ (asks'[w].asked = changes /\ Reads(app) /\ asks'[w].inst = app.id)
    PROVE  Followed'
<1> SUFFICES ASSUME ~blurred PROVE \E k \in 0..changes : \E h : (Course(h) /\ ToldFrom(k, h) /\ Shown(k, h))'
  BY DEF Followed
<1>1. PICK k \in 0..changes : \E h : Course(h) /\ ToldFrom(k, h) /\ Shown(k, h)
  BY DEF Followed
<1>2. PICK h : Course(h) /\ ToldFrom(k, h) /\ Shown(k, h)
  BY <1>1
<1>3. changes \in Nat /\ changes \in k..changes /\ h[changes] = app
  BY <1>1, <1>2 DEF AccessTypes, Course
<1>4. Course(h)' /\ ToldFrom(k, h)'
  BY <1>2 DEF Course, ToldFrom
<1>5. ASSUME NEW w \in Requests, repoConn'[w] # None
      PROVE  \E j \in k..changes : Fits(repoConn'[w], h[j])
  <2>1. CASE repoConn[w] # None /\ repoConn'[w].inst = repoConn[w].inst /\ repoConn'[w].active = repoConn[w].active
    <3>1. PICK j \in k..changes : Fits(repoConn[w], h[j])
      BY <1>2, <2>1 DEF Shown
    <3> QED
      BY <2>1, <3>1 DEF Fits
  <2>2. ASSUME NEW v \in Requests, asks[v].phase = "insert", repoConn'[w].active, repoConn'[w].inst = asks[v].inst,
               repoConn'[w].active \in BOOLEAN
        PROVE  \E j \in k..changes : Fits(repoConn'[w], h[j])
    <3>1. asks[v].asked \in k..changes /\ Reads(h[asks[v].asked]) /\ asks[v].inst = h[asks[v].asked].id
      BY <1>2, <2>2 DEF Shown
    <3> QED
      BY <2>2, <3>1 DEF Fits
  <2>3. CASE repoConn[w] # None /\ repoConn[w].inst # app.id /\ repoConn'[w].active = FALSE
    <3>1. PICK j \in k..changes : Fits(repoConn[w], h[j])
      BY <1>2, <2>3 DEF Shown
    <3>2. j \in 0..changes
      BY <1>1, <1>3
    <3>3. CASE ~h[j].has
      BY <2>3, <3>1, <3>3 DEF Fits, Reads
    <3>4. CASE h[j].has
      <4>1. h[j].id # 0 /\ h[j].id # app.id
        BY <1>2, <2>3, <3>1, <3>2, <3>4 DEF Fits, Course
      <4>2. PICK i \in j..changes : h[i].id = 0
        BY <1>2, <3>2, <4>1 DEF Course
      <4>3. i \in 0..changes /\ i \in k..changes
        BY <1>1, <1>3
      <4>4. ~h[i].has
        BY <1>2, <4>2, <4>3 DEF Course
      <4> QED
        BY <2>3, <4>2, <4>3, <4>4 DEF Fits, Reads
    <3> QED
      BY <3>3, <3>4
  <2> QED
    BY <1>5, <2>1, <2>2, <2>3
<1>6. ASSUME NEW w \in Requests, asks'[w].phase = "insert"
      PROVE  asks'[w].asked \in k..changes /\ Reads(h[asks'[w].asked]) /\ asks'[w].inst = h[asks'[w].asked].id
  <2>1. CASE asks'[w] = asks[w]
    BY <1>2, <1>6, <2>1 DEF Shown
  <2>2. CASE asks'[w].asked = changes /\ Reads(app) /\ asks'[w].inst = app.id
    BY <1>3, <2>2
  <2> QED
    BY <1>6, <2>1, <2>2
<1>7. Shown(k, h)'
  BY <1>5, <1>6 DEF Shown
<1> QED
  BY <1>1, <1>4, <1>7

LEMMA AccessFrame ==
    ASSUME AccessInv, blurred' = blurred, UNCHANGED <<app, changes>>, Pending' = Pending,
           \A e \in sent' : e \notin handling', strewn' \in BOOLEAN,
           fresh' \subseteq 1..(changes + 1), stored' \subseteq Access!Kept,
           repoConn' \in [Requests -> {None} \cup Connection(changes)],
           asks' = [w \in Requests |-> asks'[w]],
           \A w \in Requests : repoConn'[w] # None =>
             \/ repoConn[w] # None /\ repoConn'[w].inst = repoConn[w].inst /\ repoConn'[w].active = repoConn[w].active
             \/ \E v \in Requests : asks[v].phase = "insert" /\ repoConn'[w].active /\ repoConn'[w].inst = asks[v].inst
             \/ repoConn[w] # None /\ repoConn[w].inst # app.id /\ repoConn'[w].active = FALSE,
           \A w \in Requests :
             \/ asks'[w] = asks[w]
             \/ /\ asks'[w].phase \in Phases
                /\ asks'[w].phase = "insert" =>
                     asks'[w].asked = changes /\ Reads(app) /\ asks'[w].inst = app.id,
           JobInv', ~strewn' => (PurgeInv /\ StoredInv)'
    PROVE  AccessInv'
<1>1. AccessTypes'
  <2>1. app.id # 0 => app.id \in 1..(changes + 1)
    BY DEF AccessInv, AccessTypes
  <2>2. \A w \in Requests : asks'[w].phase \in Phases
    BY DEF AccessInv, AccessTypes
  <2>3. \A w \in Requests : asks'[w].phase = "insert" => asks'[w].inst \in 1..(changes + 1)
    BY <2>1 DEF AccessInv, AccessTypes, Reads
  <2>4. /\ blurred' \in BOOLEAN /\ changes' \in 0..2 /\ app' \in [id : 0..(changes' + 1), suspended : BOOLEAN, has : BOOLEAN]
        /\ app'.id = 0 => ~app'.has /\ ~app'.suspended
    BY DEF AccessInv, AccessTypes
  <2>5. /\ \A e \in Pending' : e.n \in 0..(changes' - 1) /\ e.id \in 1..(changes' + 1)
        /\ \A e, f \in Pending' : e.n = f.n => e = f
    BY DEF AccessInv, AccessTypes
  <2> QED
    BY <2>2, <2>3, <2>4, <2>5 DEF AccessTypes
<1>2. Followed'
  <2>1. AccessTypes /\ Followed
    BY DEF AccessInv
  <2>2. \A w \in Requests : asks'[w].phase = "insert" =>
          asks'[w] = asks[w] \/ (asks'[w].asked = changes /\ Reads(app) /\ asks'[w].inst = app.id)
    OBVIOUS
  <2> QED
    BY <2>1, <2>2, ConnectionsFollow
<1> QED
  BY <1>1, <1>2 DEF AccessInv

LEMMA ApplyStep == ASSUME AccessInv, NoneIsNoConnection, NEW e, Access!Apply(e) PROVE AccessInv'
<1>1. AccessTypes /\ e \in handling /\ handling' = handling \ {e} /\ sent' = sent
      /\ UNCHANGED <<app, asks, job, fresh, stored, changes, requests, strewn>>
  BY DEF AccessInv, Access!Apply, Access!Handled
<1>2. Pending' = Pending \ {e} /\ e \in Pending
  BY <1>1 DEF AccessTypes, Pending
<1>3. repoConn' = Access!Outcome(e)
  BY DEF Access!Apply
<1>4. e.id \in 1..(changes + 1) /\ e.n \in 0..(changes - 1) /\ changes \in Nat
  BY <1>1, <1>2 DEF AccessTypes
<1>5. \A w \in Requests : repoConn[w] = None => repoConn'[w] = None
  BY <1>3 DEF Access!Outcome, Access!Reattach, Access!SetAccessStatus
<1>6. ASSUME NEW w \in Requests, repoConn[w] # None
      PROVE  LET c == repoConn'[w] IN
             /\ c \in Connection(changes) /\ c.done = repoConn[w].done
             /\ e.kind \in {"created", "added"} /\ e.has => c.inst = e.id /\ c.active
             /\ e.kind \in {"created", "added"} /\ ~e.has => c = repoConn[w]
             /\ e.kind \notin {"created", "added"} /\ repoConn[w].inst = e.id =>
                  c.inst = e.id /\ c.active = (e.kind = "unsuspend")
             /\ e.kind \notin {"created", "added"} /\ repoConn[w].inst # e.id => c = repoConn[w]
  <2>1. repoConn[w] \in Connection(changes)
    BY <1>1, <1>6 DEF AccessTypes
  <2>2. CASE e.kind \in {"created", "added"} /\ e.has
    <3>1. repoConn'[w] = [repoConn[w] EXCEPT !.inst = e.id, !.active = TRUE]
      BY <1>3, <1>6, <2>2 DEF Access!Outcome, Access!Reattach
    <3> QED
      BY <1>4, <2>1, <2>2, <3>1 DEF Connection
  <2>3. CASE e.kind \in {"created", "added"} /\ ~e.has
    BY <1>3, <2>1, <2>3 DEF Access!Outcome
  <2>4. CASE e.kind \notin {"created", "added"} /\ repoConn[w].inst = e.id
    <3>1. repoConn'[w] = [repoConn[w] EXCEPT !.active = (e.kind = "unsuspend")]
      BY <1>3, <1>6, <2>4 DEF Access!Outcome, Access!SetAccessStatus
    <3> QED
      BY <1>4, <2>1, <2>4, <3>1 DEF Connection
  <2>5. CASE e.kind \notin {"created", "added"} /\ repoConn[w].inst # e.id
    <3>1. repoConn'[w] = repoConn[w]
      BY <1>3, <1>6, <2>5 DEF Access!Outcome, Access!SetAccessStatus
    <3> QED
      BY <2>1, <2>5, <3>1
  <2> QED
    BY <2>2, <2>3, <2>4, <2>5
<1>7. \A w \in Requests : repoConn'[w] # None => repoConn[w] # None
  BY <1>5
<1>8. \A w \in Requests : repoConn[w] # None => repoConn'[w] # None
  <2>1. None \notin Connection(changes)
    BY <1>4 DEF Connection, NoneIsNoConnection
  <2> QED
    BY <1>6, <2>1
<1>9. AccessTypes'
  <2>1. repoConn' \in [Requests -> {None} \cup Connection(changes)]
    <3>1. \A w \in Requests : repoConn'[w] \in {None} \cup Connection(changes)
      BY <1>5, <1>6
    <3>2. repoConn' = [w \in Requests |-> repoConn'[w]]
      BY <1>1, <1>3 DEF Access!Outcome, Access!Reattach, Access!SetAccessStatus, AccessTypes
    <3> QED
      BY <3>1, <3>2
  <2>2. blurred' \in BOOLEAN
    BY DEF Access!Apply
  <2> QED
    BY <1>1, <1>2, <2>1, <2>2 DEF AccessTypes
<1>10. ASSUME ~blurred' PROVE Followed'
  <2>1. /\ ~blurred /\ \A f \in Pending : ~(f.n < e.n)
        /\ \A w \in Requests : asks[w].phase = "insert" => ~(e.n >= asks[w].asked)
    BY <1>10 DEF Access!Apply, Pending
  <2>2. PICK k \in 0..changes : \E h : Course(h) /\ ToldFrom(k, h) /\ Shown(k, h)
    BY <2>1 DEF AccessInv, Followed
  <2>3. PICK h : Course(h) /\ ToldFrom(k, h) /\ Shown(k, h)
    BY <2>2
  <2>4. e.n = k
    <3>1. e.n \in k..(changes - 1)
      BY <1>2, <2>3 DEF ToldFrom
    <3>2. k \in k..(changes - 1)
      BY <1>4, <3>1
    <3>3. PICK f \in Pending : f.n = k
      BY <2>3, <3>2 DEF ToldFrom
    <3> QED
      BY <1>4, <2>1, <3>1, <3>3
  <2>5. Tells(e, h[k], h[k + 1]) /\ k + 1 \in 0..changes
    BY <1>2, <1>4, <2>3, <2>4 DEF ToldFrom
  <2>6. Course(h)'
    BY <1>1, <2>3 DEF Course
  <2>7. ToldFrom(k + 1, h)'
    <3>1. ASSUME NEW f \in Pending, f # e PROVE f.n \in (k + 1)..(changes - 1) /\ Tells(f, h[f.n], h[f.n + 1])
      <4>1. f.n \in k..(changes - 1) /\ Tells(f, h[f.n], h[f.n + 1])
        BY <2>3 DEF ToldFrom
      <4>2. f.n # k
        BY <1>1, <1>2, <2>4, <3>1 DEF AccessTypes
      <4> QED
        BY <1>4, <4>1, <4>2
    <3>2. ASSUME NEW i \in (k + 1)..(changes - 1) PROVE \E f \in Pending \ {e} : f.n = i
      <4>1. i \in k..(changes - 1) /\ i # k
        BY <1>4
      <4> QED
        BY <2>3, <2>4, <4>1 DEF ToldFrom
    <3> QED
      BY <1>1, <1>2, <3>1, <3>2 DEF ToldFrom
  <2>8. ASSUME NEW w \in Requests, repoConn'[w] # None
        PROVE  \E j \in (k + 1)..changes : Fits(repoConn'[w], h[j])
    <3>1. repoConn[w] # None
      BY <1>7, <2>8
    <3>2. PICK j \in k..changes : Fits(repoConn[w], h[j])
      BY <2>3, <3>1 DEF Shown
    <3>3. k + 1 \in (k + 1)..changes /\ k \in 0..changes
      BY <1>4, <2>5
    <3>4. \A i \in {k, k + 1} : h[i].id = 0 => ~h[i].has
      BY <2>3, <2>5, <3>3 DEF Course
    <3>5. CASE Fits(repoConn'[w], h[k + 1])
      BY <3>3, <3>5
    <3>6. CASE j # k /\ repoConn'[w] = repoConn[w]
      <4>1. j \in (k + 1)..changes
        BY <1>4, <3>6
      <4> QED
        BY <3>2, <3>6, <4>1
    <3>7. repoConn'[w].active \in BOOLEAN /\ repoConn[w].active \in BOOLEAN
      BY <1>1, <1>6, <3>1 DEF Connection, AccessTypes
    <3>14. Reads(h[k]) \in BOOLEAN /\ Reads(h[k + 1]) \in BOOLEAN
      BY DEF Reads
    <3>8. CASE e.kind = "created" /\ e.has
      <4>1. Reads(h[k + 1]) /\ h[k + 1].id = e.id
        BY <1>4, <2>5, <3>8 DEF Tells, Reads
      <4> QED
        BY <1>6, <3>1, <3>5, <3>7, <3>8, <4>1 DEF Fits
    <3>9. CASE e.kind = "created" /\ ~e.has
      <4>1. repoConn'[w] = repoConn[w] /\ ~Reads(h[k]) /\ ~h[k + 1].has
        BY <1>6, <2>5, <3>1, <3>9 DEF Tells, Reads
      <4> QED
        BY <3>2, <3>5, <3>6, <3>7, <4>1 DEF Fits, Reads
    <3>10. CASE e.kind = "added"
      <4>1. Reads(h[k + 1]) /\ h[k + 1].id = e.id /\ e.has
        BY <1>4, <2>5, <3>10 DEF Tells, Reads
      <4> QED
        BY <1>6, <3>1, <3>5, <3>7, <3>10, <4>1 DEF Fits
    <3>11. CASE e.kind \in {"deleted", "suspend", "removed"}
      <4>1. ~Reads(h[k + 1]) /\ h[k].id = e.id /\ (h[k + 1].has => h[k].has /\ h[k + 1].id = e.id)
        BY <2>5, <3>4, <3>11 DEF Tells, Reads
      <4>2. CASE repoConn[w].inst = e.id
        <5>1. repoConn'[w].inst = e.id /\ repoConn'[w].active = FALSE
          BY <1>6, <3>1, <3>11, <4>2
        <5> QED
          BY <3>5, <3>14, <4>1, <5>1 DEF Fits
      <4>3. CASE repoConn[w].inst # e.id
        <5>1. repoConn'[w] = repoConn[w]
          BY <1>6, <3>1, <3>11, <4>3
        <5>2. CASE j = k
          <6>1. ~h[k].has /\ ~repoConn[w].active
            BY <3>2, <4>1, <4>3, <5>2 DEF Fits, Reads
          <6> QED
            BY <3>5, <3>7, <3>14, <4>1, <5>1, <6>1 DEF Fits
        <5> QED
          BY <3>6, <5>1, <5>2
      <4> QED
        BY <4>2, <4>3
    <3>12. CASE e.kind = "unsuspend"
      <4>1. Reads(h[k + 1]) /\ h[k].id = e.id /\ h[k].has /\ h[k + 1].id = e.id
        BY <1>4, <2>5, <3>12 DEF Tells, Reads
      <4>2. CASE repoConn[w].inst = e.id
        <5>1. repoConn'[w].inst = e.id /\ repoConn'[w].active = TRUE
          BY <1>6, <3>1, <3>12, <4>2
        <5> QED
          BY <3>5, <4>1, <5>1 DEF Fits
      <4>3. CASE repoConn[w].inst # e.id
        <5>1. repoConn'[w] = repoConn[w] /\ j # k
          BY <1>6, <3>1, <3>2, <3>12, <4>1, <4>3 DEF Fits
        <5> QED
          BY <3>6, <5>1
      <4> QED
        BY <4>2, <4>3
    <3>13. e.kind \in {"created", "deleted", "suspend", "unsuspend", "removed", "added"}
      BY <2>5 DEF Tells
    <3> QED
      BY <3>8, <3>9, <3>10, <3>11, <3>12, <3>13
  <2>9. ASSUME NEW w \in Requests, asks[w].phase = "insert"
        PROVE  asks[w].asked \in (k + 1)..changes /\ Reads(h[asks[w].asked]) /\ asks[w].inst = h[asks[w].asked].id
    <3>1. asks[w].asked \in k..changes /\ Reads(h[asks[w].asked]) /\ asks[w].inst = h[asks[w].asked].id
      BY <2>3, <2>9 DEF Shown
    <3>2. ~(k >= asks[w].asked)
      BY <2>1, <2>4, <2>9
    <3> QED
      BY <1>4, <3>1, <3>2
  <2>10. Shown(k + 1, h)'
    BY <1>1, <2>8, <2>9 DEF Shown
  <2> QED
    BY <1>1, <2>5, <2>6, <2>7, <2>10 DEF Followed
<1>11. Followed'
  BY <1>10 DEF Followed
<1>12. JobInv'
  BY <1>1 DEF AccessInv, JobInv
<1>13. ~strewn' => (PurgeInv /\ StoredInv)'
  <2>1. \A w \in Requests : repoConn'[w] # None => repoConn'[w].done = repoConn[w].done
    BY <1>6, <1>7
  <2> QED
    BY <1>1, <1>5, <1>8, <2>1 DEF AccessInv, PurgeInv, StoredInv, Leaving, Access!Purging
<1> QED
  BY <1>9, <1>11, <1>12, <1>13 DEF AccessInv

LEMMA TellsStep ==
    ASSUME AccessInv,
           \/ Access!Uninstall \/ Access!Suspend \/ Access!Unsuspend
           \/ \E has \in BOOLEAN : Access!Install(has) \/ Access!Select(has)
    PROVE  AccessInv'
<1>1. AccessTypes /\ app.id \in 0..(changes + 1) /\ changes \in Nat /\ blurred \in BOOLEAN
      /\ app.suspended \in BOOLEAN /\ app.has \in BOOLEAN
  BY DEF AccessInv, AccessTypes
<1>8. /\ app \in [id : 0..(changes + 2), suspended : BOOLEAN, has : BOOLEAN]
      /\ 0 \in 0..(changes + 2) /\ changes + 2 \in 0..(changes + 2)
  BY <1>1 DEF AccessTypes
<1>2. app.id = 0 => ~app.has /\ ~app.suspended
  BY DEF AccessInv, AccessTypes
<1>3. CASE Access!Uninstall
  <2>1. PICK now : now = [id |-> 0, suspended |-> FALSE, has |-> FALSE]
    OBVIOUS
  <2>0. now \in [id : 0..(changes + 2), suspended : BOOLEAN, has : BOOLEAN]
    BY <1>1, <1>8, <2>1
  <2>2. now.id = 0 /\ ~now.has /\ ~now.suspended
    BY <2>1
  <2>3. app.id # 0 /\ Access!Tell("deleted", now) /\ blurred' = blurred
    BY <1>3, <2>1 DEF Access!Uninstall
  <2>4. \A e : e.kind = "deleted" /\ e.id = app.id => Tells(e, app, now)
    BY <2>2 DEF Tells
  <2> QED
    BY <1>1, <2>0, <2>2, <2>3, <2>4, TellStep
<1>4. ASSUME NEW has \in BOOLEAN, Access!Install(has) PROVE AccessInv'
  <2>1. PICK now : now = [id |-> changes + 2, suspended |-> FALSE, has |-> has]
    OBVIOUS
  <2>0. now \in [id : 0..(changes + 2), suspended : BOOLEAN, has : BOOLEAN]
    BY <1>1, <1>8, <2>1
  <2>2. now.id = changes + 2 /\ (now.has <=> has) /\ ~now.suspended /\ now.id # 0
    BY <1>1, <2>1
  <2>3. app.id = 0 /\ Access!Tell("created", now) /\ blurred' = blurred
    BY <1>4, <2>1 DEF Access!Install
  <2>4. \A e : e.kind = "created" /\ e.id = now.id /\ e.has = now.has => Tells(e, app, now)
    BY <2>2, <2>3 DEF Tells
  <2> QED
    BY <1>1, <2>0, <2>2, <2>3, <2>4, TellStep
<1>5. CASE Access!Suspend
  <2>1. PICK now : now = [app EXCEPT !.suspended = TRUE]
    OBVIOUS
  <2>0. now \in [id : 0..(changes + 2), suspended : BOOLEAN, has : BOOLEAN]
    BY <1>1, <1>8, <2>1
  <2>2. now.id = app.id /\ now.has = app.has /\ now.suspended
    BY <1>1, <2>1 DEF AccessTypes
  <2>3. app.id # 0 /\ Access!Tell("suspend", now) /\ blurred' = blurred
    BY <1>5, <2>1 DEF Access!Suspend
  <2>4. \A e : e.kind = "suspend" /\ e.id = app.id => Tells(e, app, now)
    BY <2>2 DEF Tells
  <2> QED
    BY <1>1, <2>0, <2>2, <2>3, <2>4, TellStep
<1>6. CASE Access!Unsuspend
  <2>1. PICK now : now = [app EXCEPT !.suspended = FALSE]
    OBVIOUS
  <2>0. now \in [id : 0..(changes + 2), suspended : BOOLEAN, has : BOOLEAN]
    BY <1>1, <1>8, <2>1
  <2>2. now.id = app.id /\ now.has = app.has /\ ~now.suspended
    BY <1>1, <2>1 DEF AccessTypes
  <2>3. app.suspended /\ Access!Tell("unsuspend", now) /\ blurred' = (blurred \/ ~app.has)
    BY <1>6, <2>1 DEF Access!Unsuspend
  <2>4. app.has => \A e : e.kind = "unsuspend" /\ e.id = app.id => Tells(e, app, now)
    BY <2>2 DEF Tells
  <2>5. blurred' \in BOOLEAN /\ (~blurred' => ~blurred /\ app.has) /\ app.id # 0
    BY <1>1, <1>2, <2>3
  <2> QED
    BY <1>1, <2>0, <2>2, <2>3, <2>4, <2>5, TellStep
<1>7. ASSUME NEW has \in BOOLEAN, Access!Select(has) PROVE AccessInv'
  <2>1. PICK now : now = [app EXCEPT !.has = has]
    OBVIOUS
  <2>0. now \in [id : 0..(changes + 2), suspended : BOOLEAN, has : BOOLEAN]
    BY <1>1, <1>8, <2>1
  <2>2. now.id = app.id /\ (now.has <=> has) /\ now.suspended = app.suspended
    BY <1>1, <2>1 DEF AccessTypes
  <2>3. PICK kind : kind = IF has THEN "added" ELSE "removed"
    OBVIOUS
  <2>4. app.id # 0 /\ app.has # has /\ Access!Tell(kind, now) /\ blurred' = (blurred \/ app.suspended)
    BY <1>7, <2>1, <2>3 DEF Access!Select
  <2>5. ~app.suspended => \A e : e.kind = kind /\ e.id = app.id /\ e.has = now.has => Tells(e, app, now)
    BY <1>1, <2>2, <2>3, <2>4 DEF Tells
  <2> QED
    BY <1>1, <2>0, <2>2, <2>4, <2>5, TellStep
<1> QED
  BY <1>3, <1>4, <1>5, <1>6, <1>7

LEMMA AskWrites ==
    ASSUME asks = [v \in Requests |-> asks[v]], NEW w \in Requests, NEW now, asks' = [asks EXCEPT ![w] = now]
    PROVE  /\ asks' = [v \in Requests |-> asks'[v]] /\ asks'[w] = now
           /\ \A v \in Requests \ {w} : asks'[v] = asks[v]
  OBVIOUS

LEMMA WebhookStep ==
    ASSUME AccessInv, NEW e, Access!FirstDelivery(e) \/ Access!HandlerFails(e)
    PROVE  AccessInv'
<1>1. AccessTypes /\ JobInv
  BY DEF AccessInv
<1>2. UNCHANGED <<app, repoConn, asks, job, fresh, stored, changes, requests, blurred, strewn>>
  BY DEF Access!FirstDelivery, Access!HandlerFails, Access!Handled
<1>3. Pending' = Pending /\ \A f \in sent' : f \notin handling'
  BY <1>1 DEF Access!FirstDelivery, Access!HandlerFails, Access!Handled, Pending, AccessTypes
<1>4. strewn' \in BOOLEAN /\ fresh' \subseteq 1..(changes + 1) /\ stored' \subseteq Access!Kept
      /\ repoConn' \in [Requests -> {None} \cup Connection(changes)]
      /\ asks' = [w \in Requests |-> asks'[w]]
  BY <1>1, <1>2 DEF AccessTypes
<1>5. JobInv' /\ (~strewn' => (PurgeInv /\ StoredInv)')
  BY <1>2 DEF AccessInv, JobInv, PurgeInv, StoredInv, Leaving, Access!Purging
<1> QED
  BY <1>2, <1>3, <1>4, <1>5, AccessFrame

LEMMA HandlerDiesStep == ASSUME AccessInv, NEW e, Access!HandlerDies(e) PROVE AccessInv'
<1>1. AccessTypes /\ JobInv
  BY DEF AccessInv
<1>2. UNCHANGED <<app, sent, repoConn, asks, job, fresh, stored, changes, requests, strewn>>
      /\ blurred' = TRUE /\ handling' = handling \ {e}
  BY DEF Access!HandlerDies, Access!Handled
<1>3. AccessTypes'
  BY <1>1, <1>2 DEF AccessTypes, Pending
<1>4. Followed'
  BY <1>2 DEF Followed
<1>5. JobInv' /\ (~strewn' => (PurgeInv /\ StoredInv)')
  BY <1>2 DEF AccessInv, JobInv, PurgeInv, StoredInv, Leaving, Access!Purging
<1> QED
  BY <1>3, <1>4, <1>5 DEF AccessInv

\* A request to connect or disconnect takes a step.
LEMMA RequestStep ==
    ASSUME AccessInv, NoneIsNoConnection, NEW w \in Requests,
           \/ Access!GetRepo(w) \/ Access!GetRepoInstallation(w) \/ Access!Insert(w)
           \/ Access!DisconnectReads(w) \/ Access!Delete(w) \/ Access!Purge(w) \/ Access!DisconnectDies(w)
    PROVE  AccessInv'
<1>1. AccessTypes /\ JobInv
  BY DEF AccessInv
<1>2. UNCHANGED <<app, sent, handling, job, fresh, changes, blurred>>
  BY DEF Access!GetRepo, Access!GetRepoInstallation, Access!Insert, Access!DisconnectReads, Access!Delete,
         Access!Purge, Access!DisconnectDies, Access!Ask, Access!Go
<1>3. JobInv' /\ Pending' = Pending /\ fresh' \subseteq 1..(changes + 1) /\ \A f \in sent' : f \notin handling'
  BY <1>1, <1>2 DEF JobInv, Pending, AccessTypes
<1>4. ASSUME NEW now, asks' = [asks EXCEPT ![w] = now],
             now.phase \in Phases,
             now.phase = "insert" => now.asked = changes /\ Reads(app) /\ now.inst = app.id,
             repoConn' \in [Requests -> {None} \cup Connection(changes)],
             stored' \subseteq Access!Kept, strewn' \in BOOLEAN,
             \A v \in Requests : repoConn'[v] # None =>
               \/ repoConn[v] # None /\ repoConn'[v] = repoConn[v]
               \/ asks[w].phase = "insert" /\ repoConn'[v].active /\ repoConn'[v].inst = asks[w].inst,
             ~strewn' => (PurgeInv /\ StoredInv)'
      PROVE  AccessInv'
  <2>1. /\ asks' = [v \in Requests |-> asks'[v]] /\ asks'[w] = now
        /\ \A v \in Requests \ {w} : asks'[v] = asks[v]
    BY <1>1, <1>4, AskWrites DEF AccessTypes
  <2>2. \A v \in Requests :
             \/ asks'[v] = asks[v]
             \/ /\ asks'[v].phase \in Phases
                /\ asks'[v].phase = "insert" =>
                     asks'[v].asked = changes /\ Reads(app) /\ asks'[v].inst = app.id
    BY <1>4, <2>1
  <2>3. \A v \in Requests : repoConn'[v] # None =>
             \/ repoConn[v] # None /\ repoConn'[v].inst = repoConn[v].inst /\ repoConn'[v].active = repoConn[v].active
             \/ \E u \in Requests : asks[u].phase = "insert" /\ repoConn'[v].active /\ repoConn'[v].inst = asks[u].inst
             \/ repoConn[v] # None /\ repoConn[v].inst # app.id /\ repoConn'[v].active = FALSE
    BY <1>4
  <2> QED
    BY <1>2, <1>3, <1>4, <2>1, <2>2, <2>3, AccessFrame
<1>5. Access!Purging = {v \in Requests : asks[v].phase \in {"sole", "graph", "facts", "checkout"}}
  BY DEF Access!Purging, Access!Kept
<1>6. Access!Purging' = {v \in Requests : asks'[v].phase \in {"sole", "graph", "facts", "checkout"}}
  BY DEF Access!Purging, Access!Kept
<1>7. Access!Kept = {"checkout", "graph", "facts"}
  BY DEF Access!Kept
\* A request that writes nothing.
<1>8. ASSUME NEW now, asks' = [asks EXCEPT ![w] = now], now.phase \in {"idle", "installation", "insert"},
             asks[w].phase \in {"idle", "installation"},
             now.phase = "insert" => now.asked = changes /\ Reads(app) /\ now.inst = app.id,
             UNCHANGED <<repoConn, stored, strewn>>
      PROVE  AccessInv'
  <2>1. asks'[w] = now /\ \A v \in Requests \ {w} : asks'[v] = asks[v]
    BY <1>1, <1>8, AskWrites DEF AccessTypes
  <2>2. \A v \in Requests : asks'[v].phase \in {"sole", "shared", "graph", "facts", "checkout"}
                              \/ asks[v].phase \in {"sole", "shared", "graph", "facts", "checkout"} =>
                              asks'[v] = asks[v]
    BY <1>8, <2>1
  <2>3. Access!Purging' = Access!Purging
    BY <1>5, <1>6, <2>2
  <2>4. \A v \in Requests : Leaving(v)' <=> Leaving(v)
    BY <2>2 DEF Leaving
  <2>5. ASSUME ~strewn' PROVE PurgeInv'
    BY <1>2, <1>7, <1>8, <2>2, <2>3, <2>4, <2>5 DEF AccessInv, PurgeInv
  <2>6. ASSUME ~strewn' PROVE StoredInv'
    BY <1>2, <1>7, <1>8, <2>2, <2>3, <2>6 DEF AccessInv, StoredInv
  <2>7. now.phase \in Phases
    BY <1>8 DEF Phases
  <2>8. /\ repoConn' \in [Requests -> {None} \cup Connection(changes)] /\ stored' \subseteq Access!Kept
        /\ strewn' \in BOOLEAN
    BY <1>1, <1>8 DEF AccessTypes
  <2> QED
    BY <1>4, <1>8, <2>5, <2>6, <2>7, <2>8
<1>9. CASE Access!GetRepo(w)
  <2>1. PICK now : now = [phase |-> "installation"]
    OBVIOUS
  <2>2. now.phase = "installation" /\ asks[w].phase = "idle" /\ asks' = [asks EXCEPT ![w] = now]
        /\ UNCHANGED <<repoConn, stored, strewn>>
    BY <1>9, <2>1 DEF Access!GetRepo, Access!Ask, Access!Idle
  <2> QED
    BY <1>8, <2>2
<1>10. CASE Access!GetRepoInstallation(w)
  <2>1. asks[w].phase = "installation" /\ UNCHANGED <<repoConn, stored, strewn>>
    BY <1>10 DEF Access!GetRepoInstallation
  <2>2. CASE Access!Readable
    <3>1. PICK now : now = [phase |-> "insert", inst |-> app.id, asked |-> changes]
      OBVIOUS
    <3>2. now.phase = "insert" /\ now.inst = app.id /\ now.asked = changes /\ asks' = [asks EXCEPT ![w] = now]
      BY <1>10, <2>2, <3>1 DEF Access!GetRepoInstallation, Access!Go
    <3> QED
      BY <1>8, <2>1, <2>2, <3>2 DEF Access!Readable, Reads
  <2>3. CASE ~Access!Readable
    <3>1. PICK now : now = [phase |-> "idle"]
      OBVIOUS
    <3>2. now.phase = "idle" /\ asks' = [asks EXCEPT ![w] = now]
      BY <1>10, <2>3, <3>1 DEF Access!GetRepoInstallation, Access!Go, Access!Idle
    <3> QED
      BY <1>8, <2>1, <3>2
  <2> QED
    BY <2>2, <2>3
<1>11. CASE Access!Insert(w)
  <2>1. PICK now : now = [phase |-> "idle"]
    OBVIOUS
  <2>2. /\ asks[w].phase = "insert" /\ strewn' = (strewn \/ Access!Purging # {}) /\ stored' = stored
        /\ asks' = [asks EXCEPT ![w] = now] /\ now.phase = "idle"
    BY <1>11, <2>1 DEF Access!Insert, Access!Go, Access!Idle
  <2>3. PICK c \in Connection(changes) : c = [inst |-> asks[w].inst, active |-> TRUE, done |-> FALSE]
    <3>1. asks[w].inst \in 1..(changes + 1)
      BY <1>1, <2>2 DEF AccessTypes
    <3> QED
      BY <3>1 DEF Connection
  <2>4. c.inst = asks[w].inst /\ c.active = TRUE /\ c.done = FALSE
    BY <2>3
  <2>5. c # None
    <3>1. c \in [inst : Nat, active : BOOLEAN, done : BOOLEAN]
      BY <1>1 DEF Connection, AccessTypes
    <3> QED
      BY <3>1 DEF NoneIsNoConnection
  <2>6. repoConn' = IF repoConn[w] = None THEN [repoConn EXCEPT ![w] = c] ELSE repoConn
    BY <1>11, <2>3 DEF Access!Insert
  <2>7. /\ repoConn' \in [Requests -> {None} \cup Connection(changes)]
        /\ \A v \in Requests : repoConn[v] # None => repoConn'[v] = repoConn[v]
        /\ \A v \in Requests \ {w} : repoConn'[v] = repoConn[v]
        /\ repoConn[w] = None => repoConn'[w] = c
    BY <1>1, <2>6 DEF AccessTypes
  <2>8. asks'[w] = now /\ \A v \in Requests \ {w} : asks'[v] = asks[v]
    BY <1>1, <2>2, AskWrites DEF AccessTypes
  <2>9. \A v \in Requests : repoConn'[v] # None =>
               \/ repoConn[v] # None /\ repoConn'[v] = repoConn[v]
               \/ asks[w].phase = "insert" /\ repoConn'[v].active /\ repoConn'[v].inst = asks[w].inst
    BY <2>2, <2>4, <2>7
  <2>10. ASSUME ~strewn' PROVE (PurgeInv /\ StoredInv)'
    <3>1. ~strewn /\ Access!Purging = {} /\ PurgeInv /\ StoredInv
      BY <1>1, <2>2, <2>10 DEF AccessInv, AccessTypes
    <3>2. Access!Purging' = {}
      BY <1>5, <1>6, <2>2, <2>8, <3>1
    <3>3. \A v \in Requests : asks'[v].phase \notin {"sole", "graph", "facts", "checkout"}
      BY <1>6, <3>2
    <3>4. \A v \in Requests : asks'[v].phase = "shared" => asks[v].phase = "shared"
      BY <2>2, <2>8
    <3>5. \A v \in Requests : ~Leaving(v) => ~Leaving(v)'
      BY <2>2, <2>8 DEF Leaving
    <3>6. PurgeInv'
      BY <1>7, <2>7, <3>1, <3>2, <3>3, <3>4, <3>5 DEF PurgeInv
    <3>7. \E v \in Requests : repoConn'[v] # None
      BY <2>5, <2>7
    <3>8. \A v \in Requests : repoConn'[v] # None /\ repoConn'[v].done => repoConn[v] # None /\ repoConn[v].done
      BY <2>4, <2>7
    <3>9. StoredInv'
      BY <1>2, <2>2, <3>1, <3>3, <3>7, <3>8, <1>7 DEF StoredInv
    <3> QED
      BY <3>6, <3>9
  <2>11. now.phase \in Phases /\ stored' \subseteq Access!Kept /\ strewn' \in BOOLEAN
    BY <1>1, <2>2 DEF Phases, AccessTypes
  <2> QED
    BY <1>4, <2>2, <2>7, <2>9, <2>10, <2>11
<1>12. CASE Access!DisconnectReads(w)
  <2>1. PICK phase : phase = IF Access!ConnectedElsewhere(w) THEN "shared" ELSE "sole"
    OBVIOUS
  <2>2. PICK now : now = [phase |-> phase]
    OBVIOUS
  <2>3. /\ repoConn[w] # None /\ asks[w].phase = "idle" /\ now.phase = phase /\ asks' = [asks EXCEPT ![w] = now]
        /\ strewn' = (strewn \/ Access!Storing \/ \E v \in Requests : asks[v].phase \in {"shared", "insert"})
        /\ UNCHANGED <<repoConn, stored>>
    BY <1>12, <2>1, <2>2 DEF Access!DisconnectReads, Access!Ask, Access!Idle
  <2>4. asks'[w] = now /\ \A v \in Requests \ {w} : asks'[v] = asks[v]
    BY <1>1, <2>3, AskWrites DEF AccessTypes
  <2>5. ASSUME ~strewn' PROVE (PurgeInv /\ StoredInv)'
    <3>1. ~strewn /\ PurgeInv /\ StoredInv /\ job.phase = "idle" /\ \A v \in Requests : asks[v].phase # "shared"
      BY <1>1, <2>3, <2>5 DEF AccessInv, AccessTypes, Access!Storing
    <3>2. \A v \in Requests : asks[v].phase \notin {"sole", "graph", "facts", "checkout"}
      BY <1>7, <2>3, <3>1 DEF PurgeInv
    <3>3. \A v \in Requests \ {w} : asks'[v].phase \notin {"sole", "shared", "graph", "facts", "checkout"}
      BY <2>4, <3>1, <3>2
    <3>4. \A v \in Requests \ {w} : ~Leaving(v)'
      BY <3>3 DEF Leaving
    <3>5. phase \in {"shared", "sole"} /\ asks'[w].phase = phase
      BY <2>1, <2>3, <2>4
    <3>6. IF phase = "shared" THEN \E v \in Requests \ {w} : repoConn[v] # None
          ELSE \A v \in Requests \ {w} : repoConn[v] = None
      BY <2>1 DEF Access!ConnectedElsewhere
    <3>7. Access!Purging' \subseteq {w}
      BY <1>6, <3>3
    <3>8. PurgeInv'
      BY <1>2, <1>7, <2>3, <3>1, <3>3, <3>4, <3>5, <3>6, <3>7 DEF PurgeInv
    <3>9. StoredInv'
      BY <1>2, <1>7, <2>3, <3>1, <3>3, <3>5 DEF StoredInv
    <3> QED
      BY <3>8, <3>9
  <2>6. now.phase \in Phases /\ now.phase # "insert" /\ stored' \subseteq Access!Kept /\ strewn' \in BOOLEAN
        /\ repoConn' \in [Requests -> {None} \cup Connection(changes)]
    BY <1>1, <2>1, <2>3 DEF Phases, AccessTypes
  <2> QED
    BY <1>4, <2>3, <2>5, <2>6
<1>13. CASE Access!Delete(w)
  <2>1. PICK phase : phase = IF asks[w].phase = "sole" THEN "graph" ELSE "idle"
    OBVIOUS
  <2>2. PICK now : now = [phase |-> phase]
    OBVIOUS
  <2>3. /\ asks[w].phase \in {"shared", "sole"} /\ now.phase = phase /\ asks' = [asks EXCEPT ![w] = now]
        /\ repoConn' = [repoConn EXCEPT ![w] = None] /\ UNCHANGED <<stored, strewn>>
    BY <1>13, <2>1, <2>2 DEF Access!Delete, Access!Go, Access!Idle
  <2>4. asks'[w] = now /\ \A v \in Requests \ {w} : asks'[v] = asks[v]
    BY <1>1, <2>3, AskWrites DEF AccessTypes
  <2>5. repoConn'[w] = None /\ (\A v \in Requests \ {w} : repoConn'[v] = repoConn[v])
        /\ repoConn' \in [Requests -> {None} \cup Connection(changes)]
    BY <1>1, <2>3 DEF AccessTypes
  <2>6. ASSUME ~strewn' PROVE (PurgeInv /\ StoredInv)'
    <3>1. PurgeInv /\ StoredInv
      BY <2>3, <2>6 DEF AccessInv
    <3>2. CASE asks[w].phase = "sole"
      <4>1. (\A v \in Requests : repoConn'[v] = None) /\ job.phase = "idle"
        BY <2>5, <3>1, <3>2 DEF PurgeInv
      <4>2. \A v \in Requests : asks[v].phase # "shared"
        BY <3>1, <3>2 DEF PurgeInv, Leaving
      <4>3. \A v \in Requests \ {w} : asks[v].phase \notin {"sole", "graph", "facts", "checkout"}
        BY <1>5, <3>1, <3>2 DEF PurgeInv
      <4>4. \A v \in Requests \ {w} : asks'[v].phase \notin {"sole", "shared", "graph", "facts", "checkout"}
        BY <2>4, <4>2, <4>3
      <4>5. asks'[w].phase = "graph" /\ Access!Purging' = {w}
        BY <1>6, <2>1, <2>3, <2>4, <3>2, <4>4
      <4>6. PurgeInv'
        BY <1>2, <1>7, <4>1, <4>4, <4>5 DEF PurgeInv
      <4>7. StoredInv'
        BY <1>2, <2>3, <3>1, <4>1, <4>4, <4>5 DEF StoredInv
      <4> QED
        BY <4>6, <4>7
    <3>3. CASE asks[w].phase = "shared"
      <4>1. PICK u \in Requests \ {w} : repoConn[u] # None /\ ~Leaving(u)
        BY <3>1, <3>3 DEF PurgeInv
      <4>2. \A v \in Requests : asks[v].phase \notin {"sole", "graph", "facts", "checkout"}
        BY <1>7, <3>1, <4>1 DEF PurgeInv, Leaving
      <4>3. asks'[w].phase = "idle"
        BY <2>1, <2>3, <2>4, <3>3
      <4>4. \A v \in Requests : asks'[v].phase \notin {"sole", "graph", "facts", "checkout"}
        BY <2>4, <4>2, <4>3
      <4>5. Access!Purging' = {}
        BY <1>6, <4>4
      <4>6. \A v \in Requests : asks'[v].phase = "shared" => v # w /\ asks[v].phase = "shared"
        BY <2>4, <4>3
      <4>7. \A v \in Requests \ {w} : ~Leaving(v) => ~Leaving(v)'
        BY <2>4 DEF Leaving
      <4>8. \A v \in Requests : ~Leaving(v) => v # w
        BY <3>3 DEF Leaving
      <4>9. PurgeInv'
        BY <1>7, <2>5, <3>1, <4>4, <4>5, <4>6, <4>7, <4>8 DEF PurgeInv
      <4>10. StoredInv'
        BY <1>2, <2>3, <2>5, <3>1, <4>1, <4>4 DEF StoredInv
      <4> QED
        BY <4>9, <4>10
    <3> QED
      BY <2>3, <3>2, <3>3
  <2>7. now.phase \in Phases /\ now.phase # "insert" /\ stored' \subseteq Access!Kept /\ strewn' \in BOOLEAN
    BY <1>1, <2>1, <2>3 DEF Phases, AccessTypes
  <2>8. \A v \in Requests : repoConn'[v] # None => repoConn[v] # None /\ repoConn'[v] = repoConn[v]
    BY <2>5
  <2> QED
    BY <1>4, <2>3, <2>5, <2>6, <2>7, <2>8
<1>14. CASE Access!Purge(w)
  <2>1. PICK phase : phase = Access!After[asks[w].phase]
    OBVIOUS
  <2>2. PICK now : now = [phase |-> phase]
    OBVIOUS
  <2>3. /\ asks[w].phase \in Access!Kept /\ now.phase = phase /\ asks' = [asks EXCEPT ![w] = now]
        /\ stored' = stored \ {asks[w].phase} /\ UNCHANGED <<repoConn, strewn>>
    BY <1>14, <2>1, <2>2 DEF Access!Purge, Access!Go
  <2>4. asks'[w] = now /\ \A v \in Requests \ {w} : asks'[v] = asks[v]
    BY <1>1, <2>3, AskWrites DEF AccessTypes
  <2>5. /\ asks[w].phase = "graph" => phase = "facts"
        /\ asks[w].phase = "facts" => phase = "checkout"
        /\ asks[w].phase = "checkout" => phase = "idle"
    BY <2>1 DEF Access!After
  <2>6. ASSUME ~strewn' PROVE (PurgeInv /\ StoredInv)'
    <3>1. PurgeInv /\ StoredInv /\ stored \subseteq {"checkout", "graph", "facts"}
      BY <1>1, <1>7, <2>3, <2>6 DEF AccessInv, AccessTypes
    <3>2. (\A v \in Requests : repoConn[v] = None) /\ job.phase = "idle"
      BY <2>3, <3>1 DEF PurgeInv
    <3>3. \A v \in Requests \ {w} : asks[v].phase \notin {"sole", "graph", "facts", "checkout"}
      BY <1>5, <1>7, <2>3, <3>1 DEF PurgeInv
    <3>4. \A v \in Requests : asks[v].phase # "shared"
      BY <3>1, <3>2 DEF PurgeInv
    <3>5. \A v \in Requests \ {w} : asks'[v].phase \notin {"sole", "shared", "graph", "facts", "checkout"}
      BY <2>4, <3>3, <3>4
    <3>6. asks'[w].phase = phase /\ phase \in {"facts", "checkout", "idle"}
      BY <1>7, <2>3, <2>4, <2>5
    <3>7. Access!Purging' = IF phase = "idle" THEN {} ELSE {w}
      BY <1>6, <3>5, <3>6
    <3>8. PurgeInv'
      BY <1>2, <1>7, <2>3, <3>2, <3>5, <3>6, <3>7 DEF PurgeInv
    <3>9. /\ phase = "facts" => "graph" \notin stored'
          /\ phase = "checkout" => stored' \subseteq {"checkout"}
          /\ phase = "idle" => stored' = {}
      BY <1>7, <2>3, <2>5, <3>1 DEF StoredInv
    <3>10. StoredInv'
      BY <1>2, <2>3, <3>2, <3>5, <3>6, <3>7, <3>9 DEF StoredInv
    <3> QED
      BY <3>8, <3>10
  <2>7. now.phase \in Phases /\ now.phase # "insert" /\ stored' \subseteq Access!Kept /\ strewn' \in BOOLEAN
        /\ repoConn' \in [Requests -> {None} \cup Connection(changes)]
    BY <1>1, <1>7, <2>3, <2>5 DEF Phases, AccessTypes
  <2> QED
    BY <1>4, <2>3, <2>6, <2>7
<1>15. CASE Access!DisconnectDies(w)
  <2>1. PICK now : now = [phase |-> "idle"]
    OBVIOUS
  <2>2. now.phase = "idle" /\ asks' = [asks EXCEPT ![w] = now] /\ strewn' = TRUE /\ UNCHANGED <<repoConn, stored>>
    BY <1>15, <2>1 DEF Access!DisconnectDies, Access!Go, Access!Idle
  <2>3. now.phase \in Phases /\ stored' \subseteq Access!Kept
        /\ repoConn' \in [Requests -> {None} \cup Connection(changes)]
    BY <1>1, <2>2 DEF Phases, AccessTypes
  <2> QED
    BY <1>4, <2>2, <2>3
<1> QED
  BY <1>9, <1>10, <1>11, <1>12, <1>13, <1>14, <1>15

\* A step of the index run, which alone leaves the requests as they are.
LEMMA JobFrame ==
    ASSUME AccessInv, UNCHANGED <<app, sent, handling, asks, changes, blurred>>,
           strewn' \in BOOLEAN, fresh' \subseteq 1..(changes + 1), stored' \subseteq Access!Kept,
           repoConn' \in [Requests -> {None} \cup Connection(changes)],
           \A w \in Requests : repoConn'[w] # None =>
             /\ repoConn[w] # None /\ repoConn'[w].inst = repoConn[w].inst
             /\ \/ repoConn'[w].active = repoConn[w].active
                \/ repoConn[w].inst # app.id /\ repoConn'[w].active = FALSE,
           JobInv', ~strewn' => (PurgeInv /\ StoredInv)'
    PROVE  AccessInv'
<1>1. AccessTypes
  BY DEF AccessInv
<1>2. Pending' = Pending /\ (\A e \in sent' : e \notin handling') /\ asks' = [w \in Requests |-> asks'[w]]
  BY <1>1 DEF Pending, AccessTypes
<1> QED
  BY <1>2, AccessFrame

\* Nobody purges while a run is at work.
LEMMA RunsAlone ==
    ASSUME AccessInv, ~strewn, job.phase # "idle"
    PROVE  /\ Access!Purging = {} /\ \A w \in Requests : asks[w].phase \notin {"sole", "graph", "facts", "checkout"}
           /\ \E w \in Requests : repoConn[w] # None
<1>1. PurgeInv /\ StoredInv
  BY DEF AccessInv
<1>2. \A w \in Requests : asks[w].phase \notin {"sole", "graph", "facts", "checkout"}
  BY <1>1 DEF PurgeInv, Access!Kept
<1>3. Access!Purging = {}
  BY <1>2 DEF Access!Purging, Access!Kept
<1> QED
  BY <1>1, <1>2, <1>3 DEF StoredInv

\* What is kept changes, and the run's phase with it.
LEMMA RunStores ==
    ASSUME AccessInv, UNCHANGED <<app, sent, handling, asks, changes, blurred, repoConn, strewn>>,
           fresh' \subseteq 1..(changes + 1), stored' \subseteq Access!Kept, JobInv',
           job.phase # "idle", job'.phase # "idle",
           \/ job'.phase = "fail"
           \/ stored = Access!Kept => stored' = Access!Kept,
           job.phase = "fail" => job'.phase = "fail",
           job'.phase = "graph" => "checkout" \in stored',
           job'.phase = "facts" => {"checkout", "graph"} \subseteq stored',
           job'.phase = "release" => stored' = Access!Kept
    PROVE  AccessInv'
<1>1. AccessTypes
  BY DEF AccessInv
<1>2. ASSUME ~strewn' PROVE (PurgeInv /\ StoredInv)'
  <2>1. PurgeInv /\ StoredInv
    BY <1>2 DEF AccessInv
  <2>2. /\ Access!Purging = {} /\ \A w \in Requests : asks[w].phase \notin {"sole", "graph", "facts", "checkout"}
        /\ \E w \in Requests : repoConn[w] # None
    BY <1>2, RunsAlone
  <2>3. Access!Purging' = {}
    BY <2>2 DEF Access!Purging
  <2>4. PurgeInv'
    BY <2>1, <2>2, <2>3 DEF PurgeInv, Leaving, Access!Kept
  <2>5. StoredInv'
    BY <2>1, <2>2 DEF StoredInv
  <2> QED
    BY <2>4, <2>5
<1>3. /\ strewn' \in BOOLEAN /\ repoConn' \in [Requests -> {None} \cup Connection(changes)]
      /\ \A w \in Requests : repoConn'[w] # None =>
             /\ repoConn[w] # None /\ repoConn'[w].inst = repoConn[w].inst
             /\ repoConn'[w].active = repoConn[w].active
  BY <1>1 DEF AccessTypes
<1> QED
  BY <1>2, <1>3, JobFrame

LEMMA JobStep ==
    ASSUME AccessInv, NoneIsNoConnection,
           \/ Access!FindAny \/ Access!InstallationToken \/ Access!RevokeGone \/ Access!Store \/ Access!Release
           \/ \E id \in fresh : Access!TokenExpires(id)
           \/ \E works \in BOOLEAN : Access!Update(works)
    PROVE  AccessInv'
<1>1. AccessTypes /\ JobInv
  BY DEF AccessInv
<1>2. /\ app.id \in 0..(changes + 1) /\ changes \in Nat /\ strewn \in BOOLEAN /\ fresh \subseteq 1..(changes + 1)
      /\ stored \subseteq Access!Kept /\ repoConn \in [Requests -> {None} \cup Connection(changes)]
  BY <1>1 DEF AccessTypes
<1>3. Access!Kept = {"checkout", "graph", "facts"}
  BY DEF Access!Kept
<1>4. CASE Access!FindAny
  <2>1. PICK w \in Access!Connected : job' = [phase |-> "token", inst |-> repoConn[w].inst]
    BY <1>4 DEF Access!FindAny, Access!Step
  <2>2. w \in Requests /\ repoConn[w] \in Connection(changes) /\ repoConn[w] # None
    BY <1>2, <2>1 DEF Access!Connected
  <2>3. job'.phase = "token" /\ job'.inst = repoConn[w].inst /\ repoConn[w].inst \in 1..(changes + 1)
    BY <2>1, <2>2 DEF Connection
  <2>4. /\ UNCHANGED <<app, sent, handling, asks, changes, blurred, repoConn, fresh, stored>>
        /\ job.phase = "idle" /\ strewn' = (strewn \/ Access!Purging # {})
    BY <1>4 DEF Access!FindAny, Access!Step, Access!Idle
  <2>5. JobInv'
    BY <2>3, <2>4 DEF JobInv
  <2>6. ASSUME ~strewn' PROVE (PurgeInv /\ StoredInv)'
    <3>1. ~strewn /\ Access!Purging = {} /\ PurgeInv /\ StoredInv
      BY <1>2, <2>4, <2>6 DEF AccessInv
    <3>2. \A v \in Requests : asks[v].phase \notin {"sole", "graph", "facts", "checkout"}
      BY <1>3, <3>1 DEF Access!Purging
    <3>3. Access!Purging' = Access!Purging
      BY <2>4 DEF Access!Purging
    <3>4. PurgeInv'
      BY <1>3, <2>4, <3>1, <3>2, <3>3 DEF PurgeInv, Leaving
    <3>5. StoredInv'
      BY <2>2, <2>3, <2>4, <3>1, <3>2, <1>3 DEF StoredInv
    <3> QED
      BY <3>4, <3>5
  <2>7. strewn' \in BOOLEAN
    BY <1>2, <2>4
  <2> QED
    BY <1>2, <2>4, <2>5, <2>6, <2>7, JobFrame
<1>5. CASE Access!InstallationToken
  <2>1. job.phase = "token" /\ job.inst \in 1..(changes + 1)
    BY <1>1, <1>5 DEF Access!InstallationToken, JobInv
  <2>2. /\ UNCHANGED <<app, sent, handling, asks, changes, blurred, repoConn, stored, strewn>>
        /\ fresh' \in {fresh, fresh \cup {job.inst}}
    BY <1>5 DEF Access!InstallationToken, Access!Step
  <2>3. \/ job'.phase = "checkout" /\ job'.inst = job.inst
        \/ job'.phase = "gone" /\ job'.inst = job.inst /\ job.inst # app.id
        \/ job'.phase = "fail"
    BY <1>5 DEF Access!InstallationToken, Access!Step
  <2>4. JobInv'
    BY <2>1, <2>2, <2>3 DEF JobInv
  <2>5. fresh' \subseteq 1..(changes + 1) /\ stored' \subseteq Access!Kept
    BY <1>2, <2>1, <2>2
  <2> QED
    BY <2>1, <2>2, <2>3, <2>4, <2>5, RunStores
<1>6. CASE Access!RevokeGone
  <2>1. job.phase = "gone" /\ job.inst # app.id /\ job'.phase = "fail"
    BY <1>1, <1>6 DEF Access!RevokeGone, Access!Step, JobInv
  <2>2. /\ UNCHANGED <<app, sent, handling, asks, changes, blurred, fresh, stored, strewn>>
        /\ repoConn' = [w \in Requests |-> IF repoConn[w] # None /\ repoConn[w].inst = job.inst
                          THEN [repoConn[w] EXCEPT !.active = FALSE] ELSE repoConn[w]]
    BY <1>6 DEF Access!RevokeGone, Access!Step, Access!SetAccessStatus
  <2>3. ASSUME NEW w \in Requests
        PROVE  /\ repoConn'[w] \in {None} \cup Connection(changes)
               /\ repoConn[w] = None <=> repoConn'[w] = None
               /\ repoConn[w] # None =>
                    /\ repoConn'[w].inst = repoConn[w].inst /\ repoConn'[w].done = repoConn[w].done
                    /\ \/ repoConn'[w].active = repoConn[w].active
                       \/ repoConn[w].inst # app.id /\ repoConn'[w].active = FALSE
    <3>1. CASE repoConn[w] # None /\ repoConn[w].inst = job.inst
      <4>1. PICK c \in Connection(changes) : c = repoConn[w]
        BY <1>2, <3>1
      <4>2. repoConn'[w] = [c EXCEPT !.active = FALSE]
        BY <2>2, <3>1, <4>1
      <4>3. repoConn'[w] \in Connection(changes) /\ repoConn'[w].inst = c.inst /\ repoConn'[w].done = c.done
            /\ repoConn'[w].active = FALSE
        BY <4>2 DEF Connection
      <4>4. None \notin Connection(changes)
        BY <1>2 DEF Connection, NoneIsNoConnection
      <4> QED
        BY <2>1, <3>1, <4>1, <4>3, <4>4
    <3>2. CASE ~(repoConn[w] # None /\ repoConn[w].inst = job.inst)
      <4>1. repoConn'[w] = repoConn[w]
        BY <2>2, <3>2
      <4> QED
        BY <1>2, <4>1
    <3> QED
      BY <3>1, <3>2
  <2>4. repoConn' \in [Requests -> {None} \cup Connection(changes)]
    <3>1. repoConn' = [w \in Requests |-> repoConn'[w]]
      BY <2>2
    <3> QED
      BY <2>3, <3>1
  <2>5. ASSUME ~strewn' PROVE (PurgeInv /\ StoredInv)'
    <3>1. PurgeInv /\ StoredInv
      BY <2>2, <2>5 DEF AccessInv
    <3>2. /\ Access!Purging = {} /\ \A w \in Requests : asks[w].phase \notin {"sole", "graph", "facts", "checkout"}
          /\ \E w \in Requests : repoConn[w] # None
      BY <2>1, <2>2, <2>5, RunsAlone
    <3>3. Access!Purging' = {}
      BY <2>2, <3>2 DEF Access!Purging
    <3>4. PurgeInv'
      BY <1>3, <2>2, <2>3, <3>1, <3>2, <3>3 DEF PurgeInv, Leaving
    <3>5. StoredInv'
      BY <2>1, <2>2, <2>3, <3>1, <3>2 DEF StoredInv
    <3> QED
      BY <3>4, <3>5
  <2>6. JobInv' /\ strewn' \in BOOLEAN /\ fresh' \subseteq 1..(changes + 1) /\ stored' \subseteq Access!Kept
    BY <1>2, <2>1, <2>2 DEF JobInv
  <2>7. \A w \in Requests : repoConn'[w] # None =>
             /\ repoConn[w] # None /\ repoConn'[w].inst = repoConn[w].inst
             /\ \/ repoConn'[w].active = repoConn[w].active
                \/ repoConn[w].inst # app.id /\ repoConn'[w].active = FALSE
    BY <2>3
  <2> QED
    BY <2>2, <2>4, <2>5, <2>6, <2>7, JobFrame
<1>7. CASE Access!Store
  <2>1. /\ UNCHANGED <<app, sent, handling, asks, changes, blurred, repoConn, fresh, strewn>>
        /\ job.phase \in {"graph", "facts"} /\ stored' = stored \cup {job.phase}
        /\ job'.phase = IF job.phase = "graph" THEN "facts" ELSE "release"
    BY <1>7 DEF Access!Store, Access!Step
  <2>2. JobInv'
    BY <2>1 DEF JobInv
  <2>3. stored' \subseteq Access!Kept
    BY <1>2, <1>3, <2>1
  <2>4. CASE ~strewn
    <3>1. StoredInv
      BY <2>4 DEF AccessInv
    <3>2. /\ job'.phase = "facts" => {"checkout", "graph"} \subseteq stored'
          /\ job'.phase = "release" => stored' = Access!Kept
          /\ stored = Access!Kept => stored' = Access!Kept
      BY <1>2, <1>3, <2>1, <3>1 DEF StoredInv
    <3> QED
      BY <1>2, <2>1, <2>2, <2>3, <3>2, RunStores
  <2>5. CASE strewn
    BY <1>2, <2>1, <2>2, <2>3, <2>5, JobFrame
  <2> QED
    BY <2>4, <2>5
<1>8. ASSUME NEW works \in BOOLEAN, Access!Update(works) PROVE AccessInv'
  <2>1. /\ UNCHANGED <<app, sent, handling, asks, changes, blurred, repoConn, fresh, strewn>>
        /\ job.phase = "checkout"
        /\ stored' = IF works THEN stored \cup {"checkout"} ELSE stored \ {"checkout"}
        /\ job'.phase = IF works THEN "graph" ELSE "fail"
    BY <1>8 DEF Access!Update, Access!Step
  <2>2. JobInv' /\ stored' \subseteq Access!Kept
    BY <1>2, <1>3, <2>1 DEF JobInv
  <2>3. /\ job'.phase = "graph" => "checkout" \in stored'
        /\ job'.phase = "fail" \/ (stored = Access!Kept => stored' = Access!Kept)
    BY <1>3, <2>1
  <2> QED
    BY <1>2, <2>1, <2>2, <2>3, RunStores
<1>9. CASE Access!Release
  <2>1. PICK ok \in BOOLEAN : ok = (job.phase = "release")
    OBVIOUS
  <2>2. /\ UNCHANGED <<app, sent, handling, asks, changes, blurred, fresh, stored, strewn>>
        /\ job.phase \in {"release", "fail"} /\ job'.phase = "idle"
        /\ repoConn' = [w \in Requests |-> IF repoConn[w] = None THEN None ELSE [repoConn[w] EXCEPT !.done = ok]]
    BY <1>9, <2>1 DEF Access!Release, Access!Step, Access!Idle
  <2>3. ASSUME NEW w \in Requests
        PROVE  /\ repoConn'[w] \in {None} \cup Connection(changes)
               /\ repoConn[w] = None <=> repoConn'[w] = None
               /\ repoConn[w] # None =>
                    /\ repoConn'[w].inst = repoConn[w].inst /\ repoConn'[w].done = ok
                    /\ repoConn'[w].active = repoConn[w].active
    <3>1. CASE repoConn[w] # None
      <4>1. PICK c \in Connection(changes) : c = repoConn[w]
        BY <1>2, <3>1
      <4>2. repoConn'[w] = [c EXCEPT !.done = ok]
        BY <2>2, <3>1, <4>1
      <4>3. repoConn'[w] \in Connection(changes) /\ repoConn'[w].inst = c.inst /\ repoConn'[w].done = ok
            /\ repoConn'[w].active = c.active
        BY <4>2 DEF Connection
      <4>4. None \notin Connection(changes)
        BY <1>2 DEF Connection, NoneIsNoConnection
      <4> QED
        BY <3>1, <4>1, <4>3, <4>4
    <3>2. CASE repoConn[w] = None
      BY <2>2, <3>2
    <3> QED
      BY <3>1, <3>2
  <2>4. repoConn' \in [Requests -> {None} \cup Connection(changes)]
    <3>1. repoConn' = [w \in Requests |-> repoConn'[w]]
      BY <2>2
    <3> QED
      BY <2>3, <3>1
  <2>5. ASSUME ~strewn' PROVE (PurgeInv /\ StoredInv)'
    <3>1. PurgeInv /\ StoredInv
      BY <2>2, <2>5 DEF AccessInv
    <3>2. /\ Access!Purging = {} /\ \A w \in Requests : asks[w].phase \notin {"sole", "graph", "facts", "checkout"}
          /\ \E w \in Requests : repoConn[w] # None
      BY <2>2, <2>5, RunsAlone
    <3>3. Access!Purging' = {}
      BY <2>2, <3>2 DEF Access!Purging
    <3>4. PurgeInv'
      BY <1>3, <2>2, <2>3, <3>1, <3>2, <3>3 DEF PurgeInv, Leaving
    <3>5. ok => stored = Access!Kept
      BY <2>1, <3>1 DEF StoredInv
    <3>6. \A w \in Requests : repoConn'[w] # None /\ repoConn'[w].done => stored' = Access!Kept
      BY <2>2, <2>3, <3>5
    <3>7. StoredInv'
      BY <2>2, <2>3, <3>2, <3>6 DEF StoredInv
    <3> QED
      BY <3>4, <3>7
  <2>6. JobInv' /\ strewn' \in BOOLEAN /\ fresh' \subseteq 1..(changes + 1) /\ stored' \subseteq Access!Kept
    BY <1>2, <2>2 DEF JobInv
  <2> QED
    BY <2>2, <2>3, <2>4, <2>5, <2>6, JobFrame
<1>10. ASSUME NEW id \in fresh, Access!TokenExpires(id) PROVE AccessInv'
  <2>1. /\ UNCHANGED <<app, sent, handling, repoConn, asks, job, stored, changes, requests, blurred, strewn>>
        /\ fresh' = fresh \ {id}
    BY <1>10 DEF Access!TokenExpires
  <2>2. JobInv' /\ (~strewn' => (PurgeInv /\ StoredInv)')
    BY <2>1 DEF AccessInv, JobInv, PurgeInv, StoredInv, Leaving, Access!Purging
  <2> QED
    BY <1>2, <2>1, <2>2, JobFrame
<1> QED
  BY <1>4, <1>5, <1>6, <1>7, <1>8, <1>9, <1>10

LEMMA AccessStep ==
    ASSUME AccessInv, NoneIsNoConnection, [Access!Next]_Access!vars
    PROVE  AccessInv'
<1>1. CASE UNCHANGED Access!vars
  BY <1>1 DEF Access!vars, AccessInv, AccessTypes, JobInv, Followed, Course, ToldFrom, Shown, Pending,
              PurgeInv, StoredInv, Leaving, Access!Purging
<1>2. CASE Access!Next
  BY <1>2, TellsStep, ApplyStep, WebhookStep, HandlerDiesStep, RequestStep, JobStep DEF Access!Next
<1> QED
  BY <1>1, <1>2

LEMMA AccessHolds == ASSUME AccessInv, NoneIsNoConnection PROVE Access!AccessSafe
<1>1. AccessTypes /\ changes \in 0..2 /\ changes \in Nat
  BY DEF AccessInv, AccessTypes
<1>2. Access!Connected = {w \in Requests : repoConn[w] # None}
  BY DEF Access!Connected
<1>3. Access!TypeOK
  <2>1. app \in [id : 0..3, suspended : BOOLEAN, has : BOOLEAN]
    BY <1>1 DEF AccessTypes
  <2>2. \A w \in Access!Connected : repoConn[w] \in [inst : 1..3, active : BOOLEAN, done : BOOLEAN]
    <3>1. \A w \in Access!Connected : repoConn[w] \in Connection(changes)
      BY <1>1, <1>2 DEF AccessTypes
    <3>2. Connection(changes) \subseteq [inst : 1..3, active : BOOLEAN, done : BOOLEAN]
      BY <1>1 DEF Connection
    <3> QED
      BY <3>1, <3>2
  <2>3. stored \subseteq Access!Kept /\ fresh \subseteq 1..3
    BY <1>1 DEF AccessTypes
  <2> QED
    BY <2>1, <2>2, <2>3 DEF Access!TypeOK
<1>4. ASSUME Access!Told, ~blurred, NEW w \in Access!Connected
      PROVE  repoConn[w].active = Access!Readable /\ (Access!Readable => repoConn[w].inst = app.id)
  <2>1. Pending = {}
    BY <1>4 DEF Access!Told, Pending
  <2>2. PICK k \in 0..changes : \E h : Course(h) /\ ToldFrom(k, h) /\ Shown(k, h)
    BY <1>4 DEF AccessInv, Followed
  <2>3. PICK h : Course(h) /\ ToldFrom(k, h) /\ Shown(k, h)
    BY <2>2
  <2>4. k = changes
    <3>1. k \notin k..(changes - 1)
      BY <2>1, <2>3 DEF ToldFrom
    <3> QED
      BY <1>1, <3>1
  <2>5. PICK j \in k..changes : Fits(repoConn[w], h[j])
    BY <1>2, <2>3 DEF Shown
  <2>6. h[j] = app
    <3>1. j = changes
      BY <1>1, <2>4
    <3> QED
      BY <2>3, <3>1 DEF Course
  <2>7. Access!Readable <=> Reads(app)
    BY DEF Access!Readable, Reads
  <2>8. Access!Readable = Reads(app)
    BY DEF Access!Readable, Reads
  <2> QED
    BY <2>5, <2>6, <2>7, <2>8 DEF Fits, Reads
<1>5. ASSUME Access!Quiet, ~strewn
      PROVE  /\ Access!Connected = {} => stored = {}
             /\ \A w \in Access!Connected : repoConn[w].done => stored = Access!Kept
  <2>1. (\A w \in Requests : asks[w].phase = "idle") /\ job.phase = "idle" /\ StoredInv
    BY <1>5 DEF Access!Quiet, Access!Idle, AccessInv
  <2>2. Access!Purging = {}
    BY <2>1 DEF Access!Purging, Access!Kept
  <2> QED
    BY <1>2, <2>1, <2>2 DEF StoredInv
<1> QED
  BY <1>3, <1>4, <1>5 DEF Access!AccessSafe, Access!AccessFollows, Access!KeptWhileConnected

-----------------------------------------------------------------------------
\* RepoAccess's own behaviours: a connection follows GitHub and what is kept
\* follows the connections.
THEOREM AccessIsFollowed ==
    ASSUME NoneIsNoConnection PROVE Access!Spec => []Access!AccessSafe
<1>1. Access!Init => AccessInv
  BY AccessInit
<1>2. AccessInv /\ [Access!Next]_Access!vars => AccessInv'
  BY AccessStep
<1>3. AccessInv => Access!AccessSafe
  BY AccessHolds
<1> QED
  BY <1>1, <1>2, <1>3, PTL DEF Access!Spec

LEMMA AccessPartStep == ASSUME [MCNext]_allVars, part = "access" PROVE [Access!Next]_Access!vars
<1>1. AccessNext => Access!Next
  <2>1. ASSUME NEW id \in 1..3, Access!TokenExpires(id) PROVE Access!Next
    BY <2>1 DEF Access!Next, Access!TokenExpires
  <2>2. ASSUME NEW e, Access!FirstDelivery(e) \/ Access!Apply(e) \/ Access!HandlerFails(e) \/ Access!HandlerDies(e)
        PROVE  Access!Next
    BY <2>2 DEF Access!Next, Access!FirstDelivery, Access!Apply, Access!HandlerFails, Access!HandlerDies,
                Access!Handled
  <2> QED
    BY <2>1, <2>2 DEF AccessNext, Access!Next
<1>2. UNCHANGED allVars => UNCHANGED Access!vars
  BY DEF allVars, ofAccess, Access!vars
<1> QED
  BY <1>1, <1>2, SessionsPart, CodesPart, GrantsPart, MembersPart, AccountsPart
  DEF MCNext, InSessions, InCodes, InGrants, InMembers, InAccounts

\* webhooks.py:105, jobs.py:78, service.py: once GitHub's events have been applied in
\* the order they happened, a connection is active exactly when the repository can
\* be read, through the installation it names; and a repository's checkout, graph
\* and facts are there while somebody who was told so has it connected, and gone
\* with the last connection. None is no connection.
THEOREM AccessFollowsGitHub == ASSUME NoneIsNoConnection PROVE MCSpec => []AccessSafe
<1> DEFINE I == part = "access" => AccessInv
<1>1. MCInit => I
  BY AccessInit DEF MCInit
<1>2. I /\ [MCNext]_allVars => I'
  BY PartStep, AccessPartStep, AccessStep
<1>3. I => AccessSafe
  BY AccessHolds DEF AccessSafe
<1> QED
  BY <1>1, <1>2, <1>3, PTL DEF MCSpec

-----------------------------------------------------------------------------
(***************************************************************************)
(* Accounts: the inductive invariant                                       *)
(***************************************************************************)

\* Where the task of a merge may be: before its record, moving what the absorbed account
\* has, once the seat, the rows and the token are moved, and when nobody runs it.
Locking == {"none", "lock1", "lock2", "undo", "mine", "theirs", "insert"}
TokenMoved == {"free", "take", "remove", "revoke again", "finish"}
RowsMoved == {"token", "drop token", "move token"} \cup TokenMoved
SeatMoved == {"rows"} \cup RowsMoved
Moving == {"drop", "revoke", "forget", "seat", "spare"} \cup SeatMoved
Ended == {"unlock", "over", "dead"}

Id == Github \cup Emails \cup {None}
Acc == Accs \cup {None}
Account == [here : BOOLEAN, methods : Accounts!Methods, lock : Requests \cup {None}]
Merge == [status : {"none", "running", "done"}, survivor : Acc, absorbed : Acc, mine : Accounts!Methods, theirs : Accounts!Methods]
Errand == [pc : {"idle", "upsert", "session", "token", "linked", "proven", "propose", "add", "unlink", "work", "over"},
           user : Acc, other : Acc, kind : Accounts!Kinds, id : Id]

\* None is no merge and no sign-in method, and the ids of accounts are numbers.
MergeConstants == None \notin Requests \cup Github \cup Emails \cup Accs /\ Accs \subseteq Nat

AccountTypes ==
    /\ account \in [Accs -> Account]
    /\ merge \in [Requests -> Merge]
    /\ mergeTask \in [Requests -> Locking \cup Moving \cup Ended]
    /\ accReq \in [Requests -> Errand] /\ proposal \in [Accs -> Errand]
    /\ seat \in [Accs -> 0..2] /\ owner \in [Rows -> Accs]
    /\ token \subseteq Accs /\ signedIn \subseteq Accs
    /\ known \subseteq Github \cup Emails

\* A request that writes for an account has one, and one that adds a method has that;
\* whoever is proven by an account is another one.
ErrandInv(e) ==
    /\ e.pc \in {"session", "token", "linked", "proven", "propose", "add", "unlink", "work"} => e.user \in Accs
    /\ e.pc \in {"proven", "propose"} => e.other \in Accs \ {e.user}
    /\ e.pc = "upsert" => e.id \in Github
    /\ e.pc = "add" => e.id \in IF e.kind = "github" THEN Github ELSE Emails
AskedInv ==
    /\ \A q \in Requests : ErrandInv(accReq[q])
    /\ \A u \in Accs : proposal[u] # Accounts!Idle => proposal[u].user \in Accs \ {u}

\* An account that is not there has nothing; no two have one method.
UniqueInv ==
    /\ \A u \in Accs : ~account[u].here => account[u].methods = Accounts!NoMethods /\ account[u].lock = None
    /\ \A u, w \in Accs, k \in Accounts!Kinds :
         account[u].methods[k] = account[w].methods[k] /\ account[u].methods[k] # None => u = w

\* Merge m has the account u, which is there.
Has(m, u) == account[u].here /\ account[u].lock = m

\* What the place of a merge's task says of its record and of its two locks.
RecordInv(m) ==
    /\ mergeTask[m] = "none" => merge[m] = Accounts!NoMerge
    /\ mergeTask[m] \in Locking \ {"theirs", "insert"} => merge[m].mine = Accounts!NoMethods
    /\ mergeTask[m] \in Locking \ {"insert"} => merge[m].theirs = Accounts!NoMethods
    /\ mergeTask[m] # "none" => merge[m].survivor \in Accs /\ merge[m].absorbed \in Accs \ {merge[m].survivor}
    /\ mergeTask[m] \in Locking => merge[m].status = "none"
    /\ mergeTask[m] \in Moving => merge[m].status = "running"
    /\ mergeTask[m] = "unlock" => merge[m].status = "done"
    /\ mergeTask[m] = "over" => merge[m].status \in {"none", "done"}
StandInv(m) ==
    /\ mergeTask[m] = "lock2" => Has(m, Accounts!FirstOf(m))
    /\ mergeTask[m] \in {"mine", "theirs", "insert"} \/ merge[m].status = "running" => Has(m, merge[m].survivor)
    /\ mergeTask[m] \in {"mine", "theirs", "insert"} => Has(m, merge[m].absorbed)
    /\ merge[m].status = "running" => ~account[merge[m].absorbed].here \/ Has(m, merge[m].absorbed)
    /\ mergeTask[m] \in {"revoke again", "finish"} \/ merge[m].status = "done" => ~account[merge[m].absorbed].here
LockInv ==
    /\ \A u \in Accs : account[u].lock # None => u \in Accounts!Pair(account[u].lock) /\ mergeTask[account[u].lock] # "none"
    /\ \A m \in Requests : RecordInv(m) /\ StandInv(m)

\* What is moved by now, or was moved, stays moved, but for what is late.
Reached(m, tasks) == mergeTask[m] \in tasks \/ merge[m].status = "done"
MovedInv(m) ==
    LET a == merge[m].absorbed
    IN /\ Reached(m, SeatMoved) => seat[a] = 0
       /\ Reached(m, RowsMoved) => \A r \in Rows : owner[r] = a => <<"row", a>> \in accLate
       /\ Reached(m, TokenMoved) => (a \in token => <<"token", a>> \in accLate)
       /\ Reached(m, {"finish"}) => (a \in signedIn => <<"session", a>> \in accLate)

\* While nobody changed the methods of an account that is held: they are those of the
\* snapshots until the merge frees them, and gives them to the survivor.
Tidy == \A u \in Accs : <<"method", u>> \notin accLate
SnapshotInv(m) ==
    LET mine == account[merge[m].survivor].methods
        theirs == account[merge[m].absorbed].methods
        merged == Accounts!Merged(merge[m].mine, merge[m].theirs)
    IN /\ mergeTask[m] \in {"theirs", "insert"} => merge[m].mine = mine
       /\ mergeTask[m] = "insert" => merge[m].theirs = theirs
       /\ merge[m].status = "running" => mine \in {merge[m].mine, merged} /\ theirs \in {merge[m].theirs, Accounts!NoMethods}
       /\ mergeTask[m] \in {"take", "remove", "revoke again", "finish"} => theirs = Accounts!NoMethods
       /\ mergeTask[m] \in {"remove", "revoke again", "finish"} => mine = merged
LateInv == \A u \in Accs : <<"method", u>> \in accLate => \E m \in Requests : mergeTask[m] # "none" /\ u \in Accounts!Pair(m)

\* A method is known to an account, or to a merge that runs.
Agreed == \A m \in Requests : ~Accounts!Conflicts(merge[m].mine, merge[m].theirs)
HeldBy(v) == \E u \in Accs, k \in Accounts!Kinds : account[u].methods[k] = v
OnRecord(v) == \E m \in Requests, k \in Accounts!Kinds : merge[m].status = "running" /\ merge[m].theirs[k] = v
MethodsInv ==
    /\ LateInv
    /\ Tidy => \A m \in Requests : SnapshotInv(m)
    /\ Tidy /\ Agreed => \A v \in known : HeldBy(v) \/ OnRecord(v)

MergeInv == AccountTypes /\ AskedInv /\ UniqueInv /\ LockInv /\ (\A m \in Requests : MovedInv(m)) /\ MethodsInv

-----------------------------------------------------------------------------
\* Sign-in methods: a record of the kinds, and what the operators make of them.
LEMMA MethodsAreFunctions ==
    /\ \A ms \in Accounts!Methods, k \in Accounts!Kinds : ms[k] \in Id
    /\ Accounts!NoMethods \in Accounts!Methods
    /\ \A k \in Accounts!Kinds : Accounts!NoMethods[k] = None
    /\ \A ms, ns \in Accounts!Methods : (\A k \in Accounts!Kinds : ms[k] = ns[k]) => ms = ns
  BY DEF Accounts!Methods, Accounts!Kinds, Accounts!NoMethods, Id

LEMMA MergedMethods ==
    ASSUME NEW ms \in Accounts!Methods, NEW ns \in Accounts!Methods
    PROVE  /\ Accounts!Merged(ms, ns) \in Accounts!Methods
           /\ \A k \in Accounts!Kinds : Accounts!Merged(ms, ns)[k] = IF ms[k] # None THEN ms[k] ELSE ns[k]
  BY DEF Accounts!Methods, Accounts!Kinds, Accounts!Merged

\* One method of a kind put in the place of another.
LEMMA MethodPut ==
    ASSUME NEW ms \in Accounts!Methods, NEW k \in Accounts!Kinds, NEW v,
           v \in (IF k = "github" THEN Github ELSE Emails) \cup {None}
    PROVE  /\ [ms EXCEPT ![k] = v] \in Accounts!Methods
           /\ [ms EXCEPT ![k] = v][k] = v
           /\ \A j \in Accounts!Kinds \ {k} : [ms EXCEPT ![k] = v][j] = ms[j]
<1>1. CASE k = "github"
  BY <1>1 DEF Accounts!Methods, Accounts!Kinds
<1>2. CASE k = "email"
  BY <1>2 DEF Accounts!Methods, Accounts!Kinds
<1> QED
  BY <1>1, <1>2 DEF Accounts!Kinds

\* The two accounts of a merge, by their order.
LEMMA FirstAndSecond ==
    ASSUME MergeConstants, NEW m \in Requests,
           merge[m].survivor \in Accs, merge[m].absorbed \in Accs \ {merge[m].survivor}
    PROVE  /\ Accounts!FirstOf(m) \in Accs /\ Accounts!SecondOf(m) \in Accs
           /\ Accounts!Pair(m) = {Accounts!FirstOf(m), Accounts!SecondOf(m)}
           /\ Accounts!FirstOf(m) # Accounts!SecondOf(m)
<1> DEFINE s == merge[m].survivor
           a == merge[m].absorbed
<1>1. s \in Nat /\ a \in Nat /\ s # a
  BY DEF MergeConstants
<1>2. Accounts!Pair(m) = {s, a}
  BY DEF Accounts!Pair
<1> HIDE DEF s, a
<1>3. CASE s < a
  <2>1. Accounts!FirstOf(m) = s
    BY <1>1, <1>2, <1>3 DEF Accounts!FirstOf
  <2>2. Accounts!SecondOf(m) = a
    BY <1>1, <1>2, <1>3 DEF Accounts!SecondOf
  <2> QED
    BY <2>1, <2>2, <1>1, <1>2 DEF s, a
<1>4. CASE a < s
  <2>1. Accounts!FirstOf(m) = a
    BY <1>1, <1>2, <1>4 DEF Accounts!FirstOf
  <2>2. Accounts!SecondOf(m) = s
    BY <1>1, <1>2, <1>4 DEF Accounts!SecondOf
  <2> QED
    BY <2>1, <2>2, <1>1, <1>2 DEF s, a
<1> QED
  BY <1>1, <1>3, <1>4

LEMMA NoMergeType ==
    /\ Accounts!NoMerge \in Merge
    /\ Accounts!NoMerge.status = "none" /\ Accounts!NoMerge.survivor = None
    /\ Accounts!NoMerge.absorbed = None
    /\ Accounts!NoMerge.mine = Accounts!NoMethods /\ Accounts!NoMerge.theirs = Accounts!NoMethods
<1> USE MethodsAreFunctions
<1> QED
  BY DEF Merge, Acc, Accounts!NoMerge

LEMMA IdleErrand ==
    Accounts!Idle \in Errand /\ Accounts!Idle.pc = "idle" /\ Accounts!Idle.user = None
  BY DEF Errand, Acc, Id, Accounts!Idle, Accounts!Kinds

LEMMA MergeInit == ASSUME MergeConstants PROVE Accounts!Init => MergeInv
<1> SUFFICES ASSUME Accounts!Init PROVE MergeInv
  OBVIOUS
<1> USE MethodsAreFunctions, NoMergeType, IdleErrand
<1>1. /\ account \in [Accs -> [here : BOOLEAN, methods : Accounts!Methods, lock : {None}]]
      /\ \A u \in Accs : account[u].here <=> account[u].methods # Accounts!NoMethods
      /\ \A u \in Accs : ~Accounts!Taken(u, account[u].methods)
      /\ proposal = [u \in Accs |-> Accounts!Idle] /\ merge = [m \in Requests |-> Accounts!NoMerge]
      /\ mergeTask = [m \in Requests |-> "none"] /\ accReq = [q \in Requests |-> Accounts!Idle]
      /\ signedIn = Accounts!Present /\ seat \in [Accs -> 0..2] /\ owner \in [Rows -> Accounts!Present]
      /\ token = {u \in Accs : account[u].methods["github"] # None}
      /\ accLate = {} /\ known = {account[u].methods[k] : u \in Accs, k \in Accounts!Kinds} \ {None}
  BY DEF Accounts!Init, Accounts!Roles
<1>2. \A u \in Accs : account[u] \in Account /\ account[u].methods \in Accounts!Methods /\ account[u].lock = None
  <2> HIDE DEF Accounts!Methods
  <2> QED
    BY <1>1 DEF Account
<1>3. AccountTypes
  <2>1. known \subseteq Github \cup Emails
    BY <1>1, <1>2 DEF Id
  <2>2. account \in [Accs -> Account] /\ owner \in [Rows -> Accs] /\ signedIn \subseteq Accs /\ token \subseteq Accs
    BY <1>1, <1>2 DEF Accounts!Present
  <2> QED
    BY <1>1, <2>1, <2>2 DEF AccountTypes, Locking
<1>4. AskedInv
  BY <1>1 DEF AskedInv, ErrandInv
<1>5. UniqueInv
  BY <1>1, <1>2 DEF UniqueInv, Accounts!Taken, Accounts!Present
<1>6. LockInv
  BY <1>1, <1>2 DEF LockInv, RecordInv, StandInv, Moving, SeatMoved, RowsMoved, TokenMoved
<1>7. \A m \in Requests : MovedInv(m)
  BY <1>1 DEF MovedInv, Reached, SeatMoved, RowsMoved, TokenMoved
<1>8. LateInv /\ \A m \in Requests : SnapshotInv(m)
  BY <1>1 DEF LateInv, SnapshotInv
<1>9. \A v \in known : HeldBy(v)
  BY <1>1 DEF HeldBy
<1> QED
  BY <1>3, <1>4, <1>5, <1>6, <1>7, <1>8, <1>9 DEF MergeInv, MethodsInv

-----------------------------------------------------------------------------
\* The types of the fields, so that nobody has to unfold the records.
LEMMA MergeFields ==
    ASSUME AccountTypes
    PROVE  /\ \A u \in Accs : /\ account[u].here \in BOOLEAN /\ account[u].methods \in Accounts!Methods
                              /\ account[u].lock \in Requests \cup {None}
           /\ \A m \in Requests : /\ merge[m].status \in {"none", "running", "done"}
                                  /\ merge[m].survivor \in Acc /\ merge[m].absorbed \in Acc
                                  /\ merge[m].mine \in Accounts!Methods /\ merge[m].theirs \in Accounts!Methods
           /\ \A q \in Requests : /\ accReq[q] \in Errand /\ accReq[q].kind \in Accounts!Kinds
                                  /\ accReq[q].user \in Acc /\ accReq[q].other \in Acc /\ accReq[q].id \in Id
<1> HIDE DEF Accounts!Methods, Accounts!Kinds
<1> QED
  BY DEF AccountTypes, Account, Merge, Errand

\* The record of a merge that began names two accounts; of one that runs, the
\* survivor is there and held, and the absorbed account is held or gone.
LEMMA RunningMerge ==
    ASSUME AccountTypes, LockInv, NEW m \in Requests, merge[m].status # "none"
    PROVE  /\ mergeTask[m] # "none" /\ mergeTask[m] \notin Locking
           /\ merge[m].survivor \in Accs /\ merge[m].absorbed \in Accs \ {merge[m].survivor}
           /\ merge[m].status = "running" => Has(m, merge[m].survivor)
           /\ ~account[merge[m].absorbed].here
              \/ (merge[m].status = "running" /\ Has(m, merge[m].absorbed))
<1>1. RecordInv(m) /\ StandInv(m)
  BY DEF LockInv
<1>2. mergeTask[m] \notin Locking /\ mergeTask[m] # "none"
  BY <1>1 DEF RecordInv, Locking
<1>3. merge[m].survivor \in Accs /\ merge[m].absorbed \in Accs \ {merge[m].survivor}
  BY <1>1, <1>2 DEF RecordInv
<1>4. merge[m].status = "running" => Has(m, merge[m].survivor)
  BY <1>1 DEF StandInv
<1>5. CASE merge[m].status = "done"
  BY <1>1, <1>2, <1>3, <1>5 DEF StandInv
<1>6. CASE merge[m].status = "running"
  BY <1>1, <1>2, <1>3, <1>4, <1>6 DEF StandInv
<1> QED
  BY <1>2, <1>3, <1>4, <1>5, <1>6, MergeFields

\* What one merge holds no other merge has.
LEMMA OneMergeHas ==
    ASSUME NEW m, NEW n, NEW u, Has(m, u), Has(n, u) PROVE m = n
  BY DEF Has

\* The absorbed account of a merge that began survives in no other that runs.
LEMMA SurvivorApart ==
    ASSUME AccountTypes, LockInv, NEW m \in Requests, NEW n \in Requests,
           merge[m].status = "running", merge[n].status # "none"
    PROVE  merge[n].absorbed # merge[m].survivor
<1>1. CASE m = n
  BY <1>1, RunningMerge
<1>2. CASE m # n
  <2>1. Has(m, merge[m].survivor)
    BY RunningMerge
  <2>2. ~account[merge[n].absorbed].here \/ Has(n, merge[n].absorbed)
    BY RunningMerge
  <2> QED
    BY <2>1, <2>2, <1>2 DEF Has
<1> QED
  BY <1>1, <1>2

LEMMA ReachedBegan ==
    ASSUME LockInv, NEW n \in Requests,
           \/ Reached(n, SeatMoved) \/ Reached(n, RowsMoved) \/ Reached(n, TokenMoved) \/ Reached(n, {"finish"})
    PROVE  merge[n].status # "none"
<1>1. Reached(n, Moving)
  BY DEF Reached, Moving, SeatMoved, RowsMoved, TokenMoved
<1>2. RecordInv(n)
  BY DEF LockInv
<1> QED
  BY <1>1, <1>2 DEF Reached, RecordInv

LEMMA ForgetTypes ==
    ASSUME AccountTypes, AskedInv, NEW u, Accounts!Forget(u)
    PROVE  /\ proposal' \in [Accs -> Errand]
           /\ \A w \in Accs : proposal'[w] # Accounts!Idle => proposal'[w].user \in Accs \ {w}
<1>1. proposal \in [Accs -> Errand] /\ Accounts!Idle \in Errand
  BY IdleErrand DEF AccountTypes
<1>2. \A w \in Accs : proposal'[w] \in {proposal[w], Accounts!Idle}
  BY DEF Accounts!Forget
<1>3. proposal' = [s \in Accs |-> proposal'[s]]
  BY DEF Accounts!Forget
<1>4. \A w \in Accs : proposal'[w] \in Errand
  BY <1>1, <1>2
<1> QED
  BY <1>2, <1>3, <1>4 DEF AskedInv

Further == {"dead", "revoke", "forget", "seat", "spare", "rows", "token", "drop token", "move token", "free", "finish"}

LEMMA UniqueRests == ASSUME UniqueInv, account' = account PROVE UniqueInv'
BY DEF UniqueInv

\* A step of a merge that writes neither an account nor the record: its task goes on,
\* or stops, and what it moves is moved.
LEMMA MoverStep ==
    ASSUME MergeConstants, MergeInv, NEW m \in Requests, NEW pc \in Further,
           mergeTask[m] # "none", pc = "dead" \/ merge[m].status = "running",
           pc = "finish" => mergeTask[m] = "revoke again",
           mergeTask' = [mergeTask EXCEPT ![m] = pc],
           UNCHANGED <<account, merge, accReq, accLate, known>>,
           proposal' \in [Accs -> Errand],
           \A u \in Accs : proposal'[u] # Accounts!Idle => proposal'[u].user \in Accs \ {u},
           seat' \in [Accs -> 0..2], owner' \in [Rows -> Accs], token' \subseteq Accs, signedIn' \subseteq Accs,
           \A n \in Requests : MovedInv(n)'
    PROVE  MergeInv'
<1> USE DEF MergeInv
<1>t. /\ mergeTask \in [Requests -> Locking \cup Moving \cup Ended]
      /\ mergeTask'[m] = pc /\ \A n \in Requests \ {m} : mergeTask'[n] = mergeTask[n]
  BY DEF AccountTypes
<1>n. pc \notin Locking
  BY DEF Further, Locking
<1>1. AccountTypes'
  <2>1. mergeTask' \in [Requests -> Locking \cup Moving \cup Ended]
    BY <1>t DEF Further, Moving, SeatMoved, RowsMoved, TokenMoved, Ended
  <2> QED
    BY <2>1 DEF AccountTypes
<1>2. AskedInv'
  BY DEF AskedInv
<1>3. UniqueInv'
  <2>1. UniqueInv /\ account' = account
    OBVIOUS
  <2> QED
    BY <2>1, UniqueRests
<1>4. LockInv'
  <2>1. \A n \in Requests : RecordInv(n) /\ StandInv(n)
    BY DEF LockInv
  <2>0. \A n \in Requests : Accounts!FirstOf(n)' = Accounts!FirstOf(n)
    BY DEF Accounts!FirstOf, Accounts!Pair
  <2>2. ASSUME NEW n \in Requests \ {m} PROVE RecordInv(n)' /\ StandInv(n)'
    <3>1. mergeTask'[n] = mergeTask[n] /\ Accounts!FirstOf(n)' = Accounts!FirstOf(n)
      BY <2>0, <1>t
    <3>2. RecordInv(n)'
      BY <2>1, <3>1 DEF RecordInv
    <3>3. \A u : Has(n, u)' <=> Has(n, u)
      BY DEF Has
    <3>4. Has(n, Accounts!FirstOf(n))' <=> Has(n, Accounts!FirstOf(n))
      BY <3>1 DEF Has
    <3>5. StandInv(n)'
      BY <2>1, <3>1, <3>3, <3>4, Zenon DEF StandInv
    <3> QED
      BY <3>2, <3>5
  <2>3. RecordInv(m)'
    <3>1. merge[m].survivor \in Accs /\ merge[m].absorbed \in Accs \ {merge[m].survivor}
      BY <2>1 DEF RecordInv
    <3>2. pc = "dead" => pc \notin Moving
      BY DEF Moving, SeatMoved, RowsMoved, TokenMoved
    <3>3. pc \notin {"none", "unlock", "over"}
      BY DEF Further
    <3> QED
      BY <3>1, <3>2, <3>3, <1>t, <1>n, Zenon DEF RecordInv
  <2>4. StandInv(m)'
    <3>1. pc = "finish" => ~account[merge[m].absorbed].here
      BY <2>1 DEF StandInv
    <3> QED
      BY <2>1, <3>1, <1>t DEF StandInv, Further, Has
  <2>5. \A u \in Accs : account[u].lock # None =>
            /\ u \in Accounts!Pair(account[u].lock) /\ mergeTask[account[u].lock] # "none"
            /\ account[u].lock \in Requests
    BY MergeFields DEF LockInv
  <2>6. \A n \in Requests : mergeTask[n] # "none" => mergeTask'[n] # "none"
    BY <1>t DEF Further
  <2> QED
    BY <2>2, <2>3, <2>4, <2>5, <2>6 DEF LockInv, Accounts!Pair
<1>5. MethodsInv'
  <2>1. LateInv'
    <3>1. \A n \in Requests : mergeTask[n] # "none" => mergeTask'[n] # "none"
      BY <1>t DEF Further
    <3> QED
      BY <3>1 DEF MethodsInv, LateInv, Accounts!Pair
  <2>2. Tidy' => Tidy
    BY DEF Tidy
  <2>3. ASSUME Tidy, NEW n \in Requests, SnapshotInv(n) PROVE SnapshotInv(n)'
    <3>1. CASE n = m
      <4>1. pc \notin {"theirs", "insert", "take", "remove", "revoke again"}
        BY DEF Further
      <4>2. pc = "finish" => mergeTask[m] = "revoke again"
        OBVIOUS
      <4> HIDE DEF Further
      <4> QED
        BY <2>3, <3>1, <1>t, <4>1, <4>2 DEF SnapshotInv, Accounts!Merged
    <3>2. CASE n # m
      BY <2>3, <3>2, <1>t DEF SnapshotInv, Accounts!Merged
    <3> QED
      BY <3>1, <3>2
  <2>4. Agreed' => Agreed
    BY DEF Agreed, Accounts!Conflicts
  <2>5. \A v \in known : (HeldBy(v) => HeldBy(v)') /\ (OnRecord(v) => OnRecord(v)')
    BY DEF HeldBy, OnRecord
  <2> QED
    BY <2>1, <2>2, <2>3, <2>4, <2>5 DEF MethodsInv
<1> QED
  BY <1>1, <1>2, <1>3, <1>4, <1>5

\* No account but u has one of these methods.
NobodyElses(u, ms) ==
    \A w \in Accs \ {u}, k \in Accounts!Kinds : ms[k] # None => account[w].methods[k] # ms[k]

\* A step of a merge that writes an account nobody else holds, and goes on with its
\* task: what holds of every other merge is left alone.
LEMMA AccountStep ==
    ASSUME MergeConstants, MergeInv, NEW m \in Requests, NEW u \in Accs, NEW rec \in Account,
           NEW pc \in (Locking \cup Moving \cup Ended) \ {"none"}, mergeTask[m] # "none",
           account' = [account EXCEPT ![u] = rec], mergeTask' = [mergeTask EXCEPT ![m] = pc],
           UNCHANGED <<proposal, merge, accReq, signedIn, seat, owner, token, accLate, known>>,
           account[u].lock \in {None, m}, rec.lock \in {None, m}, rec.here => account[u].here,
           rec.lock = m => u \in Accounts!Pair(m),
           ~rec.here => rec.methods = Accounts!NoMethods /\ rec.lock = None,
           NobodyElses(u, rec.methods),
           account[u].here /\ rec.methods # account[u].methods => account[u].lock = m,
           RecordInv(m)', StandInv(m)', MovedInv(m)', Tidy => SnapshotInv(m)',
           Tidy /\ Agreed => \A v \in known : HeldBy(v)' \/ OnRecord(v)'
    PROVE  MergeInv'
<1> USE DEF MergeInv
<1>t. /\ mergeTask' \in [Requests -> Locking \cup Moving \cup Ended]
      /\ mergeTask'[m] = pc /\ \A n \in Requests \ {m} : mergeTask'[n] = mergeTask[n]
      /\ \A n \in Requests : mergeTask[n] # "none" => mergeTask'[n] # "none"
  BY DEF AccountTypes
<1>a. /\ account' \in [Accs -> Account] /\ account'[u] = rec
      /\ \A w \in Accs \ {u} : account'[w] = account[w]
  BY DEF AccountTypes
<1>f. \A n \in Requests : Accounts!FirstOf(n)' = Accounts!FirstOf(n)
  BY DEF Accounts!FirstOf, Accounts!Pair
<1>r. \A n \in Requests : RecordInv(n) /\ StandInv(n)
  BY DEF LockInv
<1>h. ASSUME NEW n \in Requests \ {m}, NEW w \in Accs, Has(n, w) PROVE w # u /\ Has(n, w)'
  <2>1. n # None
    BY DEF MergeConstants
  <2>2. w # u
    BY <1>h, <2>1 DEF Has
  <2> QED
    BY <2>2, <1>h, <1>a DEF Has
<1>g. \A w \in Accs : ~account[w].here => ~account'[w].here
  BY <1>a
<1>1. AccountTypes'
  BY <1>t, <1>a DEF AccountTypes
<1>2. AskedInv'
  BY DEF AskedInv
<1>3. UniqueInv'
  <2>1. \A w \in Accs : ~account'[w].here => account'[w].methods = Accounts!NoMethods /\ account'[w].lock = None
    BY <1>a DEF UniqueInv
  <2>2. ASSUME NEW v \in Accs, NEW w \in Accs, NEW k \in Accounts!Kinds,
               account'[v].methods[k] = account'[w].methods[k], account'[v].methods[k] # None
        PROVE  v = w
    BY <2>2, <1>a DEF UniqueInv, NobodyElses
  <2> QED
    BY <2>1, <2>2 DEF UniqueInv
<1>4. LockInv'
  <2>1. ASSUME NEW n \in Requests \ {m} PROVE RecordInv(n)' /\ StandInv(n)'
    <3>1. mergeTask'[n] = mergeTask[n] /\ Accounts!FirstOf(n)' = Accounts!FirstOf(n)
      BY <1>t, <1>f
    <3>2. RecordInv(n)'
      BY <1>r, <3>1 DEF RecordInv
    <3>3. mergeTask[n] # "none" => merge[n].survivor \in Accs /\ merge[n].absorbed \in Accs \ {merge[n].survivor}
      BY <1>r DEF RecordInv
    <3>4. mergeTask[n] # "none" \/ merge[n].status = "none"
      BY <1>r, NoMergeType DEF RecordInv
    <3>5. mergeTask[n] = "lock2" => Has(n, Accounts!FirstOf(n))'
      <4>1. SUFFICES ASSUME mergeTask[n] = "lock2" PROVE Has(n, Accounts!FirstOf(n))'
        OBVIOUS
      <4>2. Has(n, Accounts!FirstOf(n)) /\ Accounts!FirstOf(n) \in Accs
        BY <4>1, <1>r, <3>3, FirstAndSecond DEF StandInv
      <4> QED
        BY <4>2, <1>h, <1>f DEF Has
    <3>6. mergeTask[n] \in {"mine", "theirs", "insert"} => Has(n, merge[n].survivor)' /\ Has(n, merge[n].absorbed)'
      <4>1. SUFFICES ASSUME mergeTask[n] \in {"mine", "theirs", "insert"}
                     PROVE  Has(n, merge[n].survivor)' /\ Has(n, merge[n].absorbed)'
        OBVIOUS
      <4>2. Has(n, merge[n].survivor) /\ Has(n, merge[n].absorbed)
        BY <4>1, <1>r DEF StandInv
      <4>3. merge[n].survivor \in Accs /\ merge[n].absorbed \in Accs
        BY <4>1, <3>3
      <4> QED
        BY <4>2, <4>3, <1>h DEF Has
    <3>7. merge[n].status = "running" =>
            Has(n, merge[n].survivor)' /\ (~account'[merge[n].absorbed].here \/ Has(n, merge[n].absorbed)')
      <4>1. SUFFICES ASSUME merge[n].status = "running"
                     PROVE  /\ Has(n, merge[n].survivor)'
                            /\ ~account'[merge[n].absorbed].here \/ Has(n, merge[n].absorbed)'
        OBVIOUS
      <4>2. Has(n, merge[n].survivor) /\ (~account[merge[n].absorbed].here \/ Has(n, merge[n].absorbed))
        BY <4>1, <1>r DEF StandInv
      <4>3. merge[n].survivor \in Accs /\ merge[n].absorbed \in Accs
        BY <4>1, <3>3, <3>4
      <4> QED
        BY <4>2, <4>3, <1>h, <1>g DEF Has
    <3>8. mergeTask[n] \in {"revoke again", "finish"} \/ merge[n].status = "done" => ~account'[merge[n].absorbed].here
      BY <1>r, <1>g, <3>3, <3>4 DEF StandInv
    <3>9. merge' = merge
      OBVIOUS
    <3>10. StandInv(n)'
      BY <3>1, <3>5, <3>6, <3>7, <3>8, <3>9 DEF StandInv, Has
    <3> QED
      BY <3>2, <3>10
  <2>2. ASSUME NEW w \in Accs, account'[w].lock # None
        PROVE  /\ w \in {merge[account'[w].lock].survivor, merge[account'[w].lock].absorbed}
               /\ mergeTask'[account'[w].lock] # "none"
    <3>1. CASE w = u
      BY <2>2, <3>1, <1>a, <1>t DEF Accounts!Pair
    <3>2. CASE w # u
      <4>1. account'[w].lock = account[w].lock /\ account[w].lock \in Requests
        BY <2>2, <3>2, <1>a, MergeFields
      <4> QED
        BY <2>2, <4>1, <1>t DEF LockInv, Accounts!Pair
    <3> QED
      BY <3>1, <3>2
  <2>3. \A w \in Accs : account'[w].lock # None => w \in {merge'[account'[w].lock].survivor, merge'[account'[w].lock].absorbed}
    BY <2>2
  <2>4. RecordInv(m)' /\ StandInv(m)'
    OBVIOUS
  <2> HIDE DEF MergeInv
  <2> QED
    BY <2>1, <2>2, <2>3, <2>4 DEF LockInv, Accounts!Pair
<1>5. ASSUME NEW n \in Requests PROVE MovedInv(n)'
  BY <1>t DEF MovedInv, Reached
<1>6. MethodsInv'
  <2>1. LateInv'
    BY <1>t DEF MethodsInv, LateInv, Accounts!Pair
  <2>2. (Tidy' => Tidy) /\ (Agreed' => Agreed)
    BY DEF Tidy, Agreed, Accounts!Conflicts
  <2>3. ASSUME Tidy, NEW n \in Requests \ {m} PROVE SnapshotInv(n)'
    <3>1. SnapshotInv(n)
      BY <2>3 DEF MethodsInv
    <3>2. mergeTask'[n] = mergeTask[n] /\ RecordInv(n) /\ StandInv(n)
      BY <1>t, <1>r
    <3>3. CASE mergeTask[n] \notin {"theirs", "insert"} /\ merge[n].status # "running"
      <4>1. mergeTask[n] \notin {"take", "remove", "revoke again", "finish"}
        BY <3>2, <3>3 DEF RecordInv, Moving, SeatMoved, RowsMoved, TokenMoved
      <4> QED
        BY <3>2, <3>3, <4>1 DEF SnapshotInv
    <3>4. CASE mergeTask[n] \in {"theirs", "insert"} \/ merge[n].status = "running"
      <4>1. mergeTask[n] # "none"
        BY <3>2, <3>4, NoMergeType DEF RecordInv
      <4>2. merge[n].survivor \in Accs /\ merge[n].absorbed \in Accs
        BY <3>2, <4>1 DEF RecordInv
      <4>3. Has(n, merge[n].survivor) /\ (~account[merge[n].absorbed].here \/ Has(n, merge[n].absorbed))
        BY <3>2, <3>4 DEF StandInv
      <4>4. account'[merge[n].survivor] = account[merge[n].survivor]
        BY <4>2, <4>3, <1>h, <1>a
      <4>5. account'[merge[n].absorbed].methods = account[merge[n].absorbed].methods
        <5>1. CASE merge[n].absorbed # u
          BY <5>1, <4>2, <1>a
        <5>2. CASE merge[n].absorbed = u
          <6>1. ~account[u].here
            BY <5>2, <4>3, <4>2, <1>h
          <6>2. rec.methods = Accounts!NoMethods /\ account[u].methods = Accounts!NoMethods
            BY <6>1 DEF UniqueInv
          <6> QED
            BY <5>2, <6>2, <1>a
        <5> QED
          BY <5>1, <5>2
      <4>6. merge' = merge
        OBVIOUS
      <4>7. Accounts!Merged(merge'[n].mine, merge'[n].theirs) = Accounts!Merged(merge[n].mine, merge[n].theirs)
        BY <4>6
      <4> HIDE DEF MergeInv
      <4> QED
        BY <3>1, <3>2, <4>4, <4>5, <4>6, <4>7 DEF SnapshotInv
    <3> QED
      BY <3>3, <3>4
  <2>4. Tidy /\ Agreed => \A v \in known' : HeldBy(v)' \/ OnRecord(v)'
    OBVIOUS
  <2> QED
    BY <2>1, <2>2, <2>3, <2>4 DEF MethodsInv
<1> QED
  BY <1>1, <1>2, <1>3, <1>4, <1>5, <1>6

\* A step of a merge that writes its record and goes on with its task.
LEMMA RecordStep ==
    ASSUME MergeConstants, MergeInv, NEW m \in Requests, NEW rec \in Merge,
           NEW pc \in (Locking \cup Moving \cup Ended) \ {"none"},
           merge' = [merge EXCEPT ![m] = rec], mergeTask' = [mergeTask EXCEPT ![m] = pc],
           UNCHANGED <<account, proposal, accReq, signedIn, seat, owner, token, accLate, known>>,
           mergeTask[m] # "none" => rec.survivor = merge[m].survivor /\ rec.absorbed = merge[m].absorbed,
           RecordInv(m)', StandInv(m)', MovedInv(m)', Tidy => SnapshotInv(m)',
           Tidy /\ Agreed' => \A v \in known : HeldBy(v)' \/ OnRecord(v)'
    PROVE  MergeInv'
<1> USE DEF MergeInv
<1>t. /\ mergeTask' \in [Requests -> Locking \cup Moving \cup Ended]
      /\ mergeTask'[m] = pc /\ \A n \in Requests \ {m} : mergeTask'[n] = mergeTask[n]
      /\ \A n \in Requests : mergeTask[n] # "none" => mergeTask'[n] # "none"
  BY DEF AccountTypes
<1>a. /\ merge' \in [Requests -> Merge] /\ merge'[m] = rec
      /\ \A n \in Requests \ {m} : merge'[n] = merge[n]
  BY DEF AccountTypes
<1>p. \A n \in Requests : mergeTask[n] # "none" =>
        merge'[n].survivor = merge[n].survivor /\ merge'[n].absorbed = merge[n].absorbed
  BY <1>a
<1>f. \A n \in Requests \ {m} : Accounts!FirstOf(n)' = Accounts!FirstOf(n)
  BY <1>a DEF Accounts!FirstOf, Accounts!Pair
<1>1. AccountTypes'
  BY <1>t, <1>a DEF AccountTypes
<1>2. AskedInv'
  BY DEF AskedInv
<1>3. UniqueInv'
  BY DEF UniqueInv
<1>4. LockInv'
  <2>1. ASSUME NEW n \in Requests \ {m} PROVE RecordInv(n)' /\ StandInv(n)'
    <3>1. mergeTask'[n] = mergeTask[n] /\ Accounts!FirstOf(n)' = Accounts!FirstOf(n) /\ merge'[n] = merge[n]
      BY <1>t, <1>f, <1>a
    <3>2. RecordInv(n) /\ StandInv(n)
      BY DEF LockInv
    <3>3. RecordInv(n)'
      BY <3>1, <3>2 DEF RecordInv
    <3>4. \A u : Has(n, u)' <=> Has(n, u)
      BY DEF Has
    <3>5. Has(n, Accounts!FirstOf(n))' <=> Has(n, Accounts!FirstOf(n))
      BY <3>1 DEF Has
    <3>6. /\ Has(n, merge[n].survivor)' <=> Has(n, merge[n].survivor)
          /\ Has(n, merge[n].absorbed)' <=> Has(n, merge[n].absorbed)
      BY <3>1 DEF Has
    <3>7. account' = account
      OBVIOUS
    <3> HIDE DEF MergeInv
    <3>8. StandInv(n)'
      BY <3>1, <3>2, <3>5, <3>6, <3>7 DEF StandInv
    <3> QED
      BY <3>3, <3>8
  <2>2. ASSUME NEW u \in Accs, account[u].lock # None
        PROVE  u \in {merge'[account[u].lock].survivor, merge'[account[u].lock].absorbed}
               /\ mergeTask'[account[u].lock] # "none"
    <3>1. account[u].lock \in Requests /\ mergeTask[account[u].lock] # "none"
      BY <2>2, MergeFields DEF LockInv
    <3> QED
      BY <2>2, <3>1, <1>p, <1>t DEF LockInv, Accounts!Pair
  <2>3. account' = account /\ RecordInv(m)' /\ StandInv(m)'
    OBVIOUS
  <2> HIDE DEF MergeInv
  <2> QED
    BY <2>1, <2>2, <2>3 DEF LockInv, Accounts!Pair
<1>5. ASSUME NEW n \in Requests PROVE MovedInv(n)'
  BY <1>t, <1>a DEF MovedInv, Reached
<1>6. MethodsInv'
  <2>1. LateInv'
    <3>1. ASSUME NEW u \in Accs, <<"method", u>> \in accLate
          PROVE  \E n \in Requests : mergeTask'[n] # "none" /\ u \in {merge'[n].survivor, merge'[n].absorbed}
      <4>1. PICK n \in Requests : mergeTask[n] # "none" /\ u \in Accounts!Pair(n)
        BY <3>1 DEF MethodsInv, LateInv
      <4> QED
        BY <4>1, <1>p, <1>t DEF Accounts!Pair
    <3> QED
      BY <3>1 DEF LateInv, Accounts!Pair
  <2>2. Tidy' => Tidy
    BY DEF Tidy
  <2>3. ASSUME Tidy, NEW n \in Requests \ {m} PROVE SnapshotInv(n)'
    <3>1. SnapshotInv(n)
      BY <2>3 DEF MethodsInv
    <3>2. mergeTask'[n] = mergeTask[n] /\ merge'[n] = merge[n] /\ account' = account
      BY <1>t, <1>a
    <3> HIDE DEF MergeInv
    <3> QED
      BY <3>1, <3>2 DEF SnapshotInv
  <2>4. Tidy /\ Agreed' => \A v \in known' : HeldBy(v)' \/ OnRecord(v)'
    OBVIOUS
  <2>5. ASSUME Tidy' PROVE \A n \in Requests : SnapshotInv(n)'
    BY <2>2, <2>3, <2>5
  <2> QED
    BY <2>1, <2>2, <2>4, <2>5 DEF MethodsInv
<1> QED
  BY <1>1, <1>2, <1>3, <1>4, <1>5, <1>6

LEMMA ConfirmStep ==
    ASSUME MergeConstants, MergeInv, NEW m \in Requests, NEW u \in Accs, Accounts!Confirm(m, u)
    PROVE  MergeInv'
<1> USE DEF MergeInv
<1> DEFINE a == proposal[u].user
           rec == [merge[m] EXCEPT !.survivor = u, !.absorbed = a]
<1>1. /\ mergeTask[m] = "none" /\ merge' = [merge EXCEPT ![m].survivor = u, ![m].absorbed = a]
      /\ mergeTask' = [mergeTask EXCEPT ![m] = "lock1"] /\ proposal[u] # Accounts!Idle
      /\ UNCHANGED <<account, proposal, accReq, signedIn, seat, owner, token, accLate, known>>
  <2>1. UNCHANGED <<account, proposal, accReq, signedIn, seat, owner, token, accLate, known>>
    BY DEF Accounts!Confirm, Accounts!moved
  <2>2. merge' = [merge EXCEPT ![m].survivor = u, ![m].absorbed = a]
    BY DEF Accounts!Confirm
  <2> QED
    BY <2>1, <2>2 DEF Accounts!Confirm, Accounts!Goto
<1>2. a \in Accs \ {u}
  BY <1>1 DEF AskedInv
<1>3. merge[m] = Accounts!NoMerge
  BY <1>1 DEF LockInv, RecordInv
<1>4. rec \in Merge /\ rec.status = "none" /\ rec.survivor = u /\ rec.absorbed = a
      /\ rec.mine = Accounts!NoMethods /\ rec.theirs = Accounts!NoMethods
  <2> HIDE DEF Accounts!Methods, a
  <2> QED
    BY <1>2, <1>3, NoMergeType DEF Merge, Acc
<1>5. merge' = [merge EXCEPT ![m] = rec] /\ merge'[m] = rec /\ mergeTask'[m] = "lock1"
  BY <1>1 DEF AccountTypes
<1> HIDE DEF rec, a
<1>6. RecordInv(m)' /\ StandInv(m)'
  BY <1>2, <1>4, <1>5 DEF RecordInv, StandInv, Moving, SeatMoved, RowsMoved, TokenMoved
<1>7. MovedInv(m)' /\ SnapshotInv(m)'
  BY <1>4, <1>5 DEF MovedInv, Reached, SnapshotInv, SeatMoved, RowsMoved, TokenMoved
<1>8. ASSUME Tidy, Agreed', NEW v \in known PROVE HeldBy(v)' \/ OnRecord(v)'
  <2>1. Agreed
    <3>1. ~Accounts!Conflicts(merge[m].mine, merge[m].theirs)
      BY <1>3, NoMergeType, MethodsAreFunctions DEF Accounts!Conflicts
    <3>2. \A n \in Requests \ {m} : merge'[n] = merge[n]
      BY <1>5 DEF AccountTypes
    <3> QED
      BY <1>8, <3>1, <3>2 DEF Agreed
  <2>2. HeldBy(v) \/ OnRecord(v)
    BY <1>8, <2>1 DEF MethodsInv
  <2>3. HeldBy(v) => HeldBy(v)'
    BY <1>1 DEF HeldBy
  <2>4. OnRecord(v) => OnRecord(v)'
    <3>1. \A n \in Requests \ {m} : merge'[n] = merge[n]
      BY <1>5 DEF AccountTypes
    <3> QED
      BY <1>3, <3>1, NoMergeType DEF OnRecord
  <2> QED
    BY <2>2, <2>3, <2>4
<1>9. "lock1" \in (Locking \cup Moving \cup Ended) \ {"none"}
  BY DEF Locking
<1> HIDE DEF MergeInv
<1> QED
  BY <1>1, <1>4, <1>5, <1>6, <1>7, <1>8, <1>9, RecordStep

\* The places of a merge's task, told apart.
LEMMA Places ==
    /\ \A pc \in Locking : pc \notin Moving /\ pc \notin Ended
    /\ \A pc \in Moving : pc \notin Ended
    /\ TokenMoved \subseteq RowsMoved /\ RowsMoved \subseteq SeatMoved /\ SeatMoved \subseteq Moving
    /\ {"lock1", "lock2", "undo", "mine", "theirs", "insert"} \subseteq Locking
    /\ {"drop", "revoke", "forget", "seat", "spare", "rows", "token", "drop token", "move token",
        "free", "take", "remove", "revoke again", "finish"} \subseteq Moving
    /\ {"unlock", "over", "dead"} = Ended
  BY DEF Locking, Moving, Ended, SeatMoved, RowsMoved, TokenMoved

LEMMA SnapshotStep ==
    ASSUME MergeConstants, MergeInv, NEW m \in Requests, Accounts!Snapshot(m)
    PROVE  MergeInv'
<1> USE DEF MergeInv
<1> DEFINE s == merge[m].survivor
           a == merge[m].absorbed
<1>1. /\ mergeTask[m] \in {"mine", "theirs"}
      /\ UNCHANGED <<account, proposal, accReq, signedIn, seat, owner, token, accLate, known>>
  BY DEF Accounts!Snapshot, Accounts!moved
<1>2. RecordInv(m) /\ StandInv(m) /\ s \in Accs /\ a \in Accs \ {s} /\ Has(m, s) /\ Has(m, a)
      /\ merge[m].status = "none"
  BY <1>1 DEF LockInv, RecordInv, StandInv, Locking
<1>3. merge[m] \in Merge /\ account[s].methods \in Accounts!Methods /\ account[a].methods \in Accounts!Methods
  BY <1>2, MergeFields DEF AccountTypes
<1>4. (Agreed' => Agreed) /\ \A n \in Requests : ~Accounts!Conflicts(Accounts!NoMethods, merge[n].theirs)
                                                /\ ~Accounts!Conflicts(merge[n].mine, Accounts!NoMethods)
  <2>1. \A n \in Requests : ~Accounts!Conflicts(Accounts!NoMethods, merge[n].theirs)
                         /\ ~Accounts!Conflicts(merge[n].mine, Accounts!NoMethods)
    BY MethodsAreFunctions DEF Accounts!Conflicts
  <2>2. ~Accounts!Conflicts(merge[m].mine, merge[m].theirs)
    BY <1>1, <1>2, <2>1 DEF RecordInv, Locking
  <2>3. \A n \in Requests \ {m} : merge'[n] = merge[n]
    BY DEF Accounts!Snapshot, AccountTypes
  <2> QED
    BY <2>1, <2>2, <2>3 DEF Agreed
<1>5. ASSUME NEW rec \in Merge, merge' = [merge EXCEPT ![m] = rec], NEW pc \in {"theirs", "insert"},
             mergeTask' = [mergeTask EXCEPT ![m] = pc], rec.survivor = s, rec.absorbed = a, rec.status = "none",
             Tidy => rec.mine = account[s].methods, pc = "theirs" => rec.theirs = Accounts!NoMethods,
             pc = "insert" => rec.theirs = account[a].methods
      PROVE  MergeInv'
  <2>1. merge'[m] = rec /\ mergeTask'[m] = pc /\ \A n \in Requests \ {m} : merge'[n] = merge[n]
    BY <1>5 DEF AccountTypes
  <2>2. pc \in Locking /\ pc \notin Moving /\ pc \notin Ended /\ pc # "none"
    BY Places
  <2>3. RecordInv(m)'
    BY <1>2, <1>5, <2>1, <2>2 DEF RecordInv, Ended
  <2>4. StandInv(m)'
    <3>1. account'[s].here /\ account'[s].lock = m /\ account'[a].here /\ account'[a].lock = m
      BY <1>1, <1>2 DEF Has
    <3>2. merge'[m].survivor = s /\ merge'[m].absorbed = a /\ merge'[m].status = "none"
      BY <1>5, <2>1
    <3>3. mergeTask'[m] \in {"theirs", "insert"}
      BY <2>1
    <3> HIDE DEF s, a, MergeInv
    <3> QED
      BY <3>1, <3>2, <3>3 DEF StandInv, Has
  <2>5. MovedInv(m)'
    BY <1>5, <2>1, <2>2, Places DEF MovedInv, Reached
  <2>6. Tidy => SnapshotInv(m)'
    BY <1>1, <1>5, <2>1 DEF SnapshotInv
  <2>7. ASSUME Tidy, Agreed', NEW v \in known PROVE HeldBy(v)' \/ OnRecord(v)'
    <3>1. HeldBy(v) \/ OnRecord(v)
      BY <1>4, <2>7 DEF MethodsInv
    <3>2. HeldBy(v) => HeldBy(v)'
      BY <1>1 DEF HeldBy
    <3>3. OnRecord(v) => OnRecord(v)'
      BY <1>2, <2>1 DEF OnRecord
    <3> QED
      BY <3>1, <3>2, <3>3
  <2> HIDE DEF MergeInv
  <2> QED
    BY <1>1, <1>5, <2>2, <2>3, <2>4, <2>5, <2>6, <2>7, RecordStep
<1>6. CASE mergeTask[m] = "mine"
  <2> DEFINE rec == [merge[m] EXCEPT !.mine = account[s].methods]
  <2>1. merge' = [merge EXCEPT ![m] = rec] /\ mergeTask' = [mergeTask EXCEPT ![m] = "theirs"]
    BY <1>6 DEF Accounts!Snapshot, Accounts!Goto
  <2>2. /\ rec \in Merge /\ rec.survivor = s /\ rec.absorbed = a /\ rec.status = merge[m].status
        /\ rec.mine = account[s].methods /\ rec.theirs = merge[m].theirs
    <3> HIDE DEF Accounts!Methods, MergeInv
    <3> QED
      BY <1>3 DEF Merge
  <2>3. merge[m].theirs = Accounts!NoMethods
    BY <1>2, <1>6 DEF RecordInv, Locking
  <2> HIDE DEF rec, MergeInv
  <2> QED
    BY <2>1, <2>2, <2>3, <1>2, <1>5
<1>7. CASE mergeTask[m] = "theirs"
  <2> DEFINE rec == [merge[m] EXCEPT !.theirs = account[a].methods]
  <2>1. merge' = [merge EXCEPT ![m] = rec] /\ mergeTask' = [mergeTask EXCEPT ![m] = "insert"]
    BY <1>7 DEF Accounts!Snapshot, Accounts!Goto
  <2>2. /\ rec \in Merge /\ rec.survivor = s /\ rec.absorbed = a /\ rec.status = merge[m].status
        /\ rec.theirs = account[a].methods /\ rec.mine = merge[m].mine
    <3> HIDE DEF Accounts!Methods, MergeInv
    <3> QED
      BY <1>3 DEF Merge
  <2>3. Tidy => merge[m].mine = account[s].methods
    BY <1>2, <1>7 DEF MethodsInv, SnapshotInv
  <2> HIDE DEF rec, MergeInv
  <2> QED
    BY <2>1, <2>2, <2>3, <1>2, <1>5
<1> QED
  BY <1>1, <1>6, <1>7

LEMMA InsertMergeStep ==
    ASSUME MergeConstants, MergeInv, NEW m \in Requests, Accounts!InsertMerge(m)
    PROVE  MergeInv'
<1> USE DEF MergeInv
<1> DEFINE s == merge[m].survivor
           a == merge[m].absorbed
           rec == [merge[m] EXCEPT !.status = "running"]
<1>1. /\ mergeTask[m] = "insert" /\ merge' = [merge EXCEPT ![m] = rec]
      /\ mergeTask' = [mergeTask EXCEPT ![m] = "drop"]
      /\ UNCHANGED <<account, proposal, accReq, signedIn, seat, owner, token, accLate, known>>
  BY DEF Accounts!InsertMerge, Accounts!Goto, Accounts!moved
<1>2. s \in Accs /\ a \in Accs \ {s} /\ Has(m, s) /\ Has(m, a)
  BY <1>1 DEF LockInv, RecordInv, StandInv, Locking
<1>3. /\ rec \in Merge /\ rec.survivor = s /\ rec.absorbed = a /\ rec.status = "running"
      /\ rec.mine = merge[m].mine /\ rec.theirs = merge[m].theirs
  <2> HIDE DEF Accounts!Methods
  <2> QED
    BY DEF AccountTypes, Merge
<1> HIDE DEF rec
<1>4. merge'[m] = rec /\ mergeTask'[m] = "drop" /\ \A n \in Requests \ {m} : merge'[n] = merge[n]
  BY <1>1, <1>3 DEF AccountTypes
<1>5. "drop" \in Moving /\ "drop" \notin Locking /\ "drop" \notin Ended
  BY Places
<1>6. RecordInv(m)'
  BY <1>2, <1>3, <1>4, <1>5 DEF RecordInv, Ended
<1>7. StandInv(m)'
  <2>1. account'[s].here /\ account'[s].lock = m /\ account'[a].here /\ account'[a].lock = m
    BY <1>1, <1>2 DEF Has
  <2>2. merge'[m].survivor = s /\ merge'[m].absorbed = a /\ merge'[m].status = "running"
    BY <1>3, <1>4
  <2> HIDE DEF s, a, MergeInv
  <2> QED
    BY <2>1, <2>2, <1>4 DEF StandInv, Has
<1>8. MovedInv(m)'
  BY <1>3, <1>4 DEF MovedInv, Reached, SeatMoved, RowsMoved, TokenMoved
<1>9. Tidy => SnapshotInv(m)'
  <2>1. Tidy => account[s].methods = merge[m].mine /\ account[a].methods = merge[m].theirs
    BY <1>1 DEF MethodsInv, SnapshotInv
  <2> QED
    BY <2>1, <1>1, <1>3, <1>4 DEF SnapshotInv
<1>10. ASSUME Tidy, Agreed', NEW v \in known PROVE HeldBy(v)' \/ OnRecord(v)'
  <2>1. Agreed
    BY <1>3, <1>4, <1>10 DEF Agreed
  <2>2. HeldBy(v) \/ OnRecord(v)
    BY <2>1, <1>10 DEF MethodsInv
  <2>3. HeldBy(v) => HeldBy(v)'
    BY <1>1 DEF HeldBy
  <2>4. OnRecord(v) => OnRecord(v)'
    BY <1>3, <1>4 DEF OnRecord
  <2> QED
    BY <2>2, <2>3, <2>4
<1> HIDE DEF MergeInv
<1> QED
  BY <1>1, <1>3, <1>5, <1>6, <1>7, <1>8, <1>9, <1>10, RecordStep

LEMMA FinishMergeStep ==
    ASSUME MergeConstants, MergeInv, NEW m \in Requests, Accounts!FinishMerge(m)
    PROVE  MergeInv'
<1> USE DEF MergeInv
<1> DEFINE s == merge[m].survivor
           a == merge[m].absorbed
           rec == [merge[m] EXCEPT !.status = "done"]
<1>1. /\ mergeTask[m] = "finish" /\ merge' = [merge EXCEPT ![m] = rec]
      /\ mergeTask' = [mergeTask EXCEPT ![m] = "unlock"]
      /\ UNCHANGED <<account, proposal, accReq, signedIn, seat, owner, token, accLate, known>>
  BY DEF Accounts!FinishMerge, Accounts!Goto, Accounts!moved
<1>2. s \in Accs /\ a \in Accs \ {s} /\ Has(m, s) /\ ~account[a].here /\ merge[m].status = "running"
  <2>1. mergeTask[m] \in Moving /\ mergeTask[m] # "none"
    BY <1>1, Places
  <2> QED
    BY <1>1, <2>1 DEF LockInv, RecordInv, StandInv
<1>3. /\ rec \in Merge /\ rec.survivor = s /\ rec.absorbed = a /\ rec.status = "done"
      /\ rec.mine = merge[m].mine /\ rec.theirs = merge[m].theirs
  <2> HIDE DEF Accounts!Methods
  <2> QED
    BY DEF AccountTypes, Merge
<1> HIDE DEF rec
<1>4. merge'[m] = rec /\ mergeTask'[m] = "unlock" /\ \A n \in Requests \ {m} : merge'[n] = merge[n]
  BY <1>1, <1>3 DEF AccountTypes
<1>5. "unlock" \notin Moving /\ "unlock" \notin Locking /\ "unlock" \in Ended /\ "unlock" # "none"
  BY Places
<1>6. RecordInv(m)'
  BY <1>2, <1>3, <1>4, <1>5 DEF RecordInv
<1>7. StandInv(m)'
  <2>1. ~account'[a].here
    BY <1>1, <1>2
  <2>2. merge'[m].survivor = s /\ merge'[m].absorbed = a /\ merge'[m].status = "done"
    BY <1>3, <1>4
  <2> HIDE DEF s, a, MergeInv
  <2> QED
    BY <2>1, <2>2, <1>4 DEF StandInv, Has
<1>8. MovedInv(m)'
  <2>1. "finish" \in SeatMoved /\ "finish" \in RowsMoved /\ "finish" \in TokenMoved
    BY DEF SeatMoved, RowsMoved, TokenMoved
  <2>2. /\ seat[a] = 0 /\ \A r \in Rows : owner[r] = a => <<"row", a>> \in accLate
        /\ a \in token => <<"token", a>> \in accLate
        /\ a \in signedIn => <<"session", a>> \in accLate
    BY <1>1, <2>1 DEF MovedInv, Reached
  <2> QED
    BY <1>1, <1>3, <1>4, <2>2 DEF MovedInv
<1>9. Tidy => SnapshotInv(m)'
  BY <1>3, <1>4 DEF SnapshotInv
<1>10. ASSUME Tidy, Agreed', NEW v \in known PROVE HeldBy(v)' \/ OnRecord(v)'
  <2>1. Agreed
    BY <1>3, <1>4, <1>10 DEF Agreed
  <2>2. HeldBy(v) \/ OnRecord(v)
    BY <2>1, <1>10 DEF MethodsInv
  <2>3. HeldBy(v) => HeldBy(v)'
    BY <1>1 DEF HeldBy
  <2>4. ASSUME NEW k \in Accounts!Kinds, merge[m].theirs[k] = v PROVE HeldBy(v)'
    <3>1. account[s].methods = Accounts!Merged(merge[m].mine, merge[m].theirs)
      BY <1>1, <1>10 DEF MethodsInv, SnapshotInv
    <3>2. v # None
      BY DEF AccountTypes, MergeConstants
    <3>3. merge[m].mine[k] = None \/ merge[m].mine[k] = v
      BY <2>1, <2>4, <3>2 DEF Agreed, Accounts!Conflicts
    <3>4. account[s].methods[k] = v
      BY <3>1, <3>3, <2>4, MergedMethods, MergeFields
    <3> QED
      BY <3>4, <1>1, <1>2 DEF HeldBy
  <2>5. OnRecord(v) => OnRecord(v)' \/ HeldBy(v)'
    BY <2>4, <1>4 DEF OnRecord
  <2> QED
    BY <2>2, <2>3, <2>5
<1> HIDE DEF MergeInv
<1> QED
  BY <1>1, <1>3, <1>5, <1>6, <1>7, <1>8, <1>9, <1>10, RecordStep

LEMMA LockType ==
    ASSUME AccountTypes, NEW u \in Accs, NEW l \in Requests \cup {None}
    PROVE  LET rec == [account[u] EXCEPT !.lock = l]
           IN  /\ rec \in Account /\ rec.here = account[u].here
               /\ rec.methods = account[u].methods /\ rec.lock = l
<1> HIDE DEF Accounts!Methods
<1> QED
  BY DEF AccountTypes, Account

\* A known method stays known when no account's methods change.
LEMMA MethodsRest ==
    ASSUME MethodsInv, Tidy, Agreed, UNCHANGED merge, NEW v \in known,
           \A u \in Accs : account'[u].methods = account[u].methods
    PROVE  HeldBy(v)' \/ OnRecord(v)'
<1>1. HeldBy(v) \/ OnRecord(v)
  BY DEF MethodsInv
<1>2. HeldBy(v) => HeldBy(v)'
  BY DEF HeldBy
<1>3. OnRecord(v) => OnRecord(v)'
  BY DEF OnRecord
<1> QED
  BY <1>1, <1>2, <1>3

\* A task that goes nowhere else: the locks were refused, or are let go.
LEMMA LeaveStep ==
    ASSUME MergeConstants, MergeInv, NEW m \in Requests,
           NEW pc \in {"over", "undo"}, mergeTask' = [mergeTask EXCEPT ![m] = pc],
           mergeTask[m] \in {"lock1", "lock2", "undo", "unlock"}, pc = "undo" => mergeTask[m] = "lock2",
           UNCHANGED <<account, merge, proposal, accReq, signedIn, seat, owner, token, accLate, known>>
    PROVE  MergeInv'
<1> USE DEF MergeInv
<1>1. merge' = [merge EXCEPT ![m] = merge[m]] /\ mergeTask'[m] = pc /\ merge[m] \in Merge
  BY DEF AccountTypes
<1>2. RecordInv(m) /\ StandInv(m) /\ MovedInv(m)
  BY DEF LockInv
<1>3. pc \in (Locking \cup Moving \cup Ended) \ {"none"} /\ pc \notin Moving
  BY Places
<1>4. merge[m].status \in {"none", "done"} /\ (pc = "undo" => merge[m].status = "none")
  BY <1>2, Places DEF RecordInv
<1>5. RecordInv(m)'
  <2>1. merge[m].survivor \in Accs /\ merge[m].absorbed \in Accs \ {merge[m].survivor}
    BY <1>2 DEF RecordInv
  <2>2. pc = "undo" => merge[m].mine = Accounts!NoMethods /\ merge[m].theirs = Accounts!NoMethods
    BY <1>2 DEF RecordInv, Locking
  <2>3. "over" \notin Locking
    BY Places
  <2> HIDE DEF MergeInv
  <2> QED
    BY <2>1, <2>2, <2>3, <1>1, <1>3, <1>4 DEF RecordInv
<1>6. StandInv(m)'
  BY <1>1, <1>2, <1>4 DEF StandInv, Has
<1>7. MovedInv(m)'
  BY <1>1, <1>2, <1>3, Places DEF MovedInv, Reached
<1>8. SnapshotInv(m)'
  BY <1>1, <1>4 DEF SnapshotInv
<1>9. ASSUME Tidy, Agreed', NEW v \in known PROVE HeldBy(v)' \/ OnRecord(v)'
  BY <1>9, MethodsRest DEF Agreed, Accounts!Conflicts
<1> HIDE DEF MergeInv
<1> QED
  BY <1>1, <1>3, <1>5, <1>6, <1>7, <1>8, <1>9, RecordStep

\* A merge locks, or lets go of, an account nobody else holds, and nothing else.
LEMMA LockStep ==
    ASSUME MergeConstants, MergeInv, NEW m \in Requests, NEW u \in Accs, NEW l \in {None, m},
           NEW pc \in (Locking \cup Ended) \ {"none"}, mergeTask' = [mergeTask EXCEPT ![m] = pc],
           mergeTask[m] # "none", account' = [account EXCEPT ![u] = [account[u] EXCEPT !.lock = l]],
           account[u].lock \in {None, m}, l = m => account[u].here /\ u \in Accounts!Pair(m),
           UNCHANGED <<merge, proposal, accReq, signedIn, seat, owner, token, accLate, known>>,
           merge[m].status # "running", pc \notin {"theirs", "insert"}, RecordInv(m)', StandInv(m)'
    PROVE  MergeInv'
<1> USE DEF MergeInv
<1> DEFINE rec == [account[u] EXCEPT !.lock = l]
<1>1. /\ rec \in Account /\ rec.here = account[u].here /\ rec.methods = account[u].methods /\ rec.lock = l
  BY LockType
<1>2. account' = [account EXCEPT ![u] = rec]
  OBVIOUS
<1> HIDE DEF rec
<1>3. pc \notin Moving /\ pc \in (Locking \cup Moving \cup Ended) \ {"none"} /\ mergeTask'[m] = pc
  BY Places DEF AccountTypes
<1>4. m # None
  BY DEF MergeConstants
<1>5. /\ ~rec.here => rec.methods = Accounts!NoMethods /\ rec.lock = None
      /\ NobodyElses(u, rec.methods)
  BY <1>1, <1>4 DEF UniqueInv, NobodyElses
<1>6. MovedInv(m)'
  BY <1>3, Places DEF MovedInv, Reached
<1>7. SnapshotInv(m)'
  BY <1>3, Places DEF SnapshotInv
<1>8. ASSUME Tidy, Agreed, NEW v \in known PROVE HeldBy(v)' \/ OnRecord(v)'
  BY <1>8, <1>1, <1>2, MethodsRest DEF AccountTypes
<1>9. /\ rec.lock \in {None, m} /\ (rec.here => account[u].here)
      /\ rec.lock = m => u \in Accounts!Pair(m)
      /\ rec.methods = account[u].methods
  BY <1>1
<1>10. /\ Tidy => SnapshotInv(m)'
       /\ Tidy /\ Agreed => \A v \in known : HeldBy(v)' \/ OnRecord(v)'
       /\ account[u].here /\ rec.methods # account[u].methods => account[u].lock = m
       /\ UNCHANGED <<proposal, merge, accReq, signedIn, seat, owner, token, accLate, known>>
  BY <1>7, <1>8, <1>9
<1> HIDE DEF MergeInv
<1> QED
  BY <1>1, <1>2, <1>3, <1>5, <1>6, <1>7, <1>8, <1>9, <1>10, AccountStep

LEMMA LocksStep ==
    ASSUME MergeConstants, MergeInv, NEW m \in Requests,
           Accounts!LockFirst(m) \/ Accounts!LockSecond(m)
    PROVE  MergeInv'
<1> USE DEF MergeInv
<1> DEFINE u == IF mergeTask[m] = "lock1" THEN Accounts!FirstOf(m) ELSE Accounts!SecondOf(m)
           next == IF mergeTask[m] = "lock1" THEN "lock2" ELSE "mine"
           refused == IF mergeTask[m] = "lock1" THEN "over" ELSE "undo"
<1>1. mergeTask[m] \in {"lock1", "lock2"} /\ Accounts!Lock(m, u, next, refused)
  BY DEF Accounts!LockFirst, Accounts!LockSecond
<1>2. /\ RecordInv(m) /\ StandInv(m) /\ merge[m].status = "none"
      /\ merge[m].survivor \in Accs /\ merge[m].absorbed \in Accs \ {merge[m].survivor}
      /\ merge[m].mine = Accounts!NoMethods /\ merge[m].theirs = Accounts!NoMethods
  BY <1>1 DEF LockInv, RecordInv, Locking
<1>3. /\ u \in Accs /\ u \in Accounts!Pair(m) /\ Accounts!Pair(m) = {Accounts!FirstOf(m), Accounts!SecondOf(m)}
      /\ Accounts!FirstOf(m) \in Accs
  BY <1>2, FirstAndSecond
<1>4. UNCHANGED <<merge, proposal, accReq, signedIn, seat, owner, token, accLate, known>>
  BY <1>1 DEF Accounts!Lock, Accounts!moved
<1>5. CASE u \in Accounts!Present /\ account[u].lock \in {None, m}
  <2>1. /\ account' = [account EXCEPT ![u] = [account[u] EXCEPT !.lock = m]]
        /\ mergeTask' = [mergeTask EXCEPT ![m] = next]
    BY <1>1, <1>5 DEF Accounts!Lock, Accounts!Goto
  <2>2. account[u].here
    BY <1>5 DEF Accounts!Present
  <2>3. mergeTask'[m] = next /\ next \in {"lock2", "mine"} /\ next \in Locking /\ next \notin Moving
        /\ next \in (Locking \cup Ended) \ {"none"}
    BY <2>1, Places DEF AccountTypes
  <2>4. account'[u].here /\ account'[u].lock = m /\ \A w \in Accs : Has(m, w) => account'[w].here /\ account'[w].lock = m
    BY <1>3, <2>1, <2>2 DEF AccountTypes, Has
  <2>5. RecordInv(m)'
    BY <1>2, <1>4, <2>3, Places DEF RecordInv
  <2>6. Accounts!FirstOf(m)' = Accounts!FirstOf(m)
    BY <1>4 DEF Accounts!FirstOf, Accounts!Pair
  <2>7. StandInv(m)'
    <3>1. CASE mergeTask[m] = "lock1"
      <4>1. next = "lock2" /\ u = Accounts!FirstOf(m)
        BY <3>1
      <4> HIDE DEF u, next
      <4> QED
        BY <4>1, <2>3, <2>4, <2>6, <1>2, <1>4 DEF StandInv, Has
    <3>2. CASE mergeTask[m] = "lock2"
      <4>1. next = "mine" /\ u = Accounts!SecondOf(m) /\ Has(m, Accounts!FirstOf(m))
        BY <3>2, <1>2 DEF StandInv
      <4>2. \A w \in Accounts!Pair(m) : account'[w].here /\ account'[w].lock = m
        <5> HIDE DEF u, next
        <5> QED
          BY <4>1, <1>3, <2>4 DEF Has
      <4>3. merge[m].survivor \in Accounts!Pair(m) /\ merge[m].absorbed \in Accounts!Pair(m)
        BY DEF Accounts!Pair
      <4> HIDE DEF u, next
      <4> QED
        BY <4>1, <4>2, <4>3, <2>3, <1>2, <1>4 DEF StandInv, Has
    <3> QED
      BY <3>1, <3>2, <1>1
  <2> HIDE DEF u, next, refused, MergeInv
  <2> QED
    BY <1>1, <1>2, <1>3, <1>4, <1>5, <2>1, <2>2, <2>3, <2>5, <2>7, LockStep
<1>6. CASE ~(u \in Accounts!Present /\ account[u].lock \in {None, m})
  <2>1. account' = account /\ mergeTask' = [mergeTask EXCEPT ![m] = refused]
    BY <1>1, <1>6 DEF Accounts!Lock, Accounts!Goto
  <2>2. refused \in {"over", "undo"} /\ (refused = "undo" => mergeTask[m] = "lock2")
    BY <1>1
  <2> HIDE DEF u, next, refused, MergeInv
  <2> QED
    BY <1>1, <1>4, <2>1, <2>2, LeaveStep
<1> QED
  BY <1>5, <1>6

LEMMA UnlocksStep ==
    ASSUME MergeConstants, MergeInv, NEW m \in Requests,
           Accounts!LockUndone(m) \/ Accounts!UnlockSurvivor(m)
    PROVE  MergeInv'
<1> USE DEF MergeInv
<1> DEFINE u == IF mergeTask[m] = "undo" THEN Accounts!FirstOf(m) ELSE merge[m].survivor
<1>1. /\ mergeTask[m] \in {"undo", "unlock"} /\ Accounts!Unlock(m, u)
      /\ mergeTask' = [mergeTask EXCEPT ![m] = "over"]
      /\ UNCHANGED <<merge, proposal, accReq, signedIn, seat, owner, token, accLate, known>>
  BY DEF Accounts!LockUndone, Accounts!UnlockSurvivor, Accounts!Goto, Accounts!moved
<1>2. /\ RecordInv(m) /\ StandInv(m) /\ merge[m].status \in {"none", "done"}
      /\ merge[m].survivor \in Accs /\ merge[m].absorbed \in Accs \ {merge[m].survivor}
  BY <1>1 DEF LockInv, RecordInv, Locking
<1>3. u \in Accs
  BY <1>2, FirstAndSecond
<1> HIDE DEF u
<1>4. mergeTask'[m] = "over" /\ "over" \in (Locking \cup Ended) \ {"none"}
  BY <1>1, Places DEF AccountTypes
<1>5. CASE account[u].lock = m
  <2>1. account' = [account EXCEPT ![u] = [account[u] EXCEPT !.lock = None]]
    <3>1. \A w \in Accs : account'[w] = IF w = u THEN [account[u] EXCEPT !.lock = None] ELSE account[w]
      BY <1>1, <1>3, <1>5 DEF Accounts!Unlock
    <3>2. account' = [w \in Accs |-> account'[w]]
      BY <1>1 DEF Accounts!Unlock
    <3> QED
      BY <3>1, <3>2 DEF AccountTypes
  <2>2. RecordInv(m)'
    BY <1>1, <1>2, <1>4, Places DEF RecordInv
  <2>3. StandInv(m)'
    <3>1. \A w \in Accs : ~account[w].here => ~account'[w].here
      BY <1>3, <2>1 DEF AccountTypes, Account
    <3> HIDE DEF MergeInv
    <3> QED
      BY <3>1, <1>1, <1>2, <1>4 DEF StandInv, Has
  <2>4. m # None
    BY DEF MergeConstants
  <2> HIDE DEF MergeInv
  <2> QED
    BY <1>1, <1>2, <1>3, <1>4, <1>5, <2>1, <2>2, <2>3, <2>4, LockStep
<1>6. CASE account[u].lock # m
  <2>1. account' = account
    <3>1. \A w \in Accs : account'[w] = account[w]
      BY <1>1, <1>6 DEF Accounts!Unlock
    <3>2. account' = [w \in Accs |-> account'[w]]
      BY <1>1 DEF Accounts!Unlock
    <3> QED
      BY <3>1, <3>2 DEF AccountTypes
  <2> HIDE DEF MergeInv
  <2> QED
    BY <1>1, <2>1, LeaveStep
<1> QED
  BY <1>5, <1>6

LEMMA AccountPut ==
    ASSUME AccountTypes, NEW u \in Accs, NEW ms \in Accounts!Methods
    PROVE  LET rec == [account[u] EXCEPT !.methods = ms]
           IN  /\ rec \in Account /\ rec.here = account[u].here
               /\ rec.methods = ms /\ rec.lock = account[u].lock
<1> HIDE DEF Accounts!Methods
<1> QED
  BY DEF AccountTypes, Account

\* What holds of a merge that moves on, to a place from where nothing more is moved,
\* but for the methods.
LEMMA MovedOn ==
    ASSUME NEW m \in Requests, MovedInv(m), mergeTask[m] \in TokenMoved,
           mergeTask'[m] \in {"take", "remove", "revoke again"},
           UNCHANGED <<merge, seat, owner, token, signedIn, accLate>>
    PROVE  MovedInv(m)'
<1>1. /\ mergeTask[m] \in RowsMoved /\ mergeTask[m] \in SeatMoved
      /\ mergeTask'[m] # "finish"
  BY Places
<1> QED
  BY <1>1 DEF MovedInv, Reached

LEMMA FreeMethodsStep ==
    ASSUME MergeConstants, MergeInv, NEW m \in Requests, Accounts!FreeMethods(m)
    PROVE  MergeInv'
<1> USE DEF MergeInv
<1> DEFINE s == merge[m].survivor
           a == merge[m].absorbed
           rec == [account[a] EXCEPT !.methods = Accounts!NoMethods]
<1>1. /\ mergeTask[m] = "free" /\ account' = [account EXCEPT ![a].methods = Accounts!NoMethods]
      /\ mergeTask' = [mergeTask EXCEPT ![m] = "take"]
      /\ UNCHANGED <<proposal, merge, accReq, signedIn, seat, owner, token, accLate, known>>
  BY DEF Accounts!FreeMethods, Accounts!Goto, Accounts!moved
<1>2. "free" \in Moving /\ "free" \in TokenMoved /\ "take" \in Moving /\ "take" \notin Locking /\ "take" \notin Ended
      /\ "take" # "none" /\ "free" # "none"
  BY Places DEF TokenMoved
<1>3. /\ merge[m].status = "running" /\ s \in Accs /\ a \in Accs \ {s} /\ Has(m, s)
      /\ ~account[a].here \/ Has(m, a)
  BY <1>1, <1>2, RunningMerge DEF LockInv, RecordInv
<1>4. /\ rec \in Account /\ rec.here = account[a].here /\ rec.methods = Accounts!NoMethods
      /\ rec.lock = account[a].lock
  BY <1>3, AccountPut, MethodsAreFunctions
<1>5. account' = [account EXCEPT ![a] = rec]
  BY <1>1
<1> HIDE DEF rec
<1>6. mergeTask'[m] = "take" /\ account'[a] = rec /\ account'[s] = account[s]
  BY <1>1, <1>3, <1>5 DEF AccountTypes
<1>7. ~account[a].here => account[a].lock = None /\ account[a].methods = Accounts!NoMethods
  BY <1>3 DEF UniqueInv
<1>8. account[a].lock \in {None, m} /\ (rec.lock = m => a \in Accounts!Pair(m))
  BY <1>3, <1>7 DEF Has, Accounts!Pair
<1>9. NobodyElses(a, rec.methods)
  BY <1>4, MethodsAreFunctions DEF NobodyElses
<1>10. RecordInv(m)'
  BY <1>1, <1>2, <1>3, <1>6 DEF RecordInv, Ended
<1>11. StandInv(m)'
  <2>1. account'[s].here /\ account'[s].lock = m /\ (~account'[a].here \/ (account'[a].here /\ account'[a].lock = m))
    BY <1>3, <1>4, <1>6 DEF Has
  <2>2. merge' = merge
    BY <1>1
  <2> HIDE DEF MergeInv
  <2> QED
    BY <2>1, <2>2, <1>3, <1>6 DEF StandInv, Has
<1>12. MovedInv(m)'
  BY <1>1, <1>2, <1>6, MovedOn
<1>13. Tidy => SnapshotInv(m)'
  <2>1. Tidy => account[s].methods \in {merge[m].mine, Accounts!Merged(merge[m].mine, merge[m].theirs)}
    BY <1>3 DEF MethodsInv, SnapshotInv
  <2>2. account'[s].methods = account[s].methods /\ account'[a].methods = Accounts!NoMethods /\ merge' = merge
    BY <1>1, <1>4, <1>6
  <2> HIDE DEF s, a, MergeInv
  <2>3. Tidy => account'[s].methods \in {merge[m].mine, Accounts!Merged(merge[m].mine, merge[m].theirs)}
    BY <2>1, <2>2
  <2> QED
    BY <2>2, <2>3, <1>6 DEF SnapshotInv, s, a
<1>14. ASSUME Tidy, Agreed, NEW v \in known PROVE HeldBy(v)' \/ OnRecord(v)'
  <2>1. HeldBy(v) \/ OnRecord(v)
    BY <1>14 DEF MethodsInv
  <2>2. OnRecord(v) => OnRecord(v)'
    BY <1>1 DEF OnRecord
  <2>3. ASSUME NEW u \in Accs, NEW k \in Accounts!Kinds, account[u].methods[k] = v
        PROVE  HeldBy(v)' \/ OnRecord(v)'
    <3>1. CASE u # a
      BY <3>1, <2>3, <1>5, <1>3 DEF AccountTypes, HeldBy
    <3>2. CASE u = a
      <4>1. v # None
        BY DEF AccountTypes, MergeConstants
      <4>2. account[a].methods = merge[m].theirs
        <5>1. account[a].methods \in {merge[m].theirs, Accounts!NoMethods}
          BY <1>3, <1>14 DEF MethodsInv, SnapshotInv
        <5> QED
          BY <5>1, <4>1, <3>2, <2>3, MethodsAreFunctions
      <4> QED
        BY <4>2, <3>2, <2>3, <1>1, <1>3 DEF OnRecord
    <3> QED
      BY <3>1, <3>2
  <2> QED
    BY <2>1, <2>2, <2>3 DEF HeldBy
<1>15. account[a].here /\ rec.methods # account[a].methods => account[a].lock = m
  BY <1>3 DEF Has
<1> HIDE DEF MergeInv, a, s
<1> QED
  BY <1>1, <1>2, <1>3, <1>4, <1>5, <1>7, <1>8, <1>9, <1>10, <1>11, <1>12, <1>13, <1>14, <1>15, AccountStep

LEMMA TakeMethodsStep ==
    ASSUME MergeConstants, MergeInv, NEW m \in Requests, Accounts!TakeMethods(m),
           ~Accounts!Taken(merge[m].survivor, Accounts!Merged(merge[m].mine, merge[m].theirs))
    PROVE  MergeInv'
<1> USE DEF MergeInv
<1> DEFINE s == merge[m].survivor
           a == merge[m].absorbed
           ms == Accounts!Merged(merge[m].mine, merge[m].theirs)
           rec == [account[s] EXCEPT !.methods = ms]
<1>1. /\ mergeTask[m] = "take" /\ account' = [account EXCEPT ![s].methods = ms]
      /\ mergeTask' = [mergeTask EXCEPT ![m] = "remove"]
      /\ UNCHANGED <<proposal, merge, accReq, signedIn, seat, owner, token, accLate, known>>
  BY DEF Accounts!TakeMethods, Accounts!Goto, Accounts!moved
<1>2. "take" \in Moving /\ "take" \in TokenMoved /\ "remove" \in Moving /\ "remove" \notin Locking /\ "remove" \notin Ended
      /\ "remove" # "none" /\ "take" # "none"
  BY Places DEF TokenMoved
<1>3. /\ merge[m].status = "running" /\ s \in Accs /\ a \in Accs \ {s} /\ Has(m, s)
      /\ ~account[a].here \/ Has(m, a)
  BY <1>1, <1>2, RunningMerge DEF LockInv, RecordInv
<1>m. ms \in Accounts!Methods
      /\ \A k \in Accounts!Kinds : ms[k] = IF merge[m].mine[k] # None THEN merge[m].mine[k] ELSE merge[m].theirs[k]
  BY MergedMethods, MergeFields
<1>t. ~Accounts!Taken(s, ms)
  OBVIOUS
<1> HIDE DEF ms
<1>4. /\ rec \in Account /\ rec.here = account[s].here /\ rec.methods = ms /\ rec.lock = account[s].lock
  BY <1>3, <1>m, AccountPut
<1>5. account' = [account EXCEPT ![s] = rec]
  BY <1>1
<1> HIDE DEF rec
<1>6. mergeTask'[m] = "remove" /\ account'[s] = rec /\ account'[a] = account[a]
  BY <1>1, <1>3, <1>5 DEF AccountTypes
<1>8. account[s].here /\ account[s].lock = m /\ s \in Accounts!Pair(m)
  BY <1>3 DEF Has, Accounts!Pair
<1>9. NobodyElses(s, ms)
  <2>1. ASSUME NEW w \in Accs \ {s}, NEW k \in Accounts!Kinds, ms[k] # None PROVE account[w].methods[k] # ms[k]
    <3>1. CASE account[w].here
      BY <2>1, <3>1, <1>t DEF Accounts!Taken, Accounts!Present
    <3>2. CASE ~account[w].here
      BY <2>1, <3>2, MethodsAreFunctions DEF UniqueInv
    <3> QED
      BY <3>1, <3>2
  <2> QED
    BY <2>1 DEF NobodyElses
<1>10. RecordInv(m)'
  BY <1>1, <1>2, <1>3, <1>6 DEF RecordInv, Ended
<1>11. StandInv(m)'
  <2>1. account'[s].here /\ account'[s].lock = m /\ (~account'[a].here \/ (account'[a].here /\ account'[a].lock = m))
    BY <1>3, <1>4, <1>6 DEF Has
  <2>2. merge' = merge
    BY <1>1
  <2> HIDE DEF MergeInv
  <2> QED
    BY <2>1, <2>2, <1>3, <1>6 DEF StandInv, Has
<1>12. MovedInv(m)'
  BY <1>1, <1>2, <1>6, MovedOn
<1>13. Tidy => SnapshotInv(m)' /\ account[a].methods = Accounts!NoMethods
  <2>1. Tidy => account[a].methods = Accounts!NoMethods
    BY <1>1 DEF MethodsInv, SnapshotInv
  <2>2. account'[s].methods = ms /\ account'[a].methods = account[a].methods /\ merge' = merge
    BY <1>1, <1>4, <1>6
  <2>3. mergeTask'[m] = "remove"
    BY <1>6
  <2> HIDE DEF MergeInv
  <2> QED
    BY <2>1, <2>2, <2>3 DEF SnapshotInv, ms
<1>14. ASSUME Tidy, Agreed, NEW v \in known PROVE HeldBy(v)' \/ OnRecord(v)'
  <2>1. HeldBy(v) \/ OnRecord(v)
    BY <1>14 DEF MethodsInv
  <2>2. OnRecord(v) => OnRecord(v)'
    BY <1>1 DEF OnRecord
  <2>3. ASSUME NEW u \in Accs, NEW k \in Accounts!Kinds, account[u].methods[k] = v
        PROVE  HeldBy(v)' \/ OnRecord(v)'
    <3>1. CASE u # s
      BY <3>1, <2>3, <1>5, <1>3 DEF AccountTypes, HeldBy
    <3>2. CASE u = s
      <4>1. v # None
        BY DEF AccountTypes, MergeConstants
      <4>2. account[s].methods = merge[m].mine \/ account[s].methods = ms
        BY <1>3, <1>14 DEF MethodsInv, SnapshotInv, ms
      <4>3. ms[k] = v
        BY <4>1, <4>2, <3>2, <2>3, <1>m
      <4> QED
        BY <4>3, <1>3, <1>4, <1>6 DEF HeldBy
    <3> QED
      BY <3>1, <3>2
  <2> QED
    BY <2>1, <2>2, <2>3 DEF HeldBy
<1> HIDE DEF MergeInv, a, s
<1> QED
  BY <1>1, <1>2, <1>3, <1>4, <1>5, <1>8, <1>9, <1>10, <1>11, <1>12, <1>13, <1>14, AccountStep

LEMMA RemoveAbsorbedStep ==
    ASSUME MergeConstants, MergeInv, NEW m \in Requests, Accounts!RemoveAbsorbed(m)
    PROVE  MergeInv'
<1> USE DEF MergeInv
<1> DEFINE s == merge[m].survivor
           a == merge[m].absorbed
           rec == [here |-> FALSE, methods |-> Accounts!NoMethods, lock |-> None]
<1>1. /\ mergeTask[m] = "remove" /\ account' = [account EXCEPT ![a] = rec]
      /\ mergeTask' = [mergeTask EXCEPT ![m] = "revoke again"]
      /\ UNCHANGED <<proposal, merge, accReq, signedIn, seat, owner, token, accLate, known>>
  BY DEF Accounts!RemoveAbsorbed, Accounts!Goto, Accounts!moved
<1>2. /\ "remove" \in Moving /\ "remove" \in TokenMoved /\ "revoke again" \in Moving
      /\ "revoke again" \notin Locking /\ "revoke again" \notin Ended
      /\ "revoke again" # "none" /\ "remove" # "none"
  BY Places DEF TokenMoved
<1>3. /\ merge[m].status = "running" /\ s \in Accs /\ a \in Accs \ {s} /\ Has(m, s)
      /\ ~account[a].here \/ Has(m, a)
  BY <1>1, <1>2, RunningMerge DEF LockInv, RecordInv
<1>4. rec \in Account /\ ~rec.here /\ rec.methods = Accounts!NoMethods /\ rec.lock = None
  <2> HIDE DEF Accounts!Methods
  <2> QED
    BY MethodsAreFunctions DEF Account
<1> HIDE DEF rec
<1>6. mergeTask'[m] = "revoke again" /\ account'[a] = rec /\ account'[s] = account[s]
  BY <1>1, <1>3 DEF AccountTypes
<1>7. ~account[a].here => account[a].lock = None /\ account[a].methods = Accounts!NoMethods
  BY <1>3 DEF UniqueInv
<1>8. account[a].lock \in {None, m} /\ a \in Accounts!Pair(m)
  BY <1>3, <1>7 DEF Has, Accounts!Pair
<1>9. NobodyElses(a, rec.methods)
  BY <1>4, MethodsAreFunctions DEF NobodyElses
<1>10. RecordInv(m)'
  BY <1>1, <1>2, <1>3, <1>6 DEF RecordInv, Ended
<1>11. StandInv(m)'
  <2>1. account'[s].here /\ account'[s].lock = m /\ ~account'[a].here
    BY <1>3, <1>4, <1>6 DEF Has
  <2>2. merge' = merge
    BY <1>1
  <2> HIDE DEF MergeInv
  <2> QED
    BY <2>1, <2>2, <1>3, <1>6 DEF StandInv, Has
<1>12. MovedInv(m)'
  BY <1>1, <1>2, <1>6, MovedOn
<1>13. Tidy => /\ account[a].methods = Accounts!NoMethods
               /\ account[s].methods = Accounts!Merged(merge[m].mine, merge[m].theirs)
  BY <1>1 DEF MethodsInv, SnapshotInv
<1>14. Tidy => SnapshotInv(m)'
  <2>2. account'[s].methods = account[s].methods /\ account'[a].methods = Accounts!NoMethods /\ merge' = merge
    BY <1>1, <1>4, <1>6
  <2> HIDE DEF MergeInv
  <2> QED
    BY <2>2, <1>13, <1>6 DEF SnapshotInv
<1>15. ASSUME Tidy, Agreed, NEW v \in known PROVE HeldBy(v)' \/ OnRecord(v)'
  <2>1. \A u \in Accs : account'[u].methods = account[u].methods
    BY <1>1, <1>3, <1>4, <1>6, <1>13, <1>15 DEF AccountTypes
  <2>2. merge' = merge
    BY <1>1
  <2> QED
    BY <1>15, <2>1, <2>2, MethodsRest
<1>16. account[a].here /\ rec.methods # account[a].methods => account[a].lock = m
  BY <1>3 DEF Has
<1>17. m # None
  BY DEF MergeConstants
<1> HIDE DEF MergeInv, a, s
<1> QED
  BY <1>1, <1>2, <1>3, <1>4, <1>8, <1>9, <1>10, <1>11, <1>12, <1>14, <1>15, <1>16, <1>17, AccountStep

\* What a task leaves behind of the other merges, when it moves things to its survivor.
LEMMA OthersMoved ==
    ASSUME AccountTypes, LockInv, NEW m \in Requests, merge[m].status = "running",
           UNCHANGED <<merge, accLate>>,
           \A n \in Requests \ {m} : mergeTask'[n] = mergeTask[n] /\ MovedInv(n),
           \A u \in Accs \ {merge[m].survivor} :
             /\ seat[u] = 0 => seat'[u] = 0
             /\ \A r \in Rows : owner'[r] = u => owner[r] = u
             /\ u \in token' => u \in token
             /\ u \in signedIn' => u \in signedIn
    PROVE  \A n \in Requests \ {m} : MovedInv(n)'
<1> SUFFICES ASSUME NEW n \in Requests \ {m} PROVE MovedInv(n)'
  OBVIOUS
<1> DEFINE a == merge[n].absorbed
<1>1. merge'[n] = merge[n] /\ accLate' = accLate /\ mergeTask'[n] = mergeTask[n]
  OBVIOUS
<1>2. CASE merge[n].status = "none"
  <2>1. ~Reached(n, SeatMoved) /\ ~Reached(n, RowsMoved) /\ ~Reached(n, TokenMoved) /\ ~Reached(n, {"finish"})
    BY <1>2, ReachedBegan
  <2>2. \A T : Reached(n, T)' <=> Reached(n, T)
    BY <1>1 DEF Reached
  <2> QED
    BY <2>1, <1>1 DEF MovedInv, Reached
<1>3. CASE merge[n].status # "none"
  <2>1. a \in Accs \ {merge[m].survivor}
    BY <1>3, RunningMerge, SurvivorApart
  <2>2. /\ seat[a] = 0 => seat'[a] = 0
        /\ \A r \in Rows : owner'[r] = a => owner[r] = a
        /\ a \in token' => a \in token
        /\ a \in signedIn' => a \in signedIn
    BY <2>1
  <2>3. MovedInv(n)
    OBVIOUS
  <2> QED
    BY <1>1, <2>2, <2>3 DEF MovedInv, Reached
<1> QED
  BY <1>2, <1>3

\* The same for its own, once it is there.
LEMMA MovesStep ==
    ASSUME MergeConstants, MergeInv, NEW m \in Requests,
           \/ Accounts!DropProposals(m) \/ Accounts!ForgetAbsorbed(m) \/ Accounts!Revoke(m)
           \/ Accounts!MoveSeat(m) \/ Accounts!DropSeat(m) \/ Accounts!MoveRows(m)
           \/ Accounts!FindToken(m) \/ Accounts!SettleToken(m)
    PROVE  MergeInv'
<1> USE DEF MergeInv
<1> DEFINE s == merge[m].survivor
           a == merge[m].absorbed
<1>1. /\ mergeTask[m] \in {"drop", "forget", "revoke", "revoke again", "seat", "spare", "rows", "token",
                           "drop token", "move token"}
      /\ UNCHANGED <<account, merge, accReq, accLate, known>>
  BY DEF Accounts!DropProposals, Accounts!ForgetAbsorbed, Accounts!Revoke, Accounts!MoveSeat, Accounts!DropSeat,
         Accounts!MoveRows, Accounts!FindToken, Accounts!SettleToken
<1>2. /\ merge[m].status = "running" /\ s \in Accs /\ a \in Accs \ {s} /\ mergeTask[m] # "none"
  <2>1. mergeTask[m] \in Moving /\ mergeTask[m] # "none"
    BY <1>1, Places
  <2> QED
    BY <2>1, RunningMerge DEF LockInv, RecordInv
<1>3. MovedInv(m) /\ \A n \in Requests : MovedInv(n)
  OBVIOUS
<1>4. /\ proposal \in [Accs -> Errand] /\ seat \in [Accs -> 0..2] /\ owner \in [Rows -> Accs]
      /\ token \subseteq Accs /\ signedIn \subseteq Accs
      /\ \A u \in Accs : proposal[u] # Accounts!Idle => proposal[u].user \in Accs \ {u}
  BY DEF AccountTypes, AskedInv
<1>a. ASSUME NEW pc \in Further, pc = "finish" => mergeTask[m] = "revoke again",
             mergeTask' = [mergeTask EXCEPT ![m] = pc],
             proposal' = proposal \/ (\E u : Accounts!Forget(u)),
             seat' \in [Accs -> 0..2], owner' \in [Rows -> Accs], token' \subseteq Accs, signedIn' \subseteq Accs,
             MovedInv(m)',
             \A u \in Accs \ {s} :
               /\ seat[u] = 0 => seat'[u] = 0
               /\ \A r \in Rows : owner'[r] = u => owner[r] = u
               /\ u \in token' => u \in token
               /\ u \in signedIn' => u \in signedIn
      PROVE  MergeInv'
  <2>1. \A n \in Requests \ {m} : mergeTask'[n] = mergeTask[n] /\ MovedInv(n)
    BY <1>3, <1>a DEF AccountTypes
  <2>2. \A n \in Requests \ {m} : MovedInv(n)'
    BY <2>1, <1>1, <1>2, <1>a, OthersMoved
  <2>3. /\ proposal' \in [Accs -> Errand]
        /\ \A u \in Accs : proposal'[u] # Accounts!Idle => proposal'[u].user \in Accs \ {u}
    BY <1>4, <1>a, ForgetTypes
  <2>4. \A n \in Requests : MovedInv(n)'
    BY <2>2, <1>a
  <2> HIDE DEF MergeInv, s, a
  <2> QED
    BY <1>1, <1>2, <1>a, <2>3, <2>4, MoverStep
<1>b. ASSUME NEW pc, mergeTask' = [mergeTask EXCEPT ![m] = pc] PROVE mergeTask'[m] = pc
  BY <1>b DEF AccountTypes
<1>5. CASE Accounts!DropProposals(m)
  <2>1. mergeTask[m] = "drop" /\ Accounts!Forget(s) /\ mergeTask' = [mergeTask EXCEPT ![m] = "revoke"]
        /\ UNCHANGED <<seat, owner, token, signedIn>>
    BY <1>5 DEF Accounts!DropProposals, Accounts!Goto, Accounts!moved
  <2>2. mergeTask'[m] = "revoke"
    BY <2>1, <1>b
  <2>3. MovedInv(m)'
    BY <1>1, <1>2, <2>2 DEF MovedInv, Reached, SeatMoved, RowsMoved, TokenMoved
  <2>4. "revoke" \in Further
    BY DEF Further
  <2> HIDE DEF MergeInv, s, a
  <2> QED
    BY <1>4, <1>a, <2>1, <2>3, <2>4
<1>6. CASE Accounts!ForgetAbsorbed(m)
  <2>1. mergeTask[m] = "forget" /\ Accounts!Forget(a) /\ mergeTask' = [mergeTask EXCEPT ![m] = "seat"]
        /\ UNCHANGED <<seat, owner, token, signedIn>>
    BY <1>6 DEF Accounts!ForgetAbsorbed, Accounts!Goto, Accounts!moved
  <2>2. mergeTask'[m] = "seat"
    BY <2>1, <1>b
  <2>3. MovedInv(m)'
    BY <1>1, <1>2, <2>2 DEF MovedInv, Reached, SeatMoved, RowsMoved, TokenMoved
  <2>4. "seat" \in Further
    BY DEF Further
  <2> HIDE DEF MergeInv, s, a
  <2> QED
    BY <1>4, <1>a, <2>1, <2>3, <2>4
<1>7. CASE Accounts!Revoke(m)
  <2>1. /\ signedIn' = signedIn \ {a} /\ UNCHANGED <<proposal, seat, owner, token>>
        /\ \/ mergeTask[m] = "revoke" /\ mergeTask' = [mergeTask EXCEPT ![m] = "forget"]
           \/ mergeTask[m] = "revoke again" /\ mergeTask' = [mergeTask EXCEPT ![m] = "finish"]
    BY <1>7 DEF Accounts!Revoke, Accounts!Goto, Accounts!moved
  <2>2. PICK pc \in {"forget", "finish"} :
          /\ mergeTask' = [mergeTask EXCEPT ![m] = pc]
          /\ pc = "finish" => mergeTask[m] = "revoke again"
    BY <2>1
  <2>3. mergeTask'[m] = pc
    BY <2>2, <1>b
  <2>4. MovedInv(m)'
    <3>1. CASE pc = "forget"
      BY <1>1, <1>2, <2>3, <3>1 DEF MovedInv, Reached, SeatMoved, RowsMoved, TokenMoved
    <3>2. CASE pc = "finish"
      <4>1. mergeTask[m] \in SeatMoved /\ mergeTask[m] \in RowsMoved /\ mergeTask[m] \in TokenMoved
        BY <2>2, <3>2 DEF SeatMoved, RowsMoved, TokenMoved
      <4> QED
        BY <1>1, <1>3, <2>1, <4>1 DEF MovedInv, Reached
    <3> QED
      BY <3>1, <3>2
  <2>5. pc \in Further
    BY DEF Further
  <2>6. \A u : u \in signedIn' => u \in signedIn
    BY <2>1
  <2> HIDE DEF MergeInv, s, a
  <2> QED
    BY <1>4, <1>a, <2>1, <2>2, <2>4, <2>5, <2>6
<1>8. CASE Accounts!MoveSeat(m) \/ Accounts!DropSeat(m)
  <2>1. /\ UNCHANGED <<proposal, signedIn, owner, token>> /\ mergeTask[m] \in {"seat", "spare"}
        /\ \/ mergeTask' = [mergeTask EXCEPT ![m] = "spare"]
           \/ mergeTask' = [mergeTask EXCEPT ![m] = "rows"]
    BY <1>8 DEF Accounts!MoveSeat, Accounts!DropSeat, Accounts!Goto
  <2>2. PICK pc \in {"spare", "rows"} : mergeTask' = [mergeTask EXCEPT ![m] = pc]
    BY <2>1
  <2>3. mergeTask'[m] = pc
    BY <2>2, <1>b
  <2>4. /\ seat' \in [Accs -> 0..2] /\ \A u \in Accs \ {s} : seat[u] = 0 => seat'[u] = 0
        /\ pc = "rows" => seat'[a] = 0
    <3>1. CASE Accounts!MoveSeat(m)
      <4>1. \/ seat[a] = 0 /\ seat' = seat
            \/ seat[a] # 0 /\ seat[s] = 0 /\ seat' = [seat EXCEPT ![s] = seat[a], ![a] = 0]
            \/ /\ mergeTask' = [mergeTask EXCEPT ![m] = "spare"] /\ seat[a] # 0
               /\ seat' = [seat EXCEPT ![s] = IF seat[a] > @ THEN seat[a] ELSE @]
        BY <3>1 DEF Accounts!MoveSeat, Accounts!Goto
      <4>2. mergeTask' = [mergeTask EXCEPT ![m] = "spare"] => pc = "spare"
        BY <1>b, <2>3
      <4>3. seat[a] \in 0..2 /\ seat[s] \in 0..2
        BY <1>2, <1>4
      <4> HIDE DEF MergeInv, s, a
      <4>4. CASE seat[a] = 0 /\ seat' = seat
        BY <4>4, <1>4
      <4>5. CASE seat[a] # 0 /\ seat[s] = 0 /\ seat' = [seat EXCEPT ![s] = seat[a], ![a] = 0]
        BY <4>3, <4>5, <1>2, <1>4
      <4>6. CASE /\ mergeTask' = [mergeTask EXCEPT ![m] = "spare"] /\ seat[a] # 0
                 /\ seat' = [seat EXCEPT ![s] = IF seat[a] > @ THEN seat[a] ELSE @]
        BY <4>2, <4>3, <4>6, <1>2, <1>4
      <4> QED
        BY <4>1, <4>4, <4>5, <4>6
    <3>2. CASE Accounts!DropSeat(m)
      <4>1. seat' = [seat EXCEPT ![a] = 0]
        BY <3>2 DEF Accounts!DropSeat
      <4> QED
        BY <4>1, <1>2, <1>4
    <3> QED
      BY <1>8, <3>1, <3>2
  <2>5. MovedInv(m)'
    <3>1. mergeTask'[m] \notin RowsMoved /\ mergeTask'[m] \notin TokenMoved /\ mergeTask'[m] # "finish"
          /\ (mergeTask'[m] \in SeatMoved => pc = "rows")
      BY <2>3 DEF SeatMoved, RowsMoved, TokenMoved
    <3>2. merge' = merge
      BY <1>1
    <3> HIDE DEF MergeInv
    <3> QED
      BY <1>2, <2>4, <3>1, <3>2 DEF MovedInv, Reached
  <2>6. pc \in Further /\ pc # "finish"
    BY DEF Further
  <2> HIDE DEF MergeInv, s, a
  <2> QED
    BY <1>4, <1>a, <2>1, <2>2, <2>4, <2>5, <2>6
<1>9. CASE Accounts!MoveRows(m)
  <2>1. /\ mergeTask[m] = "rows" /\ mergeTask' = [mergeTask EXCEPT ![m] = "token"]
        /\ UNCHANGED <<proposal, signedIn, seat, token>>
        /\ owner' = [r \in Rows |-> IF owner[r] = a THEN s ELSE owner[r]]
    BY <1>9 DEF Accounts!MoveRows, Accounts!Goto
  <2>2. mergeTask'[m] = "token"
    BY <2>1, <1>b
  <2>3. /\ owner' \in [Rows -> Accs] /\ \A r \in Rows : owner'[r] # a
        /\ \A u \in Accs \ {s}, r \in Rows : owner'[r] = u => owner[r] = u
    BY <1>2, <1>4, <2>1
  <2>4. MovedInv(m)'
    <3>1. mergeTask[m] \in SeatMoved /\ "token" \notin TokenMoved
      BY <2>1 DEF SeatMoved, TokenMoved
    <3> QED
      BY <1>1, <1>2, <1>3, <2>1, <2>2, <2>3, <3>1 DEF MovedInv, Reached
  <2>5. "token" \in Further
    BY DEF Further
  <2> HIDE DEF MergeInv, s, a
  <2> QED
    BY <1>4, <1>a, <2>1, <2>3, <2>4, <2>5
<1>10. CASE Accounts!FindToken(m) \/ Accounts!SettleToken(m)
  <2>1. /\ mergeTask[m] \in {"token", "drop token", "move token"}
        /\ UNCHANGED <<proposal, signedIn, seat, owner>>
        /\ \E pc \in {"drop token", "move token", "dead", "free"} : mergeTask' = [mergeTask EXCEPT ![m] = pc]
    BY <1>10 DEF Accounts!FindToken, Accounts!SettleToken, Accounts!Goto, Accounts!moved
  <2>2. PICK pc \in {"drop token", "move token", "dead", "free"} : mergeTask' = [mergeTask EXCEPT ![m] = pc]
    BY <2>1
  <2>3. mergeTask'[m] = pc
    BY <2>2, <1>b
  <2>4. /\ token' \subseteq Accs /\ \A u \in Accs \ {s} : u \in token' => u \in token
        /\ pc = "free" => a \notin token'
    <3>1. CASE Accounts!FindToken(m)
      <4>1. token' = token /\ mergeTask' = [mergeTask EXCEPT ![m] = IF s \in token THEN "drop token" ELSE "move token"]
        BY <3>1 DEF Accounts!FindToken, Accounts!Goto, Accounts!moved
      <4>2. mergeTask'[m] \in {"drop token", "move token"}
        BY <4>1 DEF AccountTypes
      <4> QED
        BY <4>1, <4>2, <2>3, <1>4
    <3>2. CASE Accounts!SettleToken(m)
      <4>1. \/ token' = token \ {a}
            \/ {s, a} \subseteq token /\ token' = token /\ mergeTask' = [mergeTask EXCEPT ![m] = "dead"]
            \/ ~({s, a} \subseteq token) /\ token' = IF a \in token THEN (token \ {a}) \cup {s} ELSE token
        BY <3>2 DEF Accounts!SettleToken, Accounts!Goto
      <4>2. mergeTask' = [mergeTask EXCEPT ![m] = "dead"] => pc = "dead"
        BY <1>b, <2>3
      <4> HIDE DEF MergeInv, s, a
      <4> QED
        BY <4>1, <4>2, <1>2, <1>4
    <3> QED
      BY <1>10, <3>1, <3>2
  <2>5. MovedInv(m)'
    <3>1. mergeTask[m] \in SeatMoved /\ mergeTask[m] \in RowsMoved /\ pc # "finish" /\ (pc \in TokenMoved => pc = "free")
      BY <2>1, <2>2 DEF SeatMoved, RowsMoved, TokenMoved
    <3>2. seat[a] = 0 /\ \A r \in Rows : owner[r] = a => <<"row", a>> \in accLate
      BY <1>3, <3>1 DEF MovedInv, Reached
    <3>3. merge' = merge /\ seat' = seat /\ owner' = owner /\ accLate' = accLate
      BY <1>1, <2>1
    <3> HIDE DEF MergeInv
    <3> QED
      BY <1>2, <2>3, <2>4, <3>1, <3>2, <3>3 DEF MovedInv, Reached
  <2>6. pc \in Further /\ pc # "finish"
    BY DEF Further
  <2> HIDE DEF MergeInv, s, a
  <2> QED
    BY <1>4, <1>a, <2>1, <2>2, <2>4, <2>5, <2>6
<1> QED
  BY <1>5, <1>6, <1>7, <1>8, <1>9, <1>10

\* A task stops, fails, or is resumed from its record.
LEMMA StopsStep ==
    ASSUME MergeConstants, MergeInv, NEW m \in Requests,
           \/ Accounts!Stop(m) \/ Accounts!Resume(m)
           \/ /\ Accounts!TakeMethods(m)
              /\ Accounts!Taken(merge[m].survivor, Accounts!Merged(merge[m].mine, merge[m].theirs))
    PROVE  MergeInv'
<1> USE DEF MergeInv
<1>1. /\ UNCHANGED <<account, merge, accReq, accLate, known, proposal, seat, owner, token, signedIn>>
      /\ mergeTask[m] # "none"
      /\ \/ mergeTask' = [mergeTask EXCEPT ![m] = "dead"]
         \/ (mergeTask' = [mergeTask EXCEPT ![m] = "revoke"] /\ merge[m].status = "running")
  BY DEF Accounts!Stop, Accounts!Resume, Accounts!TakeMethods, Accounts!Goto, Accounts!moved
<1>2. PICK pc \in {"dead", "revoke"} :
        /\ mergeTask' = [mergeTask EXCEPT ![m] = pc]
        /\ (pc = "dead" \/ merge[m].status = "running")
  BY <1>1
<1>3. mergeTask'[m] = pc /\ \A n \in Requests \ {m} : mergeTask'[n] = mergeTask[n]
  BY <1>2 DEF AccountTypes
<1>4. ASSUME NEW n \in Requests PROVE MovedInv(n)'
  <2>1. CASE n = m
    <3>1. pc \notin SeatMoved /\ pc \notin RowsMoved /\ pc \notin TokenMoved /\ pc # "finish"
      BY DEF SeatMoved, RowsMoved, TokenMoved
    <3> QED
      BY <1>1, <1>3, <2>1, <3>1 DEF MovedInv, Reached
  <2>2. CASE n # m
    BY <1>1, <1>3, <2>2 DEF MovedInv, Reached
  <2> QED
    BY <2>1, <2>2
<1>5. pc \in Further /\ pc # "finish"
  BY DEF Further
<1>6. /\ proposal' \in [Accs -> Errand] /\ seat' \in [Accs -> 0..2] /\ owner' \in [Rows -> Accs]
      /\ token' \subseteq Accs /\ signedIn' \subseteq Accs
      /\ \A u \in Accs : proposal'[u] # Accounts!Idle => proposal'[u].user \in Accs \ {u}
  BY <1>1 DEF AccountTypes, AskedInv
<1> HIDE DEF MergeInv
<1> QED
  BY <1>1, <1>2, <1>4, <1>5, <1>6, MoverStep

-----------------------------------------------------------------------------
\* Requests. What a request is about to do is one of its errands.
LEMMA ErrandType ==
    ASSUME NEW pc \in {"upsert", "session", "token", "linked", "proven", "propose", "add", "unlink", "work", "over"},
           NEW u \in Acc, NEW w \in Acc, NEW k \in Accounts!Kinds, NEW v \in Id
    PROVE  LET e == [pc |-> pc, user |-> u, other |-> w, kind |-> k, id |-> v]
           IN  e \in Errand /\ e.pc = pc /\ e.user = u /\ e.other = w /\ e.kind = k /\ e.id = v
<1> HIDE DEF Accounts!Kinds
<1> QED
  BY DEF Errand

\* The request is over.
LEMMA OverErrand ==
    LET e == [pc |-> "over", user |-> None, other |-> None, kind |-> "github", id |-> None]
    IN  e \in Errand /\ ErrandInv(e)
<1>1. None \in Acc /\ None \in Id /\ "github" \in Accounts!Kinds
  BY DEF Acc, Id, Accounts!Kinds
<1> HIDE DEF Accounts!Kinds
<1> QED
  BY <1>1, ErrandType DEF ErrandInv

\* An account that a merge held, or left, is held or gone: what a request writes for
\* it is late.
LEMMA LeftIsHeldOrGone ==
    ASSUME MergeConstants, MergeInv, NEW n \in Requests,
           \/ Reached(n, SeatMoved) \/ Reached(n, RowsMoved) \/ Reached(n, TokenMoved) \/ Reached(n, {"finish"})
    PROVE  /\ merge[n].absorbed \in Accs
           /\ Accounts!Held(merge[n].absorbed) \/ merge[n].absorbed \notin Accounts!Present
<1> USE DEF MergeInv
<1>1. merge[n].status # "none"
  BY ReachedBegan
<1>2. merge[n].absorbed \in Accs
  BY <1>1, RunningMerge
<1>3. ~account[merge[n].absorbed].here \/ Has(n, merge[n].absorbed)
  BY <1>1, RunningMerge
<1>4. n # None
  BY DEF MergeConstants
<1> QED
  BY <1>2, <1>3, <1>4 DEF Has, Accounts!Held, Accounts!Present

\* A step of a request that changes no account.
LEMMA ErrandStep ==
    ASSUME MergeConstants, MergeInv, accReq' \in [Requests -> Errand], \A q \in Requests : ErrandInv(accReq'[q]),
           UNCHANGED <<account, merge, mergeTask, seat>>,
           known' \subseteq Github \cup Emails, \A v \in known' \ known : HeldBy(v),
           proposal' \in [Accs -> Errand],
           \A u \in Accs : proposal'[u] # Accounts!Idle => proposal'[u].user \in Accs \ {u},
           owner' \in [Rows -> Accs], token' \subseteq Accs, signedIn' \subseteq Accs,
           \A u \in Accs : <<"method", u>> \in accLate' <=> <<"method", u>> \in accLate,
           \A n \in Requests : MovedInv(n)'
    PROVE  MergeInv'
<1> USE DEF MergeInv
<1>1. AccountTypes'
  BY DEF AccountTypes
<1>2. AskedInv'
  BY DEF AskedInv
<1>3. UniqueInv'
  BY DEF UniqueInv
<1>4. LockInv'
  <2>0. \A n \in Requests : Accounts!FirstOf(n)' = Accounts!FirstOf(n)
    BY DEF Accounts!FirstOf, Accounts!Pair
  <2>1. ASSUME NEW n \in Requests PROVE RecordInv(n)' /\ StandInv(n)'
    <3>1. RecordInv(n) /\ StandInv(n)
      BY DEF LockInv
    <3>2. RecordInv(n)'
      BY <3>1 DEF RecordInv
    <3>3. Has(n, Accounts!FirstOf(n))' <=> Has(n, Accounts!FirstOf(n))
      BY <2>0 DEF Has
    <3>4. \A u : Has(n, u)' <=> Has(n, u)
      BY DEF Has
    <3>5. StandInv(n)'
      BY <3>1, <3>3, <3>4, Zenon DEF StandInv
    <3> QED
      BY <3>2, <3>5
  <2> QED
    BY <2>1 DEF LockInv, Accounts!Pair
<1>5. MethodsInv'
  <2>1. LateInv' /\ (Tidy' => Tidy)
    BY DEF MethodsInv, LateInv, Tidy, Accounts!Pair
  <2>2. ASSUME NEW n \in Requests, SnapshotInv(n) PROVE SnapshotInv(n)'
    BY <2>2 DEF SnapshotInv, Accounts!Merged
  <2>3. Agreed' => Agreed
    BY DEF Agreed, Accounts!Conflicts
  <2>4. \A v : (HeldBy(v) => HeldBy(v)') /\ (OnRecord(v) => OnRecord(v)')
    BY DEF HeldBy, OnRecord
  <2> QED
    BY <2>1, <2>2, <2>3, <2>4 DEF MethodsInv
<1> QED
  BY <1>1, <1>2, <1>3, <1>4, <1>5

\* What was moved stays so, when a request writes late, or what nobody moved.
LEMMA StaysMoved ==
    ASSUME MergeConstants, MergeInv, UNCHANGED <<merge, mergeTask, seat>>, accLate \subseteq accLate',
           \A u \in Accs :
             /\ Accounts!Held(u) \/ u \notin Accounts!Present =>
                  /\ \A r \in Rows : owner'[r] = u => owner[r] = u \/ <<"row", u>> \in accLate'
                  /\ u \in token' => u \in token \/ <<"token", u>> \in accLate'
             /\ Accounts!Past(u) => (u \in signedIn' => u \in signedIn \/ <<"session", u>> \in accLate')
    PROVE  \A n \in Requests : MovedInv(n)'
<1> SUFFICES ASSUME NEW n \in Requests PROVE MovedInv(n)'
  OBVIOUS
<1> DEFINE a == merge[n].absorbed
<1>1. MovedInv(n)
  BY DEF MergeInv
<1>2. merge' = merge /\ seat' = seat /\ \A T : Reached(n, T)' <=> Reached(n, T)
  BY DEF Reached
<1>3. Reached(n, {"finish"}) => Accounts!Past(a)
  BY DEF Reached, Accounts!Past
<1>4. ASSUME Reached(n, SeatMoved) PROVE seat'[a] = 0
  BY <1>1, <1>2, <1>4 DEF MovedInv
<1>5. ASSUME Reached(n, RowsMoved), NEW r \in Rows, owner'[r] = a PROVE <<"row", a>> \in accLate'
  <2>1. a \in Accs /\ (Accounts!Held(a) \/ a \notin Accounts!Present)
    BY <1>5, LeftIsHeldOrGone
  <2>2. owner[r] = a \/ <<"row", a>> \in accLate'
    BY <2>1, <1>5
  <2> QED
    BY <1>1, <1>5, <2>2 DEF MovedInv
<1>6. ASSUME Reached(n, TokenMoved), a \in token' PROVE <<"token", a>> \in accLate'
  <2>1. a \in Accs /\ (Accounts!Held(a) \/ a \notin Accounts!Present)
    BY <1>6, LeftIsHeldOrGone
  <2>2. a \in token \/ <<"token", a>> \in accLate'
    BY <2>1, <1>6
  <2> QED
    BY <1>1, <1>6, <2>2 DEF MovedInv
<1>7. ASSUME Reached(n, {"finish"}), a \in signedIn' PROVE <<"session", a>> \in accLate'
  <2>1. a \in Accs
    BY <1>7, LeftIsHeldOrGone
  <2>2. a \in signedIn \/ <<"session", a>> \in accLate'
    BY <2>1, <1>3, <1>7
  <2> QED
    BY <1>1, <1>7, <2>2 DEF MovedInv
<1> QED
  BY <1>2, <1>4, <1>5, <1>6, <1>7 DEF MovedInv, Reached

\* A step of a request that writes an account, which it need not have found, but which
\* is none that a merge removed.
LEMMA WriteStep ==
    ASSUME MergeConstants, MergeInv, accReq' \in [Requests -> Errand], \A q \in Requests : ErrandInv(accReq'[q]),
           NEW u \in Accs, NEW rec \in Account, account' = [account EXCEPT ![u] = rec],
           rec.here, rec.lock = account[u].lock, NobodyElses(u, rec.methods),
           account[u].here \/ u \notin Accounts!Absorbed,
           UNCHANGED <<merge, mergeTask, proposal, seat, owner, signedIn>>,
           known' \subseteq Github \cup Emails, token' \subseteq token,
           accLate' = IF Accounts!Held(u) THEN accLate \cup {<<"method", u>>} ELSE accLate,
           Tidy' /\ Agreed => \A v \in known' : HeldBy(v)' \/ OnRecord(v)
    PROVE  MergeInv'
<1> USE DEF MergeInv
<1>a. /\ account' \in [Accs -> Account] /\ account'[u] = rec
      /\ \A w \in Accs \ {u} : account'[w] = account[w]
  BY DEF AccountTypes
<1>f. \A n \in Requests : Accounts!FirstOf(n)' = Accounts!FirstOf(n)
  BY DEF Accounts!FirstOf, Accounts!Pair
<1>r. \A n \in Requests : RecordInv(n) /\ StandInv(n)
  BY DEF LockInv
<1>h. ASSUME NEW n \in Requests, NEW w \in Accs, Has(n, w) PROVE Has(n, w)' /\ (w = u => Accounts!Held(u))
  <2>1. n # None
    BY DEF MergeConstants
  <2> QED
    BY <1>h, <1>a, <2>1 DEF Has, Accounts!Held
<1>g. ASSUME NEW n \in Requests, merge[n].status # "none", ~account[merge[n].absorbed].here
      PROVE  merge[n].absorbed # u /\ ~account'[merge[n].absorbed].here
  <2>1. merge[n].absorbed \in Accounts!Absorbed
    BY <1>g DEF Accounts!Absorbed
  <2>2. merge[n].absorbed \in Accs
    BY <1>g, RunningMerge
  <2> QED
    BY <2>1, <2>2, <1>g, <1>a
<1>1. AccountTypes'
  BY <1>a DEF AccountTypes
<1>2. AskedInv'
  BY DEF AskedInv
<1>3. UniqueInv'
  <2>1. \A w \in Accs : ~account'[w].here => account'[w].methods = Accounts!NoMethods /\ account'[w].lock = None
    BY <1>a DEF UniqueInv
  <2>2. ASSUME NEW v \in Accs, NEW w \in Accs, NEW k \in Accounts!Kinds,
               account'[v].methods[k] = account'[w].methods[k], account'[v].methods[k] # None
        PROVE  v = w
    BY <2>2, <1>a DEF UniqueInv, NobodyElses
  <2> QED
    BY <2>1, <2>2 DEF UniqueInv
<1>4. LockInv'
  <2>1. ASSUME NEW n \in Requests PROVE RecordInv(n)' /\ StandInv(n)'
    <3>2. RecordInv(n)'
      BY <1>r DEF RecordInv
    <3>3. mergeTask[n] # "none" => merge[n].survivor \in Accs /\ merge[n].absorbed \in Accs \ {merge[n].survivor}
      BY <1>r DEF RecordInv
    <3>4. mergeTask[n] # "none" \/ merge[n].status = "none"
      BY <1>r, NoMergeType DEF RecordInv
    <3>5. mergeTask[n] = "lock2" => Has(n, Accounts!FirstOf(n))'
      <4>1. SUFFICES ASSUME mergeTask[n] = "lock2" PROVE Has(n, Accounts!FirstOf(n))'
        OBVIOUS
      <4>2. Has(n, Accounts!FirstOf(n)) /\ Accounts!FirstOf(n) \in Accs
        BY <4>1, <1>r, <3>3, FirstAndSecond DEF StandInv
      <4> QED
        BY <4>2, <1>h, <1>f DEF Has
    <3>6. mergeTask[n] \in {"mine", "theirs", "insert"} => Has(n, merge[n].survivor)' /\ Has(n, merge[n].absorbed)'
      <4>1. SUFFICES ASSUME mergeTask[n] \in {"mine", "theirs", "insert"}
                     PROVE  Has(n, merge[n].survivor)' /\ Has(n, merge[n].absorbed)'
        OBVIOUS
      <4>2. Has(n, merge[n].survivor) /\ Has(n, merge[n].absorbed)
        BY <4>1, <1>r DEF StandInv
      <4>3. merge[n].survivor \in Accs /\ merge[n].absorbed \in Accs
        BY <4>1, <3>3
      <4> QED
        BY <4>2, <4>3, <1>h DEF Has
    <3>7. merge[n].status = "running" =>
            Has(n, merge[n].survivor)' /\ (~account'[merge[n].absorbed].here \/ Has(n, merge[n].absorbed)')
      <4>1. SUFFICES ASSUME merge[n].status = "running"
                     PROVE  /\ Has(n, merge[n].survivor)'
                            /\ ~account'[merge[n].absorbed].here \/ Has(n, merge[n].absorbed)'
        OBVIOUS
      <4>2. Has(n, merge[n].survivor) /\ (~account[merge[n].absorbed].here \/ Has(n, merge[n].absorbed))
        BY <4>1, <1>r DEF StandInv
      <4>3. merge[n].survivor \in Accs /\ merge[n].absorbed \in Accs
        BY <4>1, <3>3, <3>4
      <4> QED
        BY <4>1, <4>2, <4>3, <1>h, <1>g DEF Has
    <3>8. mergeTask[n] \in {"revoke again", "finish"} \/ merge[n].status = "done" => ~account'[merge[n].absorbed].here
      <4>1. mergeTask[n] \in {"revoke again", "finish"} => merge[n].status = "running"
        BY <1>r, Places DEF RecordInv
      <4> QED
        BY <4>1, <1>r, <1>g DEF StandInv
    <3>9. merge' = merge /\ mergeTask' = mergeTask
      OBVIOUS
    <3>10. StandInv(n)'
      BY <3>5, <3>6, <3>7, <3>8, <3>9 DEF StandInv, Has
    <3> QED
      BY <3>2, <3>10
  <2>2. \A w \in Accs : account'[w].lock = account[w].lock
    BY <1>a
  <2> QED
    BY <2>1, <2>2 DEF LockInv, Accounts!Pair
<1>5. ASSUME NEW n \in Requests PROVE MovedInv(n)'
  BY DEF MovedInv, Reached
<1>6. MethodsInv'
  <2>1. LateInv'
    <3>1. ASSUME NEW w \in Accs, <<"method", w>> \in accLate', <<"method", w>> \notin accLate
          PROVE  \E n \in Requests : mergeTask[n] # "none" /\ w \in Accounts!Pair(n)
      <4>1. w = u /\ Accounts!Held(u)
        BY <3>1
      <4>2. account[u].lock \in Requests
        BY <4>1, MergeFields DEF Accounts!Held
      <4> QED
        BY <4>1, <4>2 DEF LockInv, Accounts!Held
    <3> QED
      BY <3>1 DEF MethodsInv, LateInv, Accounts!Pair
  <2>2. Tidy' => Tidy /\ ~Accounts!Held(u)
    BY DEF Tidy
  <2>3. ASSUME Tidy', NEW n \in Requests PROVE SnapshotInv(n)'
    <3>1. SnapshotInv(n) /\ RecordInv(n) /\ StandInv(n)
      BY <2>2, <2>3, <1>r DEF MethodsInv
    <3>3. CASE mergeTask[n] \notin {"theirs", "insert"} /\ merge[n].status # "running"
      <4>1. mergeTask[n] \notin {"take", "remove", "revoke again", "finish"}
        BY <3>1, <3>3, Places DEF RecordInv
      <4> QED
        BY <3>3, <4>1 DEF SnapshotInv
    <3>4. CASE mergeTask[n] \in {"theirs", "insert"} \/ merge[n].status = "running"
      <4>1. mergeTask[n] # "none"
        BY <3>1, <3>4, NoMergeType DEF RecordInv
      <4>2. merge[n].survivor \in Accs /\ merge[n].absorbed \in Accs
        BY <3>1, <4>1 DEF RecordInv
      <4>3. Has(n, merge[n].survivor)
            /\ ((merge[n].status # "none" /\ ~account[merge[n].absorbed].here) \/ Has(n, merge[n].absorbed))
        BY <3>1, <3>4 DEF StandInv
      <4>4. merge[n].survivor # u /\ merge[n].absorbed # u
        BY <4>2, <4>3, <1>h, <1>g, <2>2, <2>3
      <4>5. /\ account'[merge[n].survivor] = account[merge[n].survivor]
            /\ account'[merge[n].absorbed] = account[merge[n].absorbed]
        BY <4>2, <4>4, <1>a
      <4>6. merge' = merge /\ mergeTask' = mergeTask
        OBVIOUS
      <4>7. Accounts!Merged(merge'[n].mine, merge'[n].theirs) = Accounts!Merged(merge[n].mine, merge[n].theirs)
        BY <4>6
      <4> HIDE DEF MergeInv
      <4> QED
        BY <3>1, <4>5, <4>6, <4>7 DEF SnapshotInv
    <3> QED
      BY <3>3, <3>4
  <2>4. (Agreed' => Agreed) /\ \A v : OnRecord(v) => OnRecord(v)'
    BY DEF Agreed, Accounts!Conflicts, OnRecord
  <2> QED
    BY <2>1, <2>3, <2>4 DEF MethodsInv
<1> QED
  BY <1>1, <1>2, <1>3, <1>4, <1>5, <1>6

\* A step of a request that asks, and writes nothing but what it goes on with.
LEMMA AskStep ==
    ASSUME MergeConstants, MergeInv, NEW q \in Requests, NEW e \in Errand, ErrandInv(e),
           accReq' = [accReq EXCEPT ![q] = e],
           UNCHANGED <<account, merge, mergeTask, seat, owner, token, accLate>>, signedIn' \subseteq signedIn,
           known' \subseteq Github \cup Emails, \A v \in known' \ known : HeldBy(v),
           proposal' \in [Accs -> Errand],
           \A u \in Accs : proposal'[u] # Accounts!Idle => proposal'[u].user \in Accs \ {u}
    PROVE  MergeInv'
<1> USE DEF MergeInv
<1>1. accReq' \in [Requests -> Errand] /\ \A p \in Requests : ErrandInv(accReq'[p])
  <2>1. accReq'[q] = e /\ \A p \in Requests \ {q} : accReq'[p] = accReq[p]
    BY DEF AccountTypes
  <2> QED
    BY <2>1 DEF AccountTypes, AskedInv
<1>2. \A n \in Requests : MovedInv(n)'
  BY StaysMoved
<1>3. owner' \in [Rows -> Accs] /\ token' \subseteq Accs /\ signedIn' \subseteq Accs
  BY DEF AccountTypes
<1> HIDE DEF MergeInv
<1> QED
  BY <1>1, <1>2, <1>3, ErrandStep

LEMMA ProposalsRest ==
    ASSUME MergeInv, UNCHANGED <<proposal, known>>
    PROVE  /\ proposal' \in [Accs -> Errand]
           /\ \A u \in Accs : proposal'[u] # Accounts!Idle => proposal'[u].user \in Accs \ {u}
           /\ known' \subseteq Github \cup Emails /\ known' \ known = {}
  BY DEF MergeInv, AccountTypes, AskedInv

LEMMA KindIds ==
    /\ "github" \in Accounts!Kinds /\ "email" \in Accounts!Kinds
    /\ Github \subseteq Id /\ Emails \subseteq Id /\ None \in Id /\ None \in Acc /\ Accs \subseteq Acc
  BY DEF Accounts!Kinds, Id, Acc

LEMMA CancelStep == ASSUME MergeConstants, MergeInv, NEW u \in Accs, Accounts!Cancel(u) PROVE MergeInv'
<1>1. /\ Accounts!Forget(u)
      /\ UNCHANGED <<account, accReq, signedIn, seat, owner, token, accLate, known, merge, mergeTask>>
  BY DEF Accounts!Cancel, Accounts!moved
<1>2. /\ proposal' \in [Accs -> Errand]
      /\ \A w \in Accs : proposal'[w] # Accounts!Idle => proposal'[w].user \in Accs \ {w}
  BY <1>1, ForgetTypes DEF MergeInv
<1>3. /\ accReq' \in [Requests -> Errand] /\ \A q \in Requests : ErrandInv(accReq'[q])
      /\ owner' \in [Rows -> Accs] /\ token' \subseteq Accs /\ signedIn' \subseteq Accs
      /\ known' \subseteq Github \cup Emails /\ known' \ known = {}
  BY <1>1 DEF MergeInv, AccountTypes, AskedInv
<1>4. \A n \in Requests : MovedInv(n)'
  BY <1>1, StaysMoved
<1> QED
  BY <1>1, <1>2, <1>3, <1>4, ErrandStep

LEMMA SignInStep ==
    ASSUME MergeConstants, MergeInv, NEW q \in Requests, NEW k \in Accounts!Kinds,
           NEW v \in IF k = "github" THEN Github ELSE Emails, Accounts!SignIn(q, k, v)
    PROVE  MergeInv'
<1>1. /\ UNCHANGED <<account, signedIn, seat, owner, token, accLate, known, proposal, merge, mergeTask>>
      /\ IF k = "github" THEN Accounts!Then(q, "upsert", None, k, v)
         ELSE \E u \in Accounts!Holders(k, v) : Accounts!Then(q, "session", u, k, v)
  BY DEF Accounts!SignIn, Accounts!moved, Accounts!mergeVars
<1>2. PICK pc \in {"upsert", "session"}, u \in Acc :
        /\ pc = "upsert" => k = "github"
        /\ pc = "session" => u \in Accs
        /\ accReq' = [accReq EXCEPT ![q] = [pc |-> pc, user |-> u, other |-> None, kind |-> k, id |-> v]]
  <2>1. CASE k = "github"
    BY <1>1, <2>1, KindIds DEF Accounts!Then
  <2>2. CASE k # "github"
    BY <1>1, <2>2, KindIds DEF Accounts!Then, Accounts!Holders, Accounts!Present
  <2> QED
    BY <2>1, <2>2
<1>3. v \in Id
  BY KindIds
<1> DEFINE e == [pc |-> pc, user |-> u, other |-> None, kind |-> k, id |-> v]
<1>4. e \in Errand /\ e.pc = pc /\ e.user = u /\ e.kind = k /\ e.id = v
  BY <1>3, KindIds, ErrandType
<1> HIDE DEF e
<1>5. ErrandInv(e)
  BY <1>2, <1>4 DEF ErrandInv
<1>6. accReq' = [accReq EXCEPT ![q] = e]
  BY <1>2 DEF e
<1> QED
  BY <1>1, <1>4, <1>5, <1>6, ProposalsRest, AskStep

LEMMA AskForStep ==
    ASSUME MergeConstants, MergeInv, NEW q \in Requests, NEW u \in Accs, NEW k \in Accounts!Kinds,
           Accounts!AskUnlink(q, u, k) \/ Accounts!ClaimRefresh(q, u) \/ Accounts!Work(q, u)
    PROVE  MergeInv'
<1>1. /\ UNCHANGED <<account, seat, owner, token, accLate, known, proposal, merge, mergeTask>>
      /\ signedIn' \subseteq signedIn
  BY DEF Accounts!AskUnlink, Accounts!ClaimRefresh, Accounts!Work, Accounts!moved, Accounts!mergeVars
<1>2. account[u].methods[k] \in Id
  BY MergeFields, MethodsAreFunctions DEF MergeInv
<1>3. PICK pc \in {"unlink", "session", "work"}, j \in Accounts!Kinds, v \in Id :
        accReq' = [accReq EXCEPT ![q] = [pc |-> pc, user |-> u, other |-> None, kind |-> j, id |-> v]]
  <2>1. CASE Accounts!AskUnlink(q, u, k)
    BY <1>2, <2>1 DEF Accounts!AskUnlink, Accounts!Then
  <2>2. CASE Accounts!ClaimRefresh(q, u)
    BY <2>2, KindIds DEF Accounts!ClaimRefresh, Accounts!Then
  <2>3. CASE Accounts!Work(q, u)
    BY <2>3, KindIds DEF Accounts!Work, Accounts!Then
  <2> QED
    BY <2>1, <2>2, <2>3
<1> DEFINE e == [pc |-> pc, user |-> u, other |-> None, kind |-> j, id |-> v]
<1>4. e \in Errand /\ e.pc = pc /\ e.user = u
  BY KindIds, ErrandType
<1> HIDE DEF e
<1>5. ErrandInv(e)
  BY <1>4 DEF ErrandInv
<1>6. accReq' = [accReq EXCEPT ![q] = e]
  BY <1>3 DEF e
<1> QED
  BY <1>1, <1>4, <1>5, <1>6, ProposalsRest, AskStep

LEMMA ProveStep ==
    ASSUME MergeConstants, MergeInv, NEW q \in Requests, NEW u \in Accs, NEW k \in Accounts!Kinds,
           NEW v \in IF k = "github" THEN Github ELSE Emails, Accounts!Prove(q, u, k, v)
    PROVE  MergeInv'
<1>1. UNCHANGED <<account, signedIn, seat, owner, token, accLate, known, proposal, merge, mergeTask>>
  BY DEF Accounts!Prove, Accounts!moved, Accounts!mergeVars
<1>2. /\ u \in Accounts!Present
      /\ IF Accounts!Holders(k, v) \subseteq {u} THEN Accounts!Then(q, "add", u, k, v)
         ELSE \E w \in Accounts!Holders(k, v) :
                accReq' = [accReq EXCEPT ![q] = [pc |-> IF k = "github" THEN "proven" ELSE "propose",
                                                user |-> u, other |-> w, kind |-> k, id |-> v]]
  BY DEF Accounts!Prove
<1>3. v \in Id /\ v # None
  BY KindIds DEF MergeConstants
<1>4. ASSUME NEW w \in Accounts!Holders(k, v), ~(Accounts!Holders(k, v) \subseteq {u}) PROVE w \in Accs \ {u}
  <2>1. PICK x \in Accounts!Holders(k, v) : x # u
    BY <1>4
  <2>2. /\ w \in Accs /\ x \in Accs /\ account[w].methods[k] = v /\ account[x].methods[k] = v
    BY DEF Accounts!Holders, Accounts!Present
  <2>3. w = x
    BY <2>2, <1>3 DEF MergeInv, UniqueInv
  <2> QED
    BY <2>1, <2>2, <2>3
<1>5. PICK pc \in {"add", "proven", "propose"}, w \in Acc :
        /\ pc # "add" => w \in Accs \ {u}
        /\ accReq' = [accReq EXCEPT ![q] = [pc |-> pc, user |-> u, other |-> w, kind |-> k, id |-> v]]
  <2>1. CASE Accounts!Holders(k, v) \subseteq {u}
    BY <1>2, <2>1, KindIds DEF Accounts!Then
  <2>2. CASE ~(Accounts!Holders(k, v) \subseteq {u})
    <3>1. PICK w \in Accounts!Holders(k, v) :
                accReq' = [accReq EXCEPT ![q] = [pc |-> IF k = "github" THEN "proven" ELSE "propose",
                                                user |-> u, other |-> w, kind |-> k, id |-> v]]
      BY <1>2, <2>2
    <3>2. w \in Accs \ {u}
      BY <1>4, <2>2
    <3> QED
      BY <3>1, <3>2, KindIds
  <2> QED
    BY <2>1, <2>2
<1> DEFINE e == [pc |-> pc, user |-> u, other |-> w, kind |-> k, id |-> v]
<1>6. e \in Errand /\ e.pc = pc /\ e.user = u /\ e.other = w /\ e.kind = k /\ e.id = v
  BY <1>3, KindIds, ErrandType
<1> HIDE DEF e
<1>7. ErrandInv(e)
  BY <1>5, <1>6 DEF ErrandInv
<1>8. accReq' = [accReq EXCEPT ![q] = e]
  BY <1>5 DEF e
<1> QED
  BY <1>1, <1>6, <1>7, <1>8, ProposalsRest, AskStep

LEMMA ProposeStep == ASSUME MergeConstants, MergeInv, NEW q \in Requests, Accounts!Propose(q) PROVE MergeInv'
<1> DEFINE r == accReq[q]
           e == [pc |-> "over", user |-> None, other |-> None, kind |-> "github", id |-> None]
<1>1. /\ r.pc = "propose" /\ accReq' = [accReq EXCEPT ![q] = e]
      /\ proposal' = [proposal EXCEPT ![r.user] = [r EXCEPT !.user = r.other]]
      /\ UNCHANGED <<account, signedIn, seat, owner, token, accLate, known, merge, mergeTask>>
  BY DEF Accounts!Propose, Accounts!Over, Accounts!Then, Accounts!moved
<1>2. e \in Errand /\ ErrandInv(e)
  BY OverErrand
<1> HIDE DEF e
<1>3. r \in Errand /\ r.user \in Accs /\ r.other \in Accs \ {r.user}
  BY <1>1, MergeFields DEF MergeInv, AskedInv, ErrandInv
<1>4. [r EXCEPT !.user = r.other] \in Errand /\ [r EXCEPT !.user = r.other].user = r.other
  <2> HIDE DEF Accounts!Kinds, r
  <2> QED
    BY <1>3, KindIds DEF Errand
<1>5. /\ proposal' \in [Accs -> Errand]
      /\ \A u \in Accs : proposal'[u] # Accounts!Idle => proposal'[u].user \in Accs \ {u}
  <2>1. /\ proposal \in [Accs -> Errand]
        /\ \A u \in Accs : proposal[u] # Accounts!Idle => proposal[u].user \in Accs \ {u}
    BY DEF MergeInv, AccountTypes, AskedInv
  <2> HIDE DEF r
  <2> QED
    BY <1>1, <1>3, <1>4, <2>1
<1>6. known' \subseteq Github \cup Emails /\ known' \ known = {} /\ signedIn' \subseteq signedIn
  BY <1>1 DEF MergeInv, AccountTypes
<1> QED
  BY <1>1, <1>2, <1>5, <1>6, AskStep

LEMMA UpsertStep == ASSUME MergeConstants, MergeInv, NEW q \in Requests, Accounts!Upsert(q) PROVE MergeInv'
<1> DEFINE v == accReq[q].id
           e(u) == [pc |-> "token", user |-> u, other |-> None, kind |-> "github", id |-> v]
<1>1. /\ accReq[q].pc = "upsert" /\ known' = known \cup {v}
      /\ UNCHANGED <<signedIn, seat, owner, token, accLate, proposal, merge, mergeTask>>
  BY DEF Accounts!Upsert, Accounts!moved, Accounts!mergeVars
<1>2. v \in Github /\ v # None
  BY <1>1 DEF MergeInv, AskedInv, ErrandInv, MergeConstants
<1>3. \A u \in Accs : e(u) \in Errand /\ ErrandInv(e(u))
  <2> SUFFICES ASSUME NEW u \in Accs PROVE e(u) \in Errand /\ ErrandInv(e(u))
    OBVIOUS
  <2>1. e(u) \in Errand /\ e(u).pc = "token" /\ e(u).user = u
    BY <1>2, KindIds, ErrandType
  <2> HIDE DEF e
  <2> QED
    BY <2>1 DEF ErrandInv
<1>k. known' \subseteq Github \cup Emails
  BY <1>1, <1>2 DEF MergeInv, AccountTypes
<1>4. ASSUME NEW u \in Accounts!Holders("github", v), account' = account, Accounts!Then(q, "token", u, "github", v)
      PROVE  MergeInv'
  <2>1. u \in Accs /\ HeldBy(v)
    BY KindIds DEF Accounts!Holders, Accounts!Present, HeldBy
  <2>2. accReq' = [accReq EXCEPT ![q] = e(u)]
    BY <1>4 DEF Accounts!Then
  <2>3. e(u) \in Errand /\ ErrandInv(e(u))
    BY <1>3, <2>1
  <2>4. \A x \in known' \ known : HeldBy(x)
    BY <1>1, <2>1
  <2>5. /\ proposal' \in [Accs -> Errand]
        /\ \A w \in Accs : proposal'[w] # Accounts!Idle => proposal'[w].user \in Accs \ {w}
    BY <1>1 DEF MergeInv, AccountTypes, AskedInv
  <2>6. signedIn' \subseteq signedIn
    BY <1>1
  <2> HIDE DEF e, v
  <2> QED
    BY <1>1, <1>4, <1>k, <2>2, <2>3, <2>4, <2>5, <2>6, AskStep
<1>5. ASSUME Accounts!Holders("github", v) = {}, NEW u \in Accs \ (Accounts!Present \cup Accounts!Absorbed),
             account' = [account EXCEPT ![u].here = TRUE, ![u].methods["github"] = v],
             Accounts!Then(q, "token", u, "github", v)
      PROVE  MergeInv'
  <2> DEFINE ms == [account[u].methods EXCEPT !["github"] = v]
             rec == [account[u] EXCEPT !.here = TRUE, !.methods = ms]
  <2>1. ~account[u].here /\ u \notin Accounts!Absorbed /\ u \in Accs
    BY DEF Accounts!Present
  <2>2. account[u].methods = Accounts!NoMethods /\ account[u].lock = None
    BY <2>1 DEF MergeInv, UniqueInv
  <2>3. ms \in Accounts!Methods /\ ms["github"] = v /\ \A j \in Accounts!Kinds \ {"github"} : ms[j] = None
    BY <1>2, <2>2, KindIds, MethodsAreFunctions, MethodPut
  <2>4. account' = [account EXCEPT ![u] = rec]
    BY <1>5
  <2>5. rec \in Account /\ rec.here /\ rec.methods = ms /\ rec.lock = None
    <3> HIDE DEF ms, Accounts!Methods
    <3>1. account[u] \in Account
      BY <2>1 DEF MergeInv, AccountTypes
    <3> QED
      BY <3>1, <2>2, <2>3 DEF Account
  <2> HIDE DEF rec, ms
  <2>6. NobodyElses(u, ms)
    <3>1. ASSUME NEW w \in Accs, NEW k \in Accounts!Kinds, ms[k] # None PROVE account[w].methods[k] # ms[k]
      <4>1. k = "github" /\ ms[k] = v
        BY <2>3, <3>1
      <4>2. CASE account[w].here
        BY <4>1, <4>2, <1>5 DEF Accounts!Holders, Accounts!Present
      <4>3. CASE ~account[w].here
        BY <4>1, <4>3, <1>2, MethodsAreFunctions DEF MergeInv, UniqueInv
      <4> QED
        BY <4>2, <4>3
    <3> QED
      BY <3>1 DEF NobodyElses
  <2>7. accReq' \in [Requests -> Errand] /\ \A p \in Requests : ErrandInv(accReq'[p])
    <3>1. accReq' = [accReq EXCEPT ![q] = e(u)] /\ e(u) \in Errand /\ ErrandInv(e(u))
      BY <1>3, <1>5 DEF Accounts!Then
    <3>2. accReq \in [Requests -> Errand] /\ \A p \in Requests : ErrandInv(accReq[p])
      BY DEF MergeInv, AccountTypes, AskedInv
    <3> HIDE DEF e
    <3> QED
      BY <3>1, <3>2
  <2>8. accLate' = IF Accounts!Held(u) THEN accLate \cup {<<"method", u>>} ELSE accLate
    BY <1>1, <2>2 DEF Accounts!Held
  <2>9. ASSUME Tidy', Agreed, NEW x \in known' PROVE HeldBy(x)' \/ OnRecord(x)
    <3>1. account \in [Accs -> Account]
      BY DEF MergeInv, AccountTypes
    <3>2. account'[u].methods["github"] = v
      BY <3>1, <2>1, <2>3, <2>4, <2>5
    <3>3. CASE x = v
      BY <3>2, <3>3, <2>1, KindIds DEF HeldBy
    <3>4. CASE x \in known
      <4>1. Tidy
        BY <1>1, <2>9 DEF Tidy
      <4>2. HeldBy(x) \/ OnRecord(x)
        BY <2>9, <3>4, <4>1 DEF MergeInv, MethodsInv
      <4>3. x # None
        BY <3>4 DEF MergeInv, AccountTypes, MergeConstants
      <4>4. HeldBy(x) => HeldBy(x)'
        <5>1. ASSUME NEW w \in Accs, NEW k \in Accounts!Kinds, account[w].methods[k] = x PROVE HeldBy(x)'
          <6>1. w # u
            BY <5>1, <4>3, <2>2, MethodsAreFunctions
          <6>2. account'[w] = account[w]
            BY <6>1, <3>1, <2>4
          <6> QED
            BY <5>1, <6>2 DEF HeldBy
        <5> QED
          BY <5>1 DEF HeldBy
      <4> QED
        BY <4>2, <4>4
    <3> QED
      BY <1>1, <3>3, <3>4
  <2>10. token' \subseteq token /\ UNCHANGED <<merge, mergeTask, proposal, seat, owner, signedIn>>
    BY <1>1
  <2> HIDE DEF e, v
  <2> QED
    BY <1>k, <2>1, <2>2, <2>4, <2>5, <2>6, <2>7, <2>8, <2>9, <2>10, WriteStep
<1>6. \/ \E u \in Accounts!Holders("github", v) : Accounts!Then(q, "token", u, "github", v) /\ account' = account
      \/ /\ Accounts!Holders("github", v) = {}
         /\ \E u \in Accs \ (Accounts!Present \cup Accounts!Absorbed) :
              /\ account' = [account EXCEPT ![u].here = TRUE, ![u].methods["github"] = v]
              /\ Accounts!Then(q, "token", u, "github", v)
  BY DEF Accounts!Upsert
<1> HIDE DEF v, e
<1> QED
  BY <1>4, <1>5, <1>6

\* What a request writes for an account without looking at it again: a token, a session,
\* a row.
LEMMA PlainWriteStep ==
    ASSUME MergeConstants, MergeInv, NEW q \in Requests,
           \/ Accounts!SaveToken(q) \/ Accounts!StoreSession(q) \/ \E r \in Rows : Accounts!WriteRow(q, r)
    PROVE  MergeInv'
<1> DEFINE done == [pc |-> "over", user |-> None, other |-> None, kind |-> "github", id |-> None]
<1>1. UNCHANGED <<account, proposal, merge, mergeTask, seat, known>>
  BY DEF Accounts!SaveToken, Accounts!StoreSession, Accounts!WriteRow, Accounts!moved, Accounts!mergeVars
<1>2. /\ accReq \in [Requests -> Errand] /\ \A p \in Requests : ErrandInv(accReq[p]) /\ accReq[q] \in Errand
      /\ owner \in [Rows -> Accs] /\ token \subseteq Accs /\ signedIn \subseteq Accs
      /\ proposal \in [Accs -> Errand] /\ known \subseteq Github \cup Emails
      /\ \A u \in Accs : proposal[u] # Accounts!Idle => proposal[u].user \in Accs \ {u}
  BY DEF MergeInv, AccountTypes, AskedInv
<1>3. done \in Errand /\ ErrandInv(done)
  BY OverErrand
<1>a. ASSUME NEW e \in Errand, ErrandInv(e), accReq' = [accReq EXCEPT ![q] = e],
             owner' \in [Rows -> Accs], token' \subseteq Accs, signedIn' \subseteq Accs, accLate \subseteq accLate',
             \A u \in Accs : <<"method", u>> \in accLate' <=> <<"method", u>> \in accLate,
             \A u \in Accs :
               /\ Accounts!Held(u) \/ u \notin Accounts!Present =>
                    /\ \A r \in Rows : owner'[r] = u => owner[r] = u \/ <<"row", u>> \in accLate'
                    /\ u \in token' => u \in token \/ <<"token", u>> \in accLate'
               /\ Accounts!Past(u) => (u \in signedIn' => u \in signedIn \/ <<"session", u>> \in accLate')
      PROVE  MergeInv'
  <2>1. accReq' \in [Requests -> Errand] /\ \A p \in Requests : ErrandInv(accReq'[p])
    BY <1>2, <1>a
  <2>2. \A n \in Requests : MovedInv(n)'
    BY <1>1, <1>a, StaysMoved
  <2>3. /\ proposal' \in [Accs -> Errand] /\ known' \subseteq Github \cup Emails /\ known' \ known = {}
        /\ \A u \in Accs : proposal'[u] # Accounts!Idle => proposal'[u].user \in Accs \ {u}
    BY <1>1, <1>2
  <2> QED
    BY <1>1, <1>a, <2>1, <2>2, <2>3, ErrandStep
<1> HIDE DEF done
<1>4. CASE Accounts!SaveToken(q)
  <2> DEFINE u == IF accReq[q].pc = "proven" THEN accReq[q].other ELSE accReq[q].user
  <2>1. /\ token' = token \cup {u} /\ UNCHANGED <<signedIn, owner>>
        /\ accLate' = IF Accounts!Held(u) \/ u \notin Accounts!Present THEN accLate \cup {<<"token", u>>} ELSE accLate
        /\ accReq[q].pc \in {"token", "linked", "proven"}
    BY <1>4 DEF Accounts!SaveToken, Accounts!Late
  <2>2. u \in Accs
    BY <1>2, <2>1 DEF ErrandInv
  <2>3. PICK e \in Errand : ErrandInv(e) /\ accReq' = [accReq EXCEPT ![q] = e]
    <3>1. CASE accReq[q].pc = "token"
      <4> DEFINE e == [pc |-> "session", user |-> u, other |-> None, kind |-> "github", id |-> accReq[q].id]
      <4>1. accReq' = [accReq EXCEPT ![q] = e]
        BY <3>1, <1>4 DEF Accounts!SaveToken, Accounts!Then
      <4>2. accReq[q].id \in Id
        BY MergeFields DEF MergeInv
      <4>3. e \in Errand /\ e.pc = "session" /\ e.user = u
        <5> HIDE DEF u
        <5> QED
          BY <4>2, <2>2, KindIds, ErrandType
      <4> HIDE DEF e
      <4>4. ErrandInv(e)
        BY <4>3, <2>2 DEF ErrandInv
      <4> QED
        BY <4>1, <4>3, <4>4
    <3>2. CASE accReq[q].pc = "linked"
      BY <3>2, <1>3, <1>4 DEF Accounts!SaveToken, Accounts!Over, Accounts!Then, done
    <3>3. CASE accReq[q].pc = "proven"
      <4> DEFINE e == [accReq[q] EXCEPT !.pc = "propose"]
      <4>1. accReq' = [accReq EXCEPT ![q] = e]
        <5>1. accReq' = [accReq EXCEPT ![q].pc = "propose"]
          BY <3>3, <1>4 DEF Accounts!SaveToken
        <5> QED
          BY <5>1, <1>2
      <4>2. /\ e \in Errand /\ e.pc = "propose" /\ e.user = accReq[q].user /\ e.other = accReq[q].other
        <5>1. accReq[q] \in Errand
          BY <1>2
        <5> HIDE DEF Accounts!Kinds, u
        <5> QED
          BY <5>1 DEF Errand
      <4> HIDE DEF e
      <4>3. ErrandInv(e)
        BY <4>2, <3>3, <1>2 DEF ErrandInv
      <4> QED
        BY <4>1, <4>2, <4>3
    <3> QED
      BY <2>1, <3>1, <3>2, <3>3
  <2>4. \A w \in Accs : <<"method", w>> \in accLate' <=> <<"method", w>> \in accLate
    BY <2>1
  <2>5. accLate \subseteq accLate' /\ token' \subseteq Accs
    BY <1>2, <2>1, <2>2
  <2>6. \A w \in Accs : Accounts!Held(w) \/ w \notin Accounts!Present =>
                          (w \in token' => w \in token \/ <<"token", w>> \in accLate')
    BY <2>1
  <2> HIDE DEF u
  <2> QED
    BY <1>2, <1>a, <2>1, <2>3, <2>4, <2>5, <2>6
<1>5. CASE Accounts!StoreSession(q)
  <2> DEFINE u == accReq[q].user
  <2>1. /\ signedIn' = signedIn \cup {u} /\ UNCHANGED <<token, owner>>
        /\ accLate' = IF Accounts!Past(u) THEN accLate \cup {<<"session", u>>} ELSE accLate
        /\ accReq[q].pc = "session" /\ accReq' = [accReq EXCEPT ![q] = done]
    BY <1>5 DEF Accounts!StoreSession, Accounts!Late, Accounts!Over, Accounts!Then, Accounts!moved, done
  <2>2. u \in Accs
    BY <1>2, <2>1 DEF ErrandInv
  <2>3. \A w \in Accs : <<"method", w>> \in accLate' <=> <<"method", w>> \in accLate
    BY <2>1
  <2>4. accLate \subseteq accLate' /\ signedIn' \subseteq Accs
    BY <1>2, <2>1, <2>2
  <2>5. \A w \in Accs : Accounts!Past(w) => (w \in signedIn' => w \in signedIn \/ <<"session", w>> \in accLate')
    BY <2>1
  <2> HIDE DEF u
  <2> QED
    BY <1>2, <1>3, <1>a, <2>1, <2>3, <2>4, <2>5
<1>6. ASSUME NEW r \in Rows, Accounts!WriteRow(q, r) PROVE MergeInv'
  <2> DEFINE u == accReq[q].user
  <2>1. /\ owner' = [owner EXCEPT ![r] = u] /\ UNCHANGED <<token, signedIn>>
        /\ accLate' = IF Accounts!Held(u) \/ u \notin Accounts!Present THEN accLate \cup {<<"row", u>>} ELSE accLate
        /\ accReq[q].pc = "work" /\ accReq' = [accReq EXCEPT ![q] = done]
    BY <1>6 DEF Accounts!WriteRow, Accounts!Late, Accounts!Over, Accounts!Then, done
  <2>2. u \in Accs
    BY <1>2, <2>1 DEF ErrandInv
  <2>3. \A w \in Accs : <<"method", w>> \in accLate' <=> <<"method", w>> \in accLate
    BY <2>1
  <2>4. accLate \subseteq accLate' /\ owner' \in [Rows -> Accs]
    BY <1>2, <2>1, <2>2
  <2>5. \A w \in Accs : Accounts!Held(w) \/ w \notin Accounts!Present =>
           \A x \in Rows : owner'[x] = w => owner[x] = w \/ <<"row", w>> \in accLate'
    <3> HIDE DEF u
    <3> QED
      BY <1>2, <2>1
  <2> HIDE DEF u
  <2> QED
    BY <1>2, <1>3, <1>a, <2>1, <2>3, <2>4, <2>5
<1> QED
  BY <1>4, <1>5, <1>6

LEMMA AddMethodStep == ASSUME MergeConstants, MergeInv, NEW q \in Requests, Accounts!AddMethod(q) PROVE MergeInv'
<1> DEFINE r == accReq[q]
           u == r.user
           k == r.kind
           v == r.id
           ms == [account[u].methods EXCEPT ![k] = v]
           done == [pc |-> "over", user |-> None, other |-> None, kind |-> "github", id |-> None]
           linked == [pc |-> "linked", user |-> u, other |-> None, kind |-> "github", id |-> v]
<1>1. /\ r.pc = "add" /\ UNCHANGED <<signedIn, seat, owner, token, proposal, merge, mergeTask>>
  BY DEF Accounts!AddMethod, Accounts!moved, Accounts!mergeVars
<1>2. /\ u \in Accs /\ k \in Accounts!Kinds /\ v \in (IF k = "github" THEN Github ELSE Emails) /\ v # None
  BY <1>1, MergeFields DEF MergeInv, AskedInv, ErrandInv, MergeConstants
<1>3. done \in Errand /\ ErrandInv(done)
  BY OverErrand
<1>4. linked \in Errand /\ ErrandInv(linked)
  <2>1. linked \in Errand /\ linked.pc = "linked" /\ linked.user = u
    BY <1>2, KindIds, ErrandType
  <2> HIDE DEF linked
  <2> QED
    BY <2>1, <1>2 DEF ErrandInv
<1> HIDE DEF done, linked
<1>5. /\ accReq \in [Requests -> Errand] /\ \A p \in Requests : ErrandInv(accReq[p])
      /\ known \subseteq Github \cup Emails /\ account \in [Accs -> Account]
  BY DEF MergeInv, AccountTypes, AskedInv
<1>6. CASE u \notin Accounts!Present \/ Accounts!Taken(u, ms)
  <2>1. accReq' = [accReq EXCEPT ![q] = done] /\ UNCHANGED <<account, accLate, known>>
    BY <1>6 DEF Accounts!AddMethod, Accounts!Over, Accounts!Then, done
  <2>2. signedIn' \subseteq signedIn
    BY <1>1
  <2> HIDE DEF r, u, k, v, ms
  <2> QED
    BY <1>1, <1>3, <2>1, <2>2, ProposalsRest, AskStep
<1>7. CASE ~(u \notin Accounts!Present \/ Accounts!Taken(u, ms))
  <2> DEFINE old == account[u].methods[k]
             rec == [account[u] EXCEPT !.methods = ms]
  <2>1. /\ account' = [account EXCEPT ![u].methods = ms]
        /\ accLate' = IF Accounts!Held(u) THEN accLate \cup {<<"method", u>>} ELSE accLate
        /\ known' = (known \ {old}) \cup {v}
        /\ accReq' = [accReq EXCEPT ![q] = IF k = "github" THEN linked ELSE done]
    BY <1>7 DEF Accounts!AddMethod, Accounts!Late, Accounts!Over, Accounts!Then, done, linked
  <2>2. account[u].methods \in Accounts!Methods /\ account[u].here
    BY <1>2, <1>7, MergeFields DEF MergeInv, Accounts!Present
  <2>3. ms \in Accounts!Methods /\ ms[k] = v /\ \A j \in Accounts!Kinds \ {k} : ms[j] = account[u].methods[j]
    BY <1>2, <2>2, MethodPut
  <2>4. rec \in Account /\ rec.here = account[u].here /\ rec.methods = ms /\ rec.lock = account[u].lock
    <3> HIDE DEF r, u, k, v, ms
    <3> QED
      BY <1>2, <2>3, AccountPut DEF MergeInv
  <2>5. account' = [account EXCEPT ![u] = rec]
    BY <2>1
  <2>6. NobodyElses(u, ms)
    <3>1. ASSUME NEW w \in Accs \ {u}, NEW j \in Accounts!Kinds, ms[j] # None PROVE account[w].methods[j] # ms[j]
      <4> HIDE DEF r, u, k, v, ms
      <4>1. CASE account[w].here
        BY <4>1, <3>1, <1>7 DEF Accounts!Taken, Accounts!Present
      <4>2. CASE ~account[w].here
        BY <4>2, <3>1, MethodsAreFunctions DEF MergeInv, UniqueInv
      <4> QED
        BY <4>1, <4>2
    <3> QED
      BY <3>1 DEF NobodyElses
  <2> HIDE DEF r, u, k, v, ms, rec
  <2>7. accReq' \in [Requests -> Errand] /\ \A p \in Requests : ErrandInv(accReq'[p])
    BY <1>3, <1>4, <1>5, <2>1
  <2>8. known' \subseteq Github \cup Emails
    BY <1>2, <1>5, <2>1
  <2>9. ASSUME Tidy', Agreed, NEW x \in known' PROVE HeldBy(x)' \/ OnRecord(x)
    <3>1. account'[u] = rec /\ \A w \in Accs \ {u} : account'[w] = account[w]
      BY <1>2, <1>5, <2>5
    <3>2. CASE x = v
      BY <1>2, <2>3, <2>4, <3>1, <3>2 DEF HeldBy
    <3>3. CASE x \in known /\ x # old
      <4>1. Tidy
        BY <2>1, <2>9 DEF Tidy
      <4>2. HeldBy(x) \/ OnRecord(x)
        BY <2>9, <3>3, <4>1 DEF MergeInv, MethodsInv
      <4>3. ASSUME NEW w \in Accs, NEW j \in Accounts!Kinds, account[w].methods[j] = x PROVE HeldBy(x)'
        <5>1. CASE w # u
          BY <3>1, <4>3, <5>1 DEF HeldBy
        <5>2. CASE w = u
          <6>1. j # k
            BY <3>3, <4>3, <5>2
          <6>2. ms[j] = x
            BY <2>3, <4>3, <5>2, <6>1
          <6> QED
            BY <1>2, <2>4, <3>1, <6>2 DEF HeldBy
        <5> QED
          BY <5>1, <5>2
      <4> QED
        BY <4>2, <4>3 DEF HeldBy
    <3> HIDE DEF old
    <3> QED
      BY <2>1, <2>9, <3>2, <3>3
  <2>10. token' \subseteq token /\ UNCHANGED <<merge, mergeTask, proposal, seat, owner, signedIn>>
    BY <1>1
  <2> HIDE DEF old
  <2> QED
    BY <1>2, <2>1, <2>2, <2>4, <2>5, <2>6, <2>7, <2>8, <2>9, <2>10, WriteStep
<1> QED
  BY <1>6, <1>7

LEMMA UnlinkStep == ASSUME MergeConstants, MergeInv, NEW q \in Requests, Accounts!Unlink(q) PROVE MergeInv'
<1> DEFINE r == accReq[q]
           u == r.user
           k == r.kind
           ms == [account[u].methods EXCEPT ![k] = None]
           done == [pc |-> "over", user |-> None, other |-> None, kind |-> "github", id |-> None]
<1>1. /\ r.pc = "unlink" /\ accReq' = [accReq EXCEPT ![q] = done]
      /\ UNCHANGED <<signedIn, seat, owner, proposal, merge, mergeTask>>
  BY DEF Accounts!Unlink, Accounts!Over, Accounts!Then, Accounts!mergeVars
<1>2. u \in Accs /\ k \in Accounts!Kinds
  BY <1>1, MergeFields DEF MergeInv, AskedInv, ErrandInv
<1>3. done \in Errand /\ ErrandInv(done)
  BY OverErrand
<1> HIDE DEF done
<1>5. /\ accReq \in [Requests -> Errand] /\ \A p \in Requests : ErrandInv(accReq[p])
      /\ known \subseteq Github \cup Emails /\ account \in [Accs -> Account]
  BY DEF MergeInv, AccountTypes, AskedInv
<1>6. CASE u \notin Accounts!Present
  <2>1. UNCHANGED <<account, token, accLate, known>>
    BY <1>6 DEF Accounts!Unlink
  <2>2. signedIn' \subseteq signedIn
    BY <1>1
  <2> HIDE DEF r, u, k, ms
  <2> QED
    BY <1>1, <1>3, <2>1, <2>2, ProposalsRest, AskStep
<1>7. CASE u \in Accounts!Present
  <2> DEFINE old == account[u].methods[k]
             rec == [account[u] EXCEPT !.methods = ms]
  <2>1. /\ account' = [account EXCEPT ![u].methods[k] = None]
        /\ accLate' = IF Accounts!Held(u) THEN accLate \cup {<<"method", u>>} ELSE accLate
        /\ known' = known \ {old} /\ token' \subseteq token
    BY <1>7 DEF Accounts!Unlink, Accounts!Late
  <2>2. account[u].methods \in Accounts!Methods /\ account[u].here
    BY <1>2, <1>7, MergeFields DEF MergeInv, Accounts!Present
  <2>3. ms \in Accounts!Methods /\ ms[k] = None /\ \A j \in Accounts!Kinds \ {k} : ms[j] = account[u].methods[j]
    BY <1>2, <2>2, MethodPut
  <2>4. rec \in Account /\ rec.here = account[u].here /\ rec.methods = ms /\ rec.lock = account[u].lock
    <3> HIDE DEF r, u, k, ms
    <3> QED
      BY <1>2, <2>3, AccountPut DEF MergeInv
  <2>5. account' = [account EXCEPT ![u] = rec]
    BY <2>1
  <2> HIDE DEF r, u, k, ms, rec
  <2>6. NobodyElses(u, ms)
    <3>1. ASSUME NEW w \in Accs \ {u}, NEW j \in Accounts!Kinds, ms[j] # None PROVE account[w].methods[j] # ms[j]
      <4>1. j # k /\ ms[j] = account[u].methods[j]
        BY <2>3, <3>1
      <4> QED
        BY <1>2, <3>1, <4>1 DEF MergeInv, UniqueInv
    <3> QED
      BY <3>1 DEF NobodyElses
  <2>7. accReq' \in [Requests -> Errand] /\ \A p \in Requests : ErrandInv(accReq'[p])
    BY <1>1, <1>3, <1>5
  <2>8. known' \subseteq Github \cup Emails
    BY <1>5, <2>1
  <2>9. ASSUME Tidy', Agreed, NEW x \in known' PROVE HeldBy(x)' \/ OnRecord(x)
    <3>1. account'[u] = rec /\ \A w \in Accs \ {u} : account'[w] = account[w]
      BY <1>2, <1>5, <2>5
    <3>2. Tidy
      BY <2>1, <2>9 DEF Tidy
    <3>3. x \in known /\ x # old
      BY <2>1, <2>9
    <3>4. HeldBy(x) \/ OnRecord(x)
      BY <2>9, <3>2, <3>3 DEF MergeInv, MethodsInv
    <3>5. ASSUME NEW w \in Accs, NEW j \in Accounts!Kinds, account[w].methods[j] = x PROVE HeldBy(x)'
      <4>1. CASE w # u
        BY <3>1, <3>5, <4>1 DEF HeldBy
      <4>2. CASE w = u
        <5>1. j # k
          BY <3>3, <3>5, <4>2
        <5>2. ms[j] = x
          BY <2>3, <3>5, <4>2, <5>1
        <5> QED
          BY <1>2, <2>4, <3>1, <5>2 DEF HeldBy
      <4> QED
        BY <4>1, <4>2
    <3> QED
      BY <3>4, <3>5 DEF HeldBy
  <2>10. UNCHANGED <<merge, mergeTask, proposal, seat, owner, signedIn>>
    BY <1>1
  <2> HIDE DEF old
  <2> QED
    BY <1>2, <2>1, <2>2, <2>4, <2>5, <2>6, <2>7, <2>8, <2>9, <2>10, WriteStep
<1> QED
  BY <1>6, <1>7

\* Every step of the component keeps the invariant.
LEMMA MergeTaskStep ==
    ASSUME MergeConstants, MergeInv, NEW m \in Requests, Accounts!MergeStep(m) \/ Accounts!Stop(m)
    PROVE  MergeInv'
<1>1. CASE Accounts!TakeMethods(m)
  BY <1>1, TakeMethodsStep, StopsStep
<1> QED
  BY <1>1, LocksStep, UnlocksStep, SnapshotStep, InsertMergeStep, MovesStep, FreeMethodsStep,
     RemoveAbsorbedStep, FinishMergeStep, StopsStep
  DEF Accounts!MergeStep

LEMMA AccountRequestStep ==
    ASSUME MergeConstants, MergeInv, NEW q \in Requests,
           \/ Accounts!Upsert(q) \/ Accounts!SaveToken(q) \/ Accounts!StoreSession(q) \/ Accounts!Propose(q)
           \/ Accounts!AddMethod(q) \/ Accounts!Unlink(q)
           \/ \E r \in Rows : Accounts!WriteRow(q, r)
           \/ \E u \in Accs : Accounts!Work(q, u) \/ Accounts!ClaimRefresh(q, u)
           \/ \E u \in Accs, k \in Accounts!Kinds : Accounts!AskUnlink(q, u, k)
           \/ \E v \in Github : Accounts!SignIn(q, "github", v) \/ \E u \in Accs : Accounts!Prove(q, u, "github", v)
           \/ \E v \in Emails : Accounts!SignIn(q, "email", v) \/ \E u \in Accs : Accounts!Prove(q, u, "email", v)
    PROVE  MergeInv'
<1>1. "github" \in Accounts!Kinds /\ "email" \in Accounts!Kinds
  BY KindIds
<1>2. CASE \E u \in Accs : Accounts!Work(q, u) \/ Accounts!ClaimRefresh(q, u)
  BY <1>1, <1>2, AskForStep
<1>3. CASE \E u \in Accs, k \in Accounts!Kinds : Accounts!AskUnlink(q, u, k)
  BY <1>3, AskForStep
<1>4. ASSUME NEW v \in Github, Accounts!SignIn(q, "github", v) \/ \E u \in Accs : Accounts!Prove(q, u, "github", v)
      PROVE  MergeInv'
  BY <1>1, <1>4, SignInStep, ProveStep
<1>5. ASSUME NEW v \in Emails, Accounts!SignIn(q, "email", v) \/ \E u \in Accs : Accounts!Prove(q, u, "email", v)
      PROVE  MergeInv'
  BY <1>1, <1>5, SignInStep, ProveStep
<1> QED
  BY <1>2, <1>3, <1>4, <1>5, UpsertStep, PlainWriteStep, ProposeStep, AddMethodStep, UnlinkStep

LEMMA AccountRestStep == ASSUME MergeInv, UNCHANGED Accounts!vars PROVE MergeInv'
<1>1. UNCHANGED <<account, proposal, merge, mergeTask, accReq, signedIn, seat, owner, token, accLate, known>>
  BY DEF Accounts!vars, Accounts!moved, Accounts!mergeVars
<1>2. AccountTypes'
  BY <1>1 DEF MergeInv, AccountTypes
<1>3. AskedInv'
  BY <1>1 DEF MergeInv, AskedInv
<1>4. UniqueInv'
  BY <1>1, UniqueRests DEF MergeInv
<1>5. ASSUME NEW m \in Requests
      PROVE  (RecordInv(m) => RecordInv(m)') /\ (StandInv(m) => StandInv(m)') /\ (MovedInv(m) => MovedInv(m)')
  <2>1. RecordInv(m) => RecordInv(m)'
    BY <1>1, Zenon DEF RecordInv
  <2>2. StandInv(m) => StandInv(m)'
    BY <1>1, Zenon DEF StandInv, Has, Accounts!FirstOf, Accounts!Pair
  <2>3. MovedInv(m) => MovedInv(m)'
    BY <1>1, Zenon DEF MovedInv, Reached
  <2> QED
    BY <2>1, <2>2, <2>3
<1>6. LockInv'
  BY <1>1, <1>5 DEF MergeInv, LockInv, Accounts!Pair
<1>7. MethodsInv'
  <2>1. ASSUME NEW m \in Requests, SnapshotInv(m) PROVE SnapshotInv(m)'
    BY <1>1, <2>1, Zenon DEF SnapshotInv
  <2>2. LateInv => LateInv'
    BY <1>1, Zenon DEF LateInv, Accounts!Pair
  <2>3. (Tidy' <=> Tidy) /\ (Agreed' <=> Agreed) /\ known' = known
    BY <1>1 DEF Tidy, Agreed
  <2>4. ASSUME NEW v PROVE (HeldBy(v) => HeldBy(v)') /\ (OnRecord(v) => OnRecord(v)')
    BY <1>1 DEF HeldBy, OnRecord
  <2> QED
    BY <2>1, <2>2, <2>3, <2>4 DEF MergeInv, MethodsInv
<1> QED
  BY <1>2, <1>3, <1>4, <1>5, <1>6, <1>7 DEF MergeInv

LEMMA AccountNextStep ==
    ASSUME MergeConstants, MergeInv, [Accounts!Next]_Accounts!vars PROVE MergeInv'
<1>1. ASSUME NEW m \in Requests, Accounts!MergeStep(m) \/ Accounts!Stop(m) \/ \E u \in Accs : Accounts!Confirm(m, u)
      PROVE  MergeInv'
  BY <1>1, MergeTaskStep, ConfirmStep
<1>2. CASE Accounts!Next
  BY <1>1, <1>2, CancelStep, AccountRequestStep DEF Accounts!Next
<1> QED
  BY <1>2, AccountRestStep

\* Two different accounts are a pair of two.
LEMMA PairCardinality == ASSUME NEW s, NEW a, s # a PROVE Accounts!Cardinality({s, a}) = 2
<1>1. IsFiniteSet({a}) /\ Cardinality({a}) = 1
  BY FS_Singleton
<1>2. {s, a} = {a} \cup {s}
  OBVIOUS
<1>3. Cardinality({s, a}) = 2
  BY <1>1, <1>2, FS_AddElement
<1> QED
  BY <1>3 DEF Accounts!Cardinality, Cardinality

LEMMA MergeHolds ==
    ASSUME MergeConstants, MergeInv
    PROVE  Accounts!TypeOK /\ Accounts!MergeLeavesNothing /\ Accounts!MethodsKept
<1>1. AccountTypes /\ UniqueInv /\ LockInv /\ MethodsInv /\ \A m \in Requests : MovedInv(m)
  BY DEF MergeInv
<1>2. Accounts!TypeOK
  <2>1. account \in [Accs -> [here : BOOLEAN, methods : Accounts!Methods, lock : Requests \cup {None}]]
    BY <1>1 DEF AccountTypes, Account
  <2>2. \A u \in Accs : ~(account[u].here /\ Accounts!Taken(u, account[u].methods))
    BY <1>1 DEF UniqueInv, Accounts!Taken, Accounts!Present
  <2>3. \A m \in Requests : merge[m].status # "none" => Accounts!Cardinality(Accounts!Pair(m)) = 2
    BY <1>1, RunningMerge, PairCardinality DEF Accounts!Pair
  <2> QED
    BY <1>1, <2>1, <2>2, <2>3 DEF Accounts!TypeOK, Accounts!Roles, AccountTypes
<1>3. Accounts!MergeLeavesNothing
  <2>1. ASSUME NEW m \in Requests, merge[m].status = "done"
        PROVE  LET a == merge[m].absorbed
               IN  /\ a \notin Accounts!Present /\ seat[a] = 0
                   /\ \A r \in Rows : owner[r] = a => <<"row", a>> \in accLate
                   /\ a \in token => <<"token", a>> \in accLate
                   /\ a \in signedIn => <<"session", a>> \in accLate
    <3>1. merge[m].absorbed \notin Accounts!Present
      BY <1>1, <2>1 DEF LockInv, StandInv, Accounts!Present
    <3> QED
      BY <1>1, <2>1, <3>1 DEF MovedInv, Reached
  <2> QED
    BY <2>1 DEF Accounts!MergeLeavesNothing
<1>4. Accounts!MethodsKept
  <2>1. ASSUME NEW v \in known, ~\E m \in Requests, u \in Accs : u \in Accounts!Pair(m) /\ <<"method", u>> \in accLate,
               ~\E m \in Requests : Accounts!Conflicts(merge[m].mine, merge[m].theirs)
        PROVE  \/ \E u \in Accounts!Present, k \in Accounts!Kinds : account[u].methods[k] = v
               \/ \E m \in Requests, k \in Accounts!Kinds : merge[m].status = "running" /\ merge[m].theirs[k] = v
    <3>1. Tidy
      BY <1>1, <2>1 DEF MethodsInv, LateInv, Tidy
    <3>2. Agreed
      BY <2>1 DEF Agreed
    <3>3. HeldBy(v) \/ OnRecord(v)
      BY <1>1, <2>1, <3>1, <3>2 DEF MethodsInv
    <3>4. v # None
      BY <1>1, <2>1 DEF AccountTypes, MergeConstants
    <3>5. ASSUME NEW u \in Accs, NEW k \in Accounts!Kinds, account[u].methods[k] = v PROVE u \in Accounts!Present
      BY <1>1, <3>4, <3>5, MethodsAreFunctions DEF UniqueInv, Accounts!Present
    <3> QED
      BY <3>3, <3>5 DEF HeldBy, OnRecord
  <2> QED
    BY <2>1 DEF Accounts!MethodsKept
<1> QED
  BY <1>2, <1>3, <1>4

-----------------------------------------------------------------------------
\* Accounts' own behaviours: a merge that is done leaves nothing of the absorbed account,
\* and whoever could sign in still can.
THEOREM MergesAreSafe ==
    ASSUME MergeConstants
    PROVE  Accounts!Spec => [](Accounts!TypeOK /\ Accounts!MergeLeavesNothing /\ Accounts!MethodsKept)
<1>1. Accounts!Init => MergeInv
  BY MergeInit
<1>2. MergeInv /\ [Accounts!Next]_Accounts!vars => MergeInv'
  BY AccountNextStep
<1>3. MergeInv => Accounts!TypeOK /\ Accounts!MergeLeavesNothing /\ Accounts!MethodsKept
  BY MergeHolds
<1> QED
  BY <1>1, <1>2, <1>3, PTL DEF Accounts!Spec

LEMMA AccountsPartStep == ASSUME [MCNext]_allVars, part = "accounts" PROVE [Accounts!Next]_Accounts!vars
<1>1. UNCHANGED allVars => UNCHANGED Accounts!vars
  BY DEF allVars, ofAccounts, Accounts!vars, Accounts!moved, Accounts!mergeVars
<1> QED
  BY <1>1, SessionsPart, CodesPart, GrantsPart, MembersPart, AccountsPart, AccessPart
  DEF MCNext, InSessions, InCodes, InGrants, InMembers, InAccess

\* merge.py:66, service.py:114: a merge that is done leaves nothing of the absorbed
\* account, however often its run stopped, but for what a request that had looked
\* at the account before wrote after it was locked; and a sign-in method that was
\* proven and not taken off belongs to an account or to a merge that has yet to
\* give it to the survivor, unless the two accounts were changed while the merge
\* held them or disagreed by the time it did. None is no request and no method,
\* and the ids of accounts are ordered.
THEOREM MergesLeaveNothing == ASSUME MergeConstants PROVE MCSpec => []MergeSafe
<1> DEFINE I == part = "accounts" => MergeInv
<1>1. MCInit => I
  BY MergeInit DEF MCInit
<1>2. I /\ [MCNext]_allVars => I'
  BY PartStep, AccountsPartStep, AccountNextStep
<1>3. I => MergeSafe
  BY MergeHolds DEF MergeSafe
<1> QED
  BY <1>1, <1>2, <1>3, PTL DEF MCSpec
=============================================================================
