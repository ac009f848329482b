------------------------------- MODULE Codes -------------------------------
(***************************************************************************)
(* One account's emailed one-time codes and what they are good for         *)
(* (auth/native.py, auth/otp.py, the challenges of auth/repository.py):    *)
(* verifying the address, resetting the password, and the sign-ins that    *)
(* race a reset. Each call to Mongo after the first is an action, and a    *)
(* request may stop before any of them.                                    *)
(***************************************************************************)
EXTENDS Naturals, FiniteSets

CONSTANTS Challenges,   \* challenge ids there may ever be
          Requests,     \* requests of a behaviour, each made once
          MaxAttempts,  \* otp.MAX_ATTEMPTS
          MaxResends,   \* otp.MAX_RESENDS
          MaxCodes,     \* bound: codes mailed
          None

Purposes == {"verify", "reset"}
Codes == 0..MaxCodes    \* 0 is a guess that is nobody's code; two codes never agree
Passwords == {None} \cup Requests   \* named by the reset that set it

VARIABLES
  ch,        \* auth_challenges: the document of each id
  mailed,    \* codes made so far
  user,      \* the account: its password, whether its hash is old, email_verified_at
  session,   \* live sessions, by the request that opened them
  req,       \* requests under way
  tried,     \* history: guesses counted against each code of each challenge
  redeemed,  \* history: the requests each challenge let through
  since,     \* history: passwords in force at or after the end of the last reset
  late       \* history: sign-ins whose password was checked before a reset ended

vars == <<ch, mailed, user, session, req, tried, redeemed, since, late>>

NoChallenge == [purpose |-> None, real |-> FALSE, code |-> 0, attempts |-> 0,
                resends |-> 0, cooling |-> FALSE, fresh |-> FALSE]
Idle == [pc |-> "idle", ch |-> None, code |-> 0, purpose |-> "verify", password |-> None]

There(c) == ch[c].purpose # None

(* The document _issue inserts for an account.                             *)
Issued(purpose, k) == [purpose |-> purpose, real |-> TRUE, code |-> k, attempts |-> 0,
                       resends |-> 0, cooling |-> TRUE, fresh |-> TRUE]

(* A code may have been mailed before.                                     *)
Init ==
  /\ user \in [password : {None}, old : BOOLEAN, verified : BOOLEAN]
  /\ \/ mailed = 0 /\ ch = [c \in Challenges |-> NoChallenge]
     \/ /\ mailed = 1
        /\ \E first \in Challenges, p \in Purposes :
             /\ p = "verify" => ~user.verified
             /\ ch = [c \in Challenges |-> IF c = first THEN Issued(p, 1) ELSE NoChallenge]
  /\ session = {}
  /\ req = [r \in Requests |-> Idle]
  /\ tried = [c \in Challenges |-> [k \in Codes |-> 0]]
  /\ redeemed = [c \in Challenges |-> {}]
  /\ since = {None}
  /\ late = {}

history == <<tried, redeemed, since, late>>
Goto(r, pc) == req' = [req EXCEPT ![r].pc = pc]
Over(r) == Goto(r, "over")

-----------------------------------------------------------------------------
(* _issue: the earlier challenges of that purpose go, a fresh one comes.   *)
(* The account may have no password to reset: a decoy, mailed to nobody.   *)

AskCode(r, purpose) ==
  /\ req[r].pc = "idle"
  /\ purpose = "verify" => ~user.verified
  /\ req' = [req EXCEPT ![r] = [Idle EXCEPT !.pc = "delete", !.purpose = purpose]]
  /\ UNCHANGED <<ch, mailed, user, session, history>>

DeleteEarlier(r) ==
  /\ req[r].pc = "delete"
  /\ ch' = [c \in Challenges |-> IF ch[c].real /\ ch[c].purpose = req[r].purpose THEN NoChallenge ELSE ch[c]]
  /\ Goto(r, "insert")
  /\ UNCHANGED <<mailed, user, session, history>>

Unused(c) == ~There(c) /\ \A k \in Codes : tried[c][k] = 0 /\ redeemed[c] = {}

InsertChallenge(r, c) ==
  /\ req[r].pc = "insert"
  /\ Unused(c) /\ mailed < MaxCodes
  /\ mailed' = mailed + 1
  /\ ch' = [ch EXCEPT ![c] = Issued(req[r].purpose, mailed + 1)]
  /\ Over(r)
  /\ UNCHANGED <<user, session, history>>

InsertDecoy(r, c) ==
  /\ req[r].pc = "idle" /\ Unused(c)
  /\ ch' = [ch EXCEPT ![c] = [NoChallenge EXCEPT !.purpose = "reset", !.cooling = TRUE, !.fresh = TRUE]]
  /\ Over(r)
  /\ UNCHANGED <<mailed, user, session, history>>

(* RESEND_COOLDOWN, CODE_TTL and CHALLENGE_TTL pass.                       *)
Cools(c) ==
  /\ There(c) /\ ch[c].cooling
  /\ ch' = [ch EXCEPT ![c].cooling = FALSE]
  /\ UNCHANGED <<mailed, user, session, req, history>>

Expire(c) ==
  /\ There(c) /\ ~ch[c].cooling
  /\ \/ ch[c].fresh /\ ch' = [ch EXCEPT ![c].fresh = FALSE]
     \/ ch' = [ch EXCEPT ![c] = NoChallenge]
  /\ UNCHANGED <<mailed, user, session, req, history>>

-----------------------------------------------------------------------------
(* resend: what was found, then renew_challenge in one write.              *)

AskResend(r, c) ==
  /\ req[r].pc = "idle"
  /\ There(c) /\ ~ch[c].cooling /\ ch[c].resends < MaxResends
  /\ req' = [req EXCEPT ![r] = [Idle EXCEPT !.pc = "renew", !.ch = c]]
  /\ UNCHANGED <<ch, mailed, user, session, history>>

Renew(r) ==
  LET c == req[r].ch
  IN /\ req[r].pc = "renew"
     /\ Over(r)
     /\ IF There(c) /\ ~ch[c].cooling /\ ch[c].resends < MaxResends
        THEN /\ mailed < MaxCodes
             /\ mailed' = mailed + 1
             /\ ch' = [ch EXCEPT ![c] = [ch[c] EXCEPT !.code = IF ch[c].real THEN mailed + 1 ELSE 0,
                         !.attempts = 0, !.resends = @ + 1, !.cooling = TRUE, !.fresh = TRUE]]
        ELSE UNCHANGED <<ch, mailed>>
     /\ UNCHANGED <<user, session, history>>

-----------------------------------------------------------------------------
(* _redeem: an attempt is counted in the write that reads the code; a      *)
(* match uses the challenge up, if it still has that code.                 *)

AskRedeem(r, c, k) ==
  /\ req[r].pc = "idle" /\ There(c) /\ k <= mailed
  /\ req' = [req EXCEPT ![r] = [Idle EXCEPT !.pc = "attempt", !.ch = c, !.code = k, !.purpose = ch[c].purpose]]
  /\ UNCHANGED <<ch, mailed, user, session, history>>

\* Slip: the limit is looked at when the request arrives, not in the write.
TakeAnyAttempt(r) ==
  LET c == req[r].ch
  IN /\ req[r].pc = "attempt"
     /\ IF There(c) /\ ch[c].fresh
        THEN /\ ch' = [ch EXCEPT ![c].attempts = IF @ < MaxAttempts THEN @ + 1 ELSE @]
             /\ tried' = [tried EXCEPT ![c][ch[c].code] = @ + 1]
             /\ Goto(r, IF ch[c].real /\ req[r].code = ch[c].code THEN "consume" ELSE "over")
        ELSE Over(r) /\ UNCHANGED <<ch, tried>>
     /\ UNCHANGED <<mailed, user, session, redeemed, since, late>>

TakeAttempt(r) ==
  LET c == req[r].ch
  IN /\ req[r].pc = "attempt"
     /\ IF There(c) /\ ch[c].fresh /\ ch[c].attempts < MaxAttempts
        THEN /\ ch' = [ch EXCEPT ![c].attempts = @ + 1]
             /\ tried' = [tried EXCEPT ![c][ch[c].code] = @ + 1]
             /\ Goto(r, IF ch[c].real /\ req[r].code = ch[c].code THEN "consume" ELSE "over")
        ELSE Over(r) /\ UNCHANGED <<ch, tried>>
     /\ UNCHANGED <<mailed, user, session, redeemed, since, late>>

Redeemed(r, c) ==
  /\ redeemed' = [redeemed EXCEPT ![c] = @ \cup {r}]
  /\ Goto(r, IF req[r].purpose = "verify" THEN "verified" ELSE "password")

\* Slip: nobody looks whether the challenge was still there to be deleted.
ConsumeBlindly(r) ==
  LET c == req[r].ch
  IN /\ req[r].pc = "consume"
     /\ Redeemed(r, c)
     /\ ch' = IF ch[c].code = req[r].code THEN [ch EXCEPT ![c] = NoChallenge] ELSE ch
     /\ UNCHANGED <<mailed, user, session, tried, since, late>>

Consume(r) ==
  LET c == req[r].ch
  IN /\ req[r].pc = "consume"
     /\ IF There(c) /\ ch[c].code = req[r].code
        THEN Redeemed(r, c) /\ ch' = [ch EXCEPT ![c] = NoChallenge]
        ELSE Over(r) /\ UNCHANGED <<ch, redeemed>>
     /\ UNCHANGED <<mailed, user, session, tried, since, late>>

-----------------------------------------------------------------------------
(* What a redeemed code does: verify_email, and reset_password in order.   *)

Verify(r) ==
  /\ req[r].pc = "verified"
  /\ user' = [user EXCEPT !.verified = TRUE]
  /\ req' = [req EXCEPT ![r].pc = "session", ![r].password = user.password]
  /\ UNCHANGED <<ch, mailed, session, history>>

SetPassword(r) ==
  /\ user' = [password |-> r, old |-> FALSE, verified |-> TRUE]
  /\ since' = since \cup {r}
DropChallenges == ch' = [c \in Challenges |-> IF ch[c].real THEN NoChallenge ELSE ch[c]]
SignOut == session' = {}

\* Slip: the sessions end first, then the password changes.
ResetSignsOutFirst(r) ==
  /\ UNCHANGED <<mailed, tried, redeemed, late>>
  /\ \/ req[r].pc = "password" /\ SignOut /\ Goto(r, "drop") /\ UNCHANGED <<ch, user, since>>
     \/ req[r].pc = "drop" /\ DropChallenges /\ Goto(r, "sign out") /\ UNCHANGED <<user, session, since>>
     \/ /\ req[r].pc = "sign out"
        /\ user' = [password |-> r, old |-> FALSE, verified |-> TRUE]
        /\ since' = {r}
        /\ Over(r)
        /\ UNCHANGED <<ch, session>>

Reset(r) ==
  /\ UNCHANGED <<mailed, tried, redeemed, late>>
  /\ \/ req[r].pc = "password" /\ SetPassword(r) /\ Goto(r, "drop") /\ UNCHANGED <<ch, session>>
     \/ req[r].pc = "drop" /\ DropChallenges /\ Goto(r, "sign out") /\ UNCHANGED <<user, session, since>>
     \/ /\ req[r].pc = "sign out"
        /\ SignOut
        /\ since' = {user.password}
        /\ Over(r)
        /\ UNCHANGED <<ch, user>>

-----------------------------------------------------------------------------
(* login: the password is checked as it was read; an old hash is replaced  *)
(* by one of the same password; then create_session. An unverified account *)
(* gets a code instead, unless one was just sent (AskCode).                *)

Login(r) ==
  /\ req[r].pc = "idle" /\ user.verified
  /\ req' = [req EXCEPT ![r].pc = IF user.old THEN "rehash" ELSE "session", ![r].password = user.password]
  /\ UNCHANGED <<ch, mailed, user, session, history>>

Rehash(r) ==
  /\ req[r].pc = "rehash"
  /\ user' = [user EXCEPT !.password = req[r].password, !.old = FALSE]
  /\ since' = since \cup {req[r].password}
  /\ Goto(r, "session")
  /\ UNCHANGED <<ch, mailed, session, tried, redeemed, late>>

CreateSession(r) ==
  /\ req[r].pc = "session"
  /\ session' = session \cup {r}
  /\ late' = IF req[r].password \in since THEN late ELSE late \cup {r}
  /\ Over(r)
  /\ UNCHANGED <<ch, mailed, user, tried, redeemed, since>>

Stop(r) ==
  /\ req[r].pc \notin {"idle", "over"}
  /\ Over(r)
  /\ UNCHANGED <<ch, mailed, user, session, history>>

Next ==
  \/ \E r \in Requests :
       \/ DeleteEarlier(r) \/ Renew(r) \/ TakeAttempt(r) \/ Consume(r) \/ Verify(r) \/ Reset(r)
       \/ Login(r) \/ Rehash(r) \/ CreateSession(r) \/ Stop(r)
       \/ \E p \in Purposes : AskCode(r, p)
       \/ \E c \in Challenges : InsertChallenge(r, c) \/ InsertDecoy(r, c) \/ AskResend(r, c)
       \/ \E c \in Challenges, k \in Codes : AskRedeem(r, c, k)
  \/ \E c \in Challenges : Cools(c) \/ Expire(c)

Spec == Init /\ [][Next]_vars
-----------------------------------------------------------------------------
TypeOK ==
  /\ ch \in [Challenges -> [purpose : Purposes \cup {None}, real : BOOLEAN, code : Codes, attempts : 0..MaxAttempts,
                            resends : 0..MaxResends, cooling : BOOLEAN, fresh : BOOLEAN]]
  /\ mailed \in Codes
  /\ user \in [password : Passwords, old : BOOLEAN, verified : BOOLEAN]
  /\ session \subseteq Requests /\ late \subseteq Requests /\ since \subseteq Passwords

(* "Count one guess at a live code, in one write so parallel guesses can't *)
(* exceed the limit" (repository.py:90): whatever guesses, resends and     *)
(* replacements interleave, no mailed code is tried more often.            *)
AttemptsBounded == \A c \in Challenges, k \in Codes \ {0} : tried[c][k] <= MaxAttempts

(* "only one of two parallel correct guesses gets it" (repository.py:101). *)
RedeemedOnce == \A c \in Challenges : Cardinality(redeemed[c]) <= 1

(* "Set a new password and sign out every session" (native.py:235): once a *)
(* reset is through, the sessions that live were opened with a password    *)
(* that is, or was since, in force; but for a sign-in under way meanwhile. *)
ResetSignsOut == \A s \in session : req[s].password \in since \/ s \in late
=============================================================================
