------------------------------- MODULE SignIns -------------------------------
(***************************************************************************)
(* What app/auth/service.py promises of a sign-in, whatever its refresh    *)
(* tokens: it is usable by whoever holds its one current token, for a      *)
(* moment between two tokens while that one is being swapped, and once it  *)
(* is over it is over for good.                                            *)
(***************************************************************************)
CONSTANT SignInIds      \* the sign-ins there may ever be

VARIABLE signIn         \* the state of each

TypeOK == signIn \in [SignInIds -> {"new", "usable", "swapping", "over"}]

Init == signIn = [s \in SignInIds |-> "new"]

\* create_session
Begin(s) == signIn[s] = "new" /\ signIn' = [signIn EXCEPT ![s] = "usable"]

\* a refresh takes the current token, then hands out its successor
Swap(s) == signIn[s] = "usable" /\ signIn' = [signIn EXCEPT ![s] = "swapping"]
HandOut(s) == signIn[s] = "swapping" /\ signIn' = [signIn EXCEPT ![s] = "usable"]

\* signed out, expired, or its successor lost
End(s) == signIn[s] # "over" /\ signIn' = [signIn EXCEPT ![s] = "over"]

\* logout_everywhere ends several at once, but not one that is being swapped
EndAll ==
    signIn' = [s \in SignInIds |-> IF signIn[s] = "usable" THEN "over" ELSE signIn[s]]

Next == EndAll \/ \E s \in SignInIds : Begin(s) \/ Swap(s) \/ HandOut(s) \/ End(s)

Spec == Init /\ [][Next]_signIn
=============================================================================
