------------------------------ MODULE MCChecks ------------------------------
(***************************************************************************)
(* DecisionChecks on a small instance: one page near one decision, checked *)
(* while people edit it, with what a check that ran into the day's cap     *)
(* left unread.                                                            *)
(***************************************************************************)
EXTENDS DecisionChecks

VARIABLE left   \* history: <<source, decision, text>> a capped check did not get to

MCSays == [x \in Texts |-> Passages]
MCNear == Sources \X Decisions
Unrelated == {}

MCInit == Init /\ scanned /\ left = {}
MCNext ==
  /\ Next
  /\ left' = left \cup UNION {task[t].todo : t \in {u \in Tasks : Inside(u) /\ task'[u].capped}}

MCSpec == MCInit /\ [][MCNext]_<<vars, left>>

(* What a check that starts now would read s with: what quotes or is linked *)
(* to it, and if its text counts as edited what it names or is close to.    *)
NextReads(s, d) ==
  LET snap == [c \in Accepted |-> Evidence(c)]
      edited == Edited(due)
  IN /\ Unread(s, text[s], snap)
     /\ <<s, d>> \in Quoted(snap) \cup From(Linked, snap) \cup From(Names, snap) \cup Mentioning(edited, snap)
                     \cup {p \in Near : p[1] \in edited}

(* "What's left unread when capped is picked up from the same point next    *)
(* time" (checks.py:301): with no check under way, the next one would read  *)
(* what a capped one left, if it still says so and was not read since.      *)
CappedIsPickedUp ==
  (\A t \in Tasks : ~Inside(t)) =>
    \A p \in left : p[2] \in Accepted /\ text[p[1]] = p[3] /\ read[p[1]] # p[3] => NextReads(p[1], p[2])
=============================================================================
