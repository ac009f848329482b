---------------------------- MODULE Suggestions ----------------------------
(***************************************************************************)
(* Decisions the AI drafts from a source (decisions/suggest.py), dismissed *)
(* by people. One suggest of a source runs at a time, under the lease on   *)
(* its scan record; suggests of related sources may overlap.               *)
(*                                                                         *)
(* As in DecisionChecks a text is a version, its own fingerprint, and Says *)
(* gives its passages. A suggestion is the set of its <<source, passage>>  *)
(* quotes; a reply is a sequence of them, drafted one after the other.     *)
(***************************************************************************)
EXTENDS Naturals, FiniteSets

CONSTANTS Sources,     \* work items and pages
          Texts,       \* what a source may say, in the order it is written
          Passages,
          Says,        \* [Texts -> SUBSET Passages]
          Related,     \* <<source, source>>: linked, named or close in meaning
          Ids,         \* of decisions
          Tasks,       \* suggests and dismissals
          MaxQuotes,   \* MAX_QUOTES
          SlowRuns,    \* whether a suggest may outlast its lease
          None

VARIABLES
  text,      \* what each source says; None when it is gone
  scan,      \* decision_scans
  dec,       \* the decisions drafted from a source, while they are there
  task,      \* the locals of each task
  dismissed, \* history: quotes of dismissals that were answered
  finished,  \* history: <<source, text>> a suggest finished with
  overtaken  \* history: sources edited between a suggest's read and its lease

vars == <<text, scan, dec, task, dismissed, finished, overtaken>>

Idle == [pc |-> "idle", src |-> None, x |-> None, sources |-> <<>>, known |-> {}, marks |-> {}, said |-> {}]
Goto(t, pc) == task' = [task EXCEPT ![t].pc = pc]
Over(t) == Goto(t, "release")
Quotes(id) == dec[id].quotes

Init ==
  /\ text = [s \in Sources |-> CHOOSE x \in Texts : \A y \in Texts : x <= y]
  /\ scan = [s \in Sources |-> [lease |-> "free", fp |-> None, dismissed |-> {}]]
  /\ dec = [i \in Ids |-> None]
  /\ task = [t \in Tasks |-> Idle]
  /\ dismissed = {} /\ finished = {} /\ overtaken = {}

-----------------------------------------------------------------------------
(* suggest: the source is read, then the lease taken or refused.           *)

Suggest(t, s) ==
  /\ task[t] = Idle /\ text[s] # None
  /\ task' = [task EXCEPT ![t] = [Idle EXCEPT !.pc = "claim", !.src = s, !.x = text[s]]]
  /\ UNCHANGED <<text, scan, dec, dismissed, finished, overtaken>>

\* Slip: whoever asks gets the lease.
ClaimHeld(t) ==
  LET k == task[t] IN
  /\ k.pc = "claim"
  /\ scan' = [scan EXCEPT ![k.src].lease = "held"]
  /\ task' = [task EXCEPT ![t].pc = "look", ![t].said = dismissed]
  /\ overtaken' = IF k.x = text[k.src] THEN overtaken ELSE overtaken \cup {k.src}
  /\ UNCHANGED <<text, dec, dismissed, finished>>

Claim(t) ==
  LET k == task[t] IN
  /\ k.pc = "claim"
  /\ IF scan[k.src].lease = "held"
     THEN task' = [task EXCEPT ![t] = Idle] /\ UNCHANGED <<scan, overtaken>>
     ELSE /\ scan' = [scan EXCEPT ![k.src].lease = "held"]
          /\ task' = [task EXCEPT ![t].pc = "look", ![t].said = dismissed]
          /\ overtaken' = IF k.x = text[k.src] THEN overtaken ELSE overtaken \cup {k.src}
  /\ UNCHANGED <<text, dec, dismissed, finished>>

Release(t) ==
  /\ task[t].pc = "release"
  /\ scan' = [scan EXCEPT ![task[t].src].lease = "free"]
  /\ task' = [task EXCEPT ![t] = Idle]
  /\ UNCHANGED <<text, dec, dismissed, finished, overtaken>>

Holding(s) == {t \in Tasks : task[t].src = s /\ task[t].pc \notin {"idle", "claim", "drop"}}
Lapse(s) ==
  /\ scan[s].lease = "held" /\ (SlowRuns \/ Holding(s) = {})
  /\ scan' = [scan EXCEPT ![s].lease = "lapsed"]
  /\ UNCHANGED <<text, dec, task, dismissed, finished, overtaken>>

-----------------------------------------------------------------------------
(* _suggest: refused for a text that was drafted from (or by the limits);  *)
(* then the related sources are read, and the AI asked.                    *)

Look(t) ==
  LET k == task[t] IN
  /\ k.pc = "look"
  /\ \/ Over(t)
     \/ /\ scan[k.src].fp # k.x
        /\ \E R \in SUBSET {w \in Sources : <<k.src, w>> \in Related /\ text[w] # None} :
             task' = [task EXCEPT ![t].pc = "scans", ![t].sources = [w \in R \cup {k.src} |-> IF w = k.src THEN k.x ELSE text[w]]]
  /\ UNCHANGED <<text, scan, dec, dismissed, finished, overtaken>>

\* Slip: only what was dismissed from the source that is asked about.
KnownOfOne(t) ==
  LET k == task[t] IN
  /\ k.pc = "scans"
  /\ task' = [task EXCEPT ![t].pc = "decisions", ![t].known = {<<k.src, q>> : q \in scan[k.src].dismissed}]
  /\ UNCHANGED <<text, scan, dec, dismissed, finished, overtaken>>

(* _known: after the reply, what was dismissed, then what is quoted.       *)
KnownDismissed(t) ==
  LET k == task[t] IN
  /\ k.pc = "scans"
  /\ task' = [task EXCEPT ![t].pc = "decisions",
                ![t].known = UNION {{<<w, q>> : q \in scan[w].dismissed} : w \in DOMAIN k.sources}]
  /\ UNCHANGED <<text, scan, dec, dismissed, finished, overtaken>>

KnownQuoted(t) ==
  LET k == task[t]
      quoted == UNION {Quotes(i) : i \in {j \in Ids : dec[j] # None}}
  IN /\ k.pc = "decisions"
     /\ task' = [task EXCEPT ![t].pc = "draft", ![t].known = @ \cup {m \in quoted : m[1] \in DOMAIN k.sources}]
     /\ UNCHANGED <<text, scan, dec, dismissed, finished, overtaken>>

(* The next suggestion of the reply: what it quotes that is in a source as *)
(* it was read, and not known. One without a quote of S1 is skipped.       *)
Draft(t) ==
  LET k == task[t]
      there == UNION {{<<w, q>> : q \in Says[k.sources[w]]} : w \in DOMAIN k.sources}
  IN /\ k.pc = "draft"
     /\ \/ Goto(t, "finish")
        \/ \E Q \in SUBSET (there \ k.known) :
             /\ Cardinality(Q) \in 1..MaxQuotes /\ (\E m \in Q : m[1] = k.src)
             /\ task' = [task EXCEPT ![t].pc = "create", ![t].marks = Q]
     /\ UNCHANGED <<text, scan, dec, dismissed, finished, overtaken>>

(* service.create finds each quote in its source as it is now, or the      *)
(* suggest ends there.                                                     *)
Create(t) ==
  LET k == task[t] IN
  /\ k.pc = "create"
  /\ IF \E m \in k.marks : text[m[1]] = None \/ m[2] \notin Says[text[m[1]]]
     THEN Over(t) /\ UNCHANGED dec
     ELSE \E i \in Ids :
            /\ dec[i] = None
            /\ dec' = [dec EXCEPT ![i] = [quotes |-> k.marks, src |-> k.src, again |-> k.marks \cap k.said]]
            /\ task' = [task EXCEPT ![t].pc = "draft", ![t].known = @ \cup k.marks, ![t].marks = {}]
  /\ UNCHANGED <<text, scan, dismissed, finished, overtaken>>

Finish(t) ==
  LET k == task[t] IN
  /\ k.pc = "finish"
  /\ scan' = [scan EXCEPT ![k.src].fp = k.x]
  /\ finished' = finished \cup {<<k.src, k.x>>}
  /\ Over(t)
  /\ UNCHANGED <<text, dec, dismissed, overtaken>>

-----------------------------------------------------------------------------
(* dismiss: the suggestion goes, then its quotes are recorded, source by   *)
(* source. One that somebody settles is one that nobody dismisses: that    *)
(* takes no action of its own.                                             *)

Dismiss(t, i) ==
  /\ task[t] = Idle /\ dec[i] # None
  /\ dec' = [dec EXCEPT ![i] = None]
  /\ task' = [task EXCEPT ![t] = [Idle EXCEPT !.pc = "drop", !.known = Quotes(i), !.marks = Quotes(i)]]
  /\ UNCHANGED <<text, scan, dismissed, finished, overtaken>>

RecordDismissed(t) ==
  LET k == task[t] IN
  /\ k.pc = "drop"
  /\ IF k.marks = {}
     THEN /\ dismissed' = dismissed \cup k.known
          /\ task' = [task EXCEPT ![t] = Idle] /\ UNCHANGED scan
     ELSE \E m \in k.marks :
            /\ scan' = [scan EXCEPT ![m[1]].dismissed = @ \cup {m[2]}]
            /\ task' = [task EXCEPT ![t].marks = @ \ {m}] /\ UNCHANGED dismissed
  /\ UNCHANGED <<text, dec, finished, overtaken>>

Write(s, x) ==
  /\ text[s] # None /\ x \in {None} \cup {y \in Texts : y > text[s]}
  /\ text' = [text EXCEPT ![s] = x]
  /\ UNCHANGED <<scan, dec, task, dismissed, finished, overtaken>>

(* The AI or a limit fails the suggest.                                    *)
Fail(t) ==
  /\ task[t].pc \in {"scans", "create", "finish"}
  /\ Over(t)
  /\ UNCHANGED <<text, scan, dec, dismissed, finished, overtaken>>

(* A dismissal or a suggest dies between two of its writes; the lease of   *)
(* the one it held lapses.                                                 *)
Crash(t) ==
  /\ task[t].pc \in {"drop", "create", "finish"}
  /\ task' = [task EXCEPT ![t] = Idle]
  /\ UNCHANGED <<text, scan, dec, dismissed, finished, overtaken>>

Next ==
  \/ \E t \in Tasks :
       \/ Claim(t) \/ Release(t) \/ Look(t) \/ KnownDismissed(t) \/ KnownQuoted(t) \/ Draft(t) \/ Create(t)
       \/ Finish(t) \/ RecordDismissed(t) \/ Fail(t) \/ Crash(t)
       \/ \E s \in Sources : Suggest(t, s)
       \/ \E i \in Ids : Dismiss(t, i)
  \/ \E s \in Sources : Lapse(s) \/ \E x \in Texts \cup {None} : Write(s, x)

Spec == Init /\ [][Next]_vars
-----------------------------------------------------------------------------
TypeOK ==
  /\ text \in [Sources -> Texts \cup {None}]
  /\ scan \in [Sources -> [lease : {"free", "held", "lapsed"}, fp : Texts \cup {None}, dismissed : SUBSET Passages]]
  /\ \A i \in Ids : dec[i] # None => Quotes(i) \subseteq Sources \X Passages /\ dec[i].src \in Sources

(* "One model call per run, made only when someone asks, and never twice   *)
(* for the same text" (suggest.py:9): for suggests that end within their   *)
(* lease, a text that was drafted from is not sent to the AI again. Where  *)
(* an edit falls between the read of the source and the lease, it is.      *)
AskedOnce ==
  \A t \in Tasks : LET k == task[t] IN
    k.pc \in {"scans", "decisions"} /\ <<k.src, k.x>> \in finished => SlowRuns \/ k.src \in overtaken

(* "nothing already quoted from here" (suggest.py, _suggest): whatever     *)
(* fails half-way and is asked again, two decisions drafted from a source  *)
(* never rest on one passage of it.                                        *)
DraftedOnce ==
  \A i, j \in Ids :
    i # j /\ dec[i] # None /\ dec[j] # None /\ dec[i].src = dec[j].src
      => SlowRuns \/ \A m \in Quotes(i) \cap Quotes(j) : m[1] # dec[i].src

(* "Not a decision: the suggestion goes, and its quote isn't suggested     *)
(* from that source again" (suggest.py:204): a quote whose dismissal was   *)
(* answered is in no decision whose suggest took its lease after that.     *)
DismissedStays == \A i \in Ids : dec[i] # None => dec[i].again = {}
=============================================================================
