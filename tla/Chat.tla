-------------------------------- MODULE Chat --------------------------------
(***************************************************************************)
(* Everything that asks the language model for a workspace: questions of   *)
(* the chat, decision suggestions and checks (chat/, query/service.py,     *)
(* decisions/limits.py), the counters they take from (core/rate_limit.py), *)
(* the calls to the provider with their retries and their bill             *)
(* (integrations/llm.py, usage/service.py), and the saved conversation.    *)
(* What is looked up and what an answer may say is module Lookups.         *)
(***************************************************************************)
EXTENDS Integers, FiniteSets, Sequences, FiniteSetsExt

CONSTANTS Asks,         \* requests of a behaviour, each made once
          Limit,        \* the limit of each window
          MaxMessages,  \* repository.MAX_MESSAGES
          MaxLookups,   \* settings.chat_max_lookups
          MaxPerRound,  \* MAX_LOOKUPS_PER_ROUND
          MaxTries      \* tries of one call: the backoffs, and one

Windows == {"member", "workspace", "suggest", "check", "day"}
Plan == [ask |-> <<"member", "workspace", "day">>, suggest |-> <<"suggest", "day">>, check |-> <<"check", "day">>]
Kinds == DOMAIN Plan
Missing == -1

VARIABLES
  count,   \* usage_counters
  ask,     \* requests under way
  conv,    \* chat_conversations: the messages of one conversation, and those it had at first
  bill     \* each provider call: how often llm_usage has it, whether it is asked for later

vars == <<count, ask, conv, bill>>

(* taken: windows counted so far; calls: model calls; free: those not       *)
(* counted; looked: lookups run; old: whether it goes on the conversation.  *)
Idle == [pc |-> "idle", kind |-> "ask", old |-> FALSE, taken |-> 0, extra |-> 0, calls |-> 0, free |-> 0,
         looked |-> 0, looking |-> TRUE, tries |-> 0, saved |-> FALSE]

Init ==
  /\ count = [w \in Windows |-> Missing]
  /\ ask = [a \in Asks |-> Idle]
  /\ conv \in {[n |-> k, first |-> k, there |-> TRUE] : k \in {2, MaxMessages - 2}}
  /\ bill = [a \in Asks |-> <<>>]

Goto(a, pc) == ask' = [ask EXCEPT ![a].pc = pc]
Over(a) == Goto(a, "over")

-----------------------------------------------------------------------------
(* ask_stream, suggest and check up to the first window: what is read.     *)

Begin(a, kind, old) ==
  /\ ask[a].pc = "idle"
  /\ old => kind = "ask" /\ conv.there /\ conv.n + 2 <= MaxMessages
  /\ ask' = [ask EXCEPT ![a].pc = "take", ![a].kind = kind, ![a].old = old]
  /\ UNCHANGED <<count, conv, bill>>

(* rate_limit.take_one: an update that matches a counter under its limit.  *)
(* Of two that find no counter one inserts it, and the other collides.     *)
Room(w) == Limit[w] > 0 /\ count[w] < Limit[w]
Counted(w) == count' = [count EXCEPT ![w] = IF @ = Missing THEN 1 ELSE @ + 1]

Window(a) == Plan[ask[a].kind][ask[a].taken + 1]

TakeWindow(a) ==
  LET w == Window(a)
      last == ask[a].taken + 1 = Len(Plan[ask[a].kind])
  IN /\ ask[a].pc \in {"take", "insert"}
     /\ \/ /\ Room(w) /\ (ask[a].pc = "insert" => count[w] = Missing)
           /\ Counted(w)
           /\ ask' = [ask EXCEPT ![a].taken = @ + 1, ![a].pc = IF last THEN "call" ELSE "take"]
        \/ ask[a].pc = "take" /\ count[w] = Missing /\ Room(w) /\ Goto(a, "insert") /\ UNCHANGED count
        \/ /\ ~Room(w) \/ (ask[a].pc = "insert" /\ count[w] # Missing)
           /\ Goto(a, IF ask[a].taken = 0 THEN "over" ELSE "give back")
           /\ UNCHANGED count
     /\ UNCHANGED <<conv, bill>>

(* take_all: what was taken is given back in one write.                    *)
\* Slip: the window that was full is given back too.
GiveBackAll(a) ==
  /\ ask[a].pc = "give back"
  /\ count' = [w \in Windows |-> IF \E i \in 1..(ask[a].taken + 1) : Plan[ask[a].kind][i] = w
                                 THEN count[w] - 1 ELSE count[w]]
  /\ ask' = [ask EXCEPT ![a].pc = "over", ![a].taken = 0]
  /\ UNCHANGED <<conv, bill>>

GiveBack(a) ==
  /\ ask[a].pc = "give back"
  /\ count' = [w \in Windows |-> IF \E i \in 1..ask[a].taken : Plan[ask[a].kind][i] = w
                                 THEN count[w] - 1 ELSE count[w]]
  /\ ask' = [ask EXCEPT ![a].pc = "over", ![a].taken = 0]
  /\ UNCHANGED <<conv, bill>>

-----------------------------------------------------------------------------
(* answer_stream: the rounds. Each call after the first is counted against *)
(* the day; when it is spent the next call is the answer.                  *)

NextCall(a) ==
  /\ ask[a].pc = "next"
  /\ IF Room("day")
     THEN /\ Counted("day")
          /\ ask' = [ask EXCEPT ![a].extra = @ + 1, ![a].pc = "call"]
     ELSE /\ UNCHANGED count
          /\ ask' = [ask EXCEPT ![a].free = @ + 1, ![a].looking = FALSE, ![a].pc = "call"]
  /\ UNCHANGED <<conv, bill>>

(* OpenAICompatibleClient._post: a transient error is tried again while    *)
(* there are tries and time; nothing has been billed.                      *)
\* Slip: a transient error is tried again without counting the tries.
PostForever(a) ==
  /\ ask[a].pc = "call"
  /\ \/ /\ ask' = [ask EXCEPT ![a].pc = "stream", ![a].calls = @ + 1]
        /\ bill' = [bill EXCEPT ![a] = Append(@, [times |-> 0, later |-> FALSE])]
     \/ ask' = [ask EXCEPT ![a].tries = 1 - @] /\ UNCHANGED bill
  /\ UNCHANGED <<count, conv>>

Post(a) ==
  /\ ask[a].pc = "call"
  /\ \/ /\ ask' = [ask EXCEPT ![a].pc = "stream", ![a].calls = @ + 1, ![a].tries = 0]
        /\ bill' = [bill EXCEPT ![a] = Append(@, [times |-> 0, later |-> FALSE])]
     \/ /\ ask[a].tries + 1 < MaxTries
        /\ ask' = [ask EXCEPT ![a].tries = @ + 1]
        /\ UNCHANGED bill
     \/ Over(a) /\ UNCHANGED bill
  /\ UNCHANGED <<count, conv>>

(* stream_text: the provider reports the call's usage, or the call stops   *)
(* before and its bill is asked for later: a header that claims too much   *)
(* is refused at once, which is an answer; the stream may fail; or it ends *)
(* without a report.                                                       *)
Stream(a) ==
  LET i == ask[a].calls
      read == IF ask[a].kind = "ask" THEN "read" ELSE "over"
  IN /\ ask[a].pc = "stream"
     /\ \/ Goto(a, read) /\ bill' = [bill EXCEPT ![a][i].times = @ + 1]
        \/ Goto(a, read) /\ bill' = [bill EXCEPT ![a][i].later = TRUE]
        \/ Over(a) /\ bill' = [bill EXCEPT ![a][i].later = TRUE]
        \/ ask[a].kind = "ask" /\ Goto(a, "save") /\ bill' = [bill EXCEPT ![a][i].later = TRUE]
     /\ UNCHANGED <<count, conv>>

(* _record_billed: what such a call cost, if that is learned.              *)
RecordBilled(a) ==
  \E i \in DOMAIN bill[a] :
    /\ bill[a][i].later
    /\ bill' = [bill EXCEPT ![a][i] = [times |-> @.times + 1, later |-> FALSE]]
    /\ UNCHANGED <<count, ask, conv>>

(* What the reply was: lookups while there is room to look further, or the *)
(* answer; calls made when looking is over are ignored.                    *)
LookingIsOver(a) == ~ask[a].looking \/ ask[a].looked >= MaxLookups

LookUp(a, calls) ==
  LET room == MaxLookups - ask[a].looked
      ran == Min({calls, room, MaxPerRound})
  IN /\ ask[a].pc = "read" /\ ~LookingIsOver(a)
     /\ ask' = [ask EXCEPT ![a].looked = @ + ran, ![a].pc = "next"]
     /\ UNCHANGED <<count, conv, bill>>

(* LOOKING_SECONDS pass, or lookups have no lines left to add to.          *)
StopLooking(a) ==
  /\ ask[a].pc = "next" /\ ask[a].looking
  /\ ask' = [ask EXCEPT ![a].looking = FALSE]
  /\ UNCHANGED <<count, conv, bill>>

Answer(a) ==
  /\ ask[a].pc = "read"
  /\ Goto(a, "save")
  /\ UNCHANGED <<count, conv, bill>>

-----------------------------------------------------------------------------
(* The question and its answer, together. A new conversation is its own    *)
(* document (not `conv`); append only matches one with room for both.      *)

\* Slip: whether there is room was looked at when the question came in.
SaveAsFound(a) ==
  /\ ask[a].pc = "save"
  /\ conv' = IF ask[a].old /\ conv.there THEN [conv EXCEPT !.n = @ + 2] ELSE conv
  /\ ask' = [ask EXCEPT ![a].pc = "over", ![a].saved = TRUE]
  /\ UNCHANGED <<count, bill>>

Save(a) ==
  LET room == conv.there /\ conv.n <= MaxMessages - 2
  IN /\ ask[a].pc = "save"
     /\ conv' = IF ask[a].old /\ room THEN [conv EXCEPT !.n = @ + 2] ELSE conv
     /\ ask' = [ask EXCEPT ![a].pc = "over", ![a].saved = ~ask[a].old \/ room]
     /\ UNCHANGED <<count, bill>>

DeleteConversation ==
  /\ conv.there
  /\ conv' = [conv EXCEPT !.there = FALSE]
  /\ UNCHANGED <<count, ask, bill>>

(* The reader goes away, or the process stops.                             *)
Stop(a) ==
  /\ ask[a].pc \notin {"idle", "over"}
  /\ Over(a)
  /\ \/ UNCHANGED bill
     \/ ask[a].pc = "stream" /\ bill' = [bill EXCEPT ![a][ask[a].calls].later = TRUE]
  /\ UNCHANGED <<count, conv>>

Step(a) == TakeWindow(a) \/ GiveBack(a) \/ NextCall(a) \/ Post(a) \/ Stream(a)
           \/ (\E n \in 1..(MaxPerRound + 1) : LookUp(a, n)) \/ Answer(a) \/ Save(a)

Next ==
  \/ \E a \in Asks :
       \/ TakeWindow(a) \/ GiveBack(a) \/ NextCall(a) \/ Post(a) \/ Stream(a) \/ RecordBilled(a)
       \/ StopLooking(a) \/ Answer(a) \/ Save(a) \/ Stop(a)
       \/ \E k \in Kinds, old \in BOOLEAN : Begin(a, k, old)
       \/ \E n \in 1..(MaxPerRound + 1) : LookUp(a, n)
  \/ DeleteConversation

Spec == Init /\ [][Next]_vars

(* A request's task is run; the provider answers or times out.             *)
Fairness == \A a \in Asks : WF_vars(Step(a))
FairSpec == Spec /\ Fairness
-----------------------------------------------------------------------------
TypeOK ==
  /\ count \in [Windows -> -1..Cardinality(Asks) * (MaxLookups + 2)]
  /\ conv \in [n : 0..MaxMessages, first : 0..MaxMessages, there : BOOLEAN]
  /\ \A a \in Asks : ask[a].kind \in Kinds /\ ask[a].calls = Len(bill[a]) /\ ask[a].looked <= MaxLookups

(* "raise the first full one's error without counting any" (rate_limit.py: *)
(* 38): whatever asks race, a window counts exactly the requests it let    *)
(* through or that still hold it, and never more than its limit; and the   *)
(* provider is called once per count of the day, but for the last answer   *)
(* of a question, which a spent budget still allows; no call is billed     *)
(* twice.                                                                  *)
Takes(w, a) == (IF \E i \in 1..ask[a].taken : Plan[ask[a].kind][i] = w THEN 1 ELSE 0)
               + (IF w = "day" THEN ask[a].extra ELSE 0)
Held(w) == UNION {{a} \X (1..Takes(w, a)) : a \in Asks}
BudgetHolds ==
  /\ \A w \in Windows : count[w] # Missing => count[w] = Cardinality(Held(w)) /\ count[w] <= Limit[w]
  /\ \A a \in Asks : ask[a].calls <= Takes("day", a) + ask[a].free /\ ask[a].free <= 1
  /\ \A a \in Asks : \A i \in DOMAIN bill[a] : bill[a][i].times + (IF bill[a][i].later THEN 1 ELSE 0) <= 1

(* "A question is only stored together with its answer" (service.py:3):    *)
(* the conversation holds a pair for every question it was told is saved,  *)
(* and never more than it may, however many are asked at once.             *)
AnswersSaved ==
  /\ conv.n = conv.first + 2 * Cardinality({a \in Asks : ask[a].old /\ ask[a].saved})
  /\ conv.n <= MaxMessages

(* "LOOKING_SECONDS ... the answer is then written": whatever the model    *)
(* asks to look up, every question ends: answered, refused or failed.      *)
QuestionsEnd == \A a \in Asks : ask[a].pc # "idle" ~> ask[a].pc = "over"
=============================================================================
