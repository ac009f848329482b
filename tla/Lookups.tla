------------------------------- MODULE Lookups -------------------------------
(***************************************************************************)
(* What one question of the chat shows the model and what of its reply is  *)
(* let through (query/context.py, tools.py, source.py, grounding.py,       *)
(* reply.py): the context laid out within its budgets, the lookups the     *)
(* model asks for and that run together, and the answer checked against    *)
(* what was shown. A line of the prompt is what it refers to: references,  *)
(* a relation, a line of code. Which model calls are made is module Chat.  *)
(***************************************************************************)
EXTENDS Naturals, FiniteSets, Sequences, SequencesExt

CONSTANTS Nodes,      \* the nodes of the graph
          Label,      \* of each: "module", "file" or "symbol"
          Uses,       \* pairs: calls, renders, requests
          Holds,      \* pairs: contains, defines, has_member
          StartLine, EndLine,\* the lines of each node's code in its file; none for a module
          FileLen,    \* lines of the file, which is all the code there is
          Opening,    \* what questions start with: nodes in focus and matched, open folders
          Calls,      \* lookups of one round
          Rounds,     \* rounds of lookups
          MaxContext, \* MAX_CONTEXT_LINES
          MaxSource,  \* MAX_SOURCE_LINES
          MaxLookup,  \* MAX_LOOKUP_LINES
          MaxRead,    \* MAX_READ_LINES
          MaxCited,   \* MAX_CITED_LINES
          FlowDepth,  \* FLOW_DEPTH
          MaxFlow,    \* MAX_FLOW_NODES
          None

VARIABLES
  b,       \* the ContextBuilder: references given out, lines, sources, lines looked up
  call,    \* the lookups under way
  asked,   \* Lookups.asked
  reading, \* Lookups.reading
  round,   \* rounds begun
  answer,  \* the checked answer
  ran      \* history: how often each search or relation was looked up

vars == <<b, call, asked, reading, round, answer, ran>>

-----------------------------------------------------------------------------
(* ContextBuilder: operators on what it has laid out so far.               *)

Empty == [refs |-> <<>>, lines |-> <<>>, sources |-> <<>>, found |-> <<>>]
Text == [refs |-> {}, rel |-> {}, src |-> 0, no |-> 0]

HasRef(c, n) == n \in Range(c.refs)
RefOf(c, n) == CHOOSE r \in DOMAIN c.refs : c.refs[r] = n
Give(c, n) == IF HasRef(c, n) THEN c ELSE [c EXCEPT !.refs = Append(@, n)]
Add(c, line) == [c EXCEPT !.lines = Append(@, line)]
Heading(c) == Add(c, Text)
Node(c, n) == LET g == Give(c, n) IN Add(g, [Text EXCEPT !.refs = {RefOf(g, n)}])
Edge(c, type, s, t) ==
  IF ~HasRef(c, s) \/ ~HasRef(c, t) THEN c
  ELSE Add(c, [Text EXCEPT !.refs = {RefOf(c, s), RefOf(c, t)}, !.rel = {<<RefOf(c, s), type, RefOf(c, t)>>}])

NodeIfNew(c, n) == IF HasRef(c, n) THEN c ELSE Node(Heading(c), n)

(* store.neighbours, one hop, and add_around.                              *)
EdgesOf(n, dir) == {e \in Uses : (dir # "in" /\ e[1] = n) \/ (dir # "out" /\ e[2] = n)}
Around(c, n, dir) ==
  LET edges == SetToSeq(EdgesOf(n, dir))
      g == FoldLeft(LAMBDA d, e : Give(Give(d, e[1]), e[2]), c, edges)
  IN IF edges = <<>> THEN c ELSE FoldLeft(LAMBDA d, e : Edge(d, "uses", e[1], e[2]), Heading(g), edges)

Focus(c, n) == Around(NodeIfNew(c, n), n, "both")

Matches(c, rows) ==
  LET listed == FoldLeft(Node, IF rows = <<>> THEN c ELSE Heading(c), rows)
  IN FoldLeft(LAMBDA d, n : Around(d, n, "both"), listed, rows)

(* _follow_flow: hop after hop from the seeds, a file from what it defines,*)
(* no more than MaxFlow new nodes; then add_flow.                          *)
Lifted(seeds) == {n \in Nodes : \E f \in Range(seeds) : Label[f] = "file" /\ <<f, n>> \in Holds}
Flow(seeds) ==
  LET start == {n \in Range(seeds) : Label[n] = "symbol"} \cup Lifted(seeds)
      hop(w, i) ==
        LET edges == {e \in Uses : e[1] \in w.front}
            new == {e[2] : e \in edges} \ w.seen
            room == CHOOSE S \in SUBSET new :
                      Cardinality(S) = (IF Cardinality(new) <= MaxFlow - w.n THEN Cardinality(new) ELSE MaxFlow - w.n)
        IN [front |-> room, seen |-> w.seen \cup room, n |-> w.n + Cardinality(room),
            rows |-> w.rows \o SetToSeq({e \in edges : e[2] \in w.seen \cup room})]
  IN FoldLeft(hop, [front |-> start, seen |-> start, n |-> 0, rows |-> <<>>], [i \in 1..FlowDepth |-> i]).rows
AddFlow(c, rows) ==
  LET nodes == FoldLeft(LAMBDA d, e : NodeIfNew(d, e[2]), c, rows)
  IN FoldLeft(LAMBDA d, e : Edge(d, "uses", e[1], e[2]), nodes, rows)

(* add_sources: one block, its lines numbered as in the file, as many as   *)
(* are left of the budget. `lines` is how many lines were read.            *)
CodeLines(c, src) == Cardinality({i \in DOMAIN c.lines : c.lines[i].src = src})
SourceLines(c) == Cardinality({i \in DOMAIN c.lines : c.lines[i].src # 0})
Block(c, n, start, lines) ==
  LET left == MaxSource - SourceLines(c)
      shown == IF lines <= left THEN lines ELSE left
      src == Len(c.sources) + 1
      g == Give(c, n)
      head == Add([g EXCEPT !.sources = Append(@, [node |-> n, start |-> start, lines |-> lines])],
                  [Text EXCEPT !.refs = {RefOf(g, n)}])
  IN IF left <= 0 THEN c
     ELSE FoldLeft(LAMBDA d, i : Add(d, [Text EXCEPT !.src = src, !.no = start + i - 1]), head, [i \in 1..shown |-> i])
HasCode(n) == Label[n] # "module"
Source(c, n) == IF HasCode(n) THEN Block(c, n, StartLine[n], EndLine[n] - StartLine[n] + 1) ELSE c

AddContents(c, folders) ==
  FoldLeft(LAMBDA d, e : Edge(Give(NodeIfNew(d, e[1]), e[2]), "holds", e[1], e[2]), c,
           SetToSeq({e \in Holds : e[1] \in folders}))

Listed(c, label) == FoldLeft(Node, Heading(c), SetToSeq({n \in Nodes : Label[n] = label}))

(* _source_candidates: each once; which comes first is left open.          *)
Candidates(seeds) == SetToSeq(Range(seeds))

(* open_ask_context, in the order it lays things out.                      *)
Open(q) ==
  LET seeds == q.focus \o SelectSeq(q.matched, HasCode)
      holders == q.open \cup {n \in Range(q.focus) \cup Range(q.matched) : Label[n] # "symbol"}
      shown == FoldLeft(Source, AddFlow(Matches(FoldLeft(Focus, Empty, q.focus), q.matched), Flow(seeds)),
                        Candidates(seeds))
  IN Listed(Listed(AddContents(shown, holders), "file"), "module")

(* build: what survives the budget, and what was looked up since.          *)
Kept(c) == SubSeq(c.lines, 1, IF Len(c.lines) <= MaxContext THEN Len(c.lines) ELSE MaxContext) \o c.found
ShownRefs(c) == UNION {line.refs : line \in Range(Kept(c))}
ShownRelations(c) == UNION {line.rel : line \in Range(Kept(c))}
(* _shown_sources: a block goes up to the last of its lines that was shown. *)
ShownUpTo(c, src) == LET shown == {line.no : line \in {l \in Range(Kept(c)) : l.src = src}}
                     IN IF shown = {} THEN 0 ELSE CHOOSE n \in shown : \A m \in shown : m <= n
ShownSources(c) == {s \in DOMAIN c.sources : ShownUpTo(c, s) > 0}
ShownCode(c) == {<<c.sources[s].start, ShownUpTo(c, s)>> : s \in ShownSources(c)}

LookupRoom(c) == MaxLookup - Len(c.found)
(* look_up: the lines `filled` has more than c, as far as there is room.   *)
LookedUp(c, filled) ==
  LET added == SubSeq(filled.lines, Len(c.lines) + 1, Len(filled.lines))
  IN [filled EXCEPT !.lines = c.lines,
        !.found = c.found \o SubSeq(added, 1, IF Len(added) <= LookupRoom(c) THEN Len(added) ELSE LookupRoom(c))]
(* add_sources has its whole budget again in a lookup.                     *)
LookUpCode(c, n, start, lines) ==
  LET alone == Block([c EXCEPT !.lines = <<>>], n, start, lines)
  IN LookedUp(c, [alone EXCEPT !.lines = c.lines \o alone.lines])

-----------------------------------------------------------------------------
Waiting == [pc |-> "none", key |-> None, node |-> None, from |-> 0, to |-> 0]
NoAnswer == [given |-> FALSE, refs |-> {}, rels |-> {}, code |-> {}, steps |-> <<>>]

Init ==
  /\ \E q \in Opening : b = Open(q)
  /\ call = [c \in Calls |-> Waiting]
  /\ asked = {}
  /\ reading = {}
  /\ round = 0
  /\ answer = NoAnswer
  /\ ran = [k \in {"search", "in", "out"} \X Nodes |-> 0]

Quiet == \A c \in Calls : call[c].pc \in {"none", "done"}

(* answer_stream: a round, its calls run together.                         *)
BeginRound ==
  /\ ~answer.given /\ Quiet /\ round < Rounds /\ LookupRoom(b) > 0
  /\ round' = round + 1
  /\ call' = [c \in Calls |-> [Waiting EXCEPT !.pc = "asked"]]
  /\ UNCHANGED <<b, asked, reading, answer, ran>>

Ends(c) == call' = [call EXCEPT ![c].pc = "done"]

(* run, for search_graph and related: recorded before anything is awaited. *)
Start(c, kind, n) ==
  /\ call[c].pc = "asked"
  /\ kind # "search" => HasRef(b, n)
  /\ IF <<kind, n>> \in asked THEN Ends(c) /\ UNCHANGED asked
     ELSE /\ asked' = asked \cup {<<kind, n>>}
          /\ call' = [call EXCEPT ![c] = [call[c] EXCEPT !.pc = "look", !.key = <<kind, n>>]]
  /\ UNCHANGED <<b, reading, round, answer, ran>>

Finish(c) ==
  LET kind == call[c].key[1]
      n == call[c].key[2]
  IN /\ call[c].pc = "look"
     /\ b' = LookedUp(b, IF kind = "search" THEN Node(Heading(b), n) ELSE Around(b, n, kind))
     /\ ran' = [ran EXCEPT ![call[c].key] = @ + 1]
     /\ Ends(c)
     /\ UNCHANGED <<asked, reading, round, answer>>

(* read_code of a node, or of lines of the file it stands for.             *)
AskRead(c, n, from) ==
  /\ call[c].pc = "asked" /\ HasCode(n)
  /\ call' = [call EXCEPT ![c] = [call[c] EXCEPT !.pc = "detail", !.node = n, !.from = from,
                !.to = IF EndLine[n] < from + MaxRead - 1 THEN EndLine[n] ELSE from + MaxRead - 1]]
  /\ UNCHANGED <<b, asked, reading, round, answer, ran>>

(* Past every block that has the first line, then up to the next block.    *)
\* Slip: what another lookup is reading just now is not counted as shown.
BlocksShown == ShownCode(b)

Blocks == ShownCode(b) \cup reading
Beyond(start, blocks) ==
  LET inside(s) == {k \in blocks : k[1] <= s /\ s <= k[2]}
      free == {s \in start..(FileLen + 1) : inside(s) = {} /\ \A p \in start..(s - 1) : inside(p) # {}}
  IN CHOOSE s \in free : TRUE

ChooseRange(c) ==
  LET start == Beyond(call[c].from, Blocks)
      next == {k[1] - 1 : k \in {j \in Blocks : j[1] > start}} \cup {call[c].to}
      end == CHOOSE e \in next : \A x \in next : e <= x
  IN /\ call[c].pc = "detail"
     /\ IF start > call[c].to
        THEN Ends(c) /\ UNCHANGED reading
        ELSE /\ call' = [call EXCEPT ![c].pc = "read", ![c].from = start, ![c].to = end]
             /\ reading' = reading \cup {<<start, end>>}
     /\ UNCHANGED <<b, asked, round, answer, ran>>

(* read_snippet, no further than the file goes; shown as a new source.     *)
FinishRead(c) ==
  LET k == call[c]
      to == IF k.to <= FileLen THEN k.to ELSE FileLen
  IN /\ k.pc = "read"
     /\ reading' = reading \ {<<k.from, k.to>>}
     /\ b' = IF k.from <= to THEN LookUpCode(b, k.node, k.from, to - k.from + 1) ELSE b
     /\ Ends(c)
     /\ UNCHANGED <<asked, round, answer, ran>>

(* A refused call, one that fails, or the lookup took too long.            *)
GiveUp(c) ==
  /\ call[c].pc \in {"asked", "look", "detail", "read"}
  /\ reading' = IF call[c].pc = "read" THEN reading \ {<<call[c].from, call[c].to>>} ELSE reading
  /\ Ends(c)
  /\ UNCHANGED <<b, asked, round, answer, ran>>

-----------------------------------------------------------------------------
(* ground: relations first, then references, code and steps. The model may *)
(* write anything.                                                         *)

(* ReplyReader: the header is the lines up to the first that is not of it; *)
(* header lines the reply ends with are read too. One in the middle of the *)
(* answer is text.                                                         *)
Header == {"relations", ""}
HeaderLines(lines) == {k \in 0..Len(lines) : \A i \in 1..k : lines[i] \in Header}
TrailerLines(lines) == {k \in 1..(Len(lines) + 1) : \A i \in k..Len(lines) : lines[i] \in Header}
Claims(lines) == \E i \in DOMAIN lines : lines[i] = "relations" /\ (i \in HeaderLines(lines) \/ i \in TrailerLines(lines))
AnswerText(lines) == \E i \in DOMAIN lines : lines[i] = "text"

(* _merge_run: two ranges side by side that touch become one.              *)
MergeRun(run) ==
  FoldLeft(LAMBDA m, r :
    LET last == m[Len(m)] IN
    IF m # <<>> /\ last[1] = r[1] /\ last[2] <= r[2] /\ r[2] <= last[3] + 1
       /\ (IF r[3] > last[3] THEN r[3] ELSE last[3]) - last[2] < MaxCited
    THEN [m EXCEPT ![Len(m)] = <<last[1], last[2], IF r[3] > last[3] THEN r[3] ELSE last[3]>>]
    ELSE Append(m, r), <<>>, run)

(* _cite_code: the lines must lie inside one source as it was shown.       *)
\* Slip: they must lie inside what was read for the source.
CitedAsRead(r) ==
  /\ r[1] \in DOMAIN b.sources
  /\ b.sources[r[1]].start <= r[2] /\ r[2] <= r[3] /\ r[3] <= b.sources[r[1]].start + b.sources[r[1]].lines - 1

Cited(r) ==
  /\ r[1] \in ShownSources(b)
  /\ b.sources[r[1]].start <= r[2] /\ r[2] <= r[3] /\ r[3] <= ShownUpTo(b, r[1])

CutTo(r) == IF r[3] - r[2] < MaxCited THEN r ELSE <<r[1], r[2], r[2] + MaxCited - 1>>

(* _split_steps: steps in a row on one node are one; fewer than two are no  *)
(* walkthrough.                                                            *)
Steps(refs) ==
  LET known == SelectSeq(refs, LAMBDA r : r \in ShownRefs(b))
      joined == FoldLeft(LAMBDA s, r : IF s # <<>> /\ s[Len(s)] = r THEN s ELSE Append(s, r), <<>>, known)
  IN IF Len(joined) < 2 THEN <<>> ELSE joined

Answer(lines, rels, refs, run, steps) ==
  LET claimed == IF Claims(lines) THEN rels ELSE {}
  IN /\ ~answer.given /\ Quiet
     /\ answer' = IF ~AnswerText(lines) \/ ~(claimed \subseteq ShownRelations(b)) THEN [NoAnswer EXCEPT !.given = TRUE]
                  ELSE [given |-> TRUE, refs |-> (refs \cup Range(steps)) \cap ShownRefs(b), rels |-> claimed,
                        code |-> {CutTo(r) : r \in {x \in Range(MergeRun(run)) : Cited(x)}}, steps |-> Steps(steps)]
     /\ UNCHANGED <<b, call, asked, reading, round, ran>>

(* bound: references, sources and lines a reply may name, shown or not.    *)
Refs == 1..Cardinality(Nodes)
CodeRuns == {<<>>} \cup {<<<<s, x, y>>, <<s, z, z>>>> : s \in Refs, x \in {1, 2}, y \in {2, 3}, z \in 3..FileLen}

Next ==
  \/ BeginRound
  \/ \E c \in Calls :
       \/ Finish(c) \/ ChooseRange(c) \/ FinishRead(c) \/ GiveUp(c)
       \/ \E n \in Nodes : \/ \E k \in {"search", "in", "out"} : Start(c, k, n)
                           \/ \E from \in StartLine[n]..EndLine[n] : AskRead(c, n, from)
  \/ \E x \in Refs, y \in Refs : 
       \E lines \in {<<"relations", "", "text">>, <<"text", "relations">>, <<"text", "relations", "text">>, <<"relations">>} :
         Answer(lines, {<<x, "uses", y>>}, {x, y}, <<>>, <<x, x, y>>)
  \/ \E run \in CodeRuns : Answer(<<"text">>, {}, {}, run, <<1>>)

Spec == Init /\ [][Next]_vars
-----------------------------------------------------------------------------
TypeOK ==
  /\ b.refs \in Seq(Nodes) /\ IsInjective(b.refs)
  /\ Len(b.found) <= MaxLookup /\ LookupRoom(b) >= 0
  /\ round \in 0..Rounds
  /\ \A s \in DOMAIN b.sources : b.sources[s].start + b.sources[s].lines - 1 <= FileLen

(* "only what isn't shown yet is read" and "calls run together can't both  *)
(* pass" (tools.py:148, 198): no line of code a lookup adds was shown      *)
(* before, and nothing is looked up twice, however the lookups of a round  *)
(* overlap.                                                                *)
ReadOnce ==
  /\ \A i \in DOMAIN b.found, j \in DOMAIN Kept(b) :
       /\ b.found[i].src # 0
       /\ j # Len(Kept(b)) - Len(b.found) + i
       => Kept(b)[j].no # b.found[i].no
  /\ \A k \in DOMAIN ran : ran[k] <= 1

(* "every reference and relationship it returns is checked against what    *)
(* that context showed it" (service.py:4): references, relations and every *)
(* line of code of the answer stood in the prompt, which is what survived  *)
(* the budgets, and the steps are among its references.                    *)
AnswerGrounded ==
  LET shown == Range(Kept(b)) IN
  /\ \A r \in answer.refs : \E line \in shown : r \in line.refs
  /\ \A r \in answer.rels : \E line \in shown : r \in line.rel
  /\ \A k \in answer.code : \A n \in k[2]..k[3] : \E line \in shown : line.src = k[1] /\ line.no = n
  /\ Range(answer.steps) \subseteq answer.refs
=============================================================================
