----------------------------- MODULE PageFormat ------------------------------
(***************************************************************************)
(* A Confluence page in its own format and in our editor's                 *)
(* (connectors/adf.py): fetched, a page becomes editor JSON; pushed, the   *)
(* editor's document becomes a page again. What the editor has no node for *)
(* travels along as it came.                                               *)
(*                                                                         *)
(* Both are sequences of nodes: a type, attributes, block marks, content.  *)
(* Attributes both sides keep as they are, and those they leave out, are   *)
(* one value, `at`; a text is its words and marks. Text widths, labels and *)
(* ids given to tasks are left out; widths of columns are hundredths of a  *)
(* percent. A conflict with their edits is module DocPush's.               *)
(***************************************************************************)
EXTENDS Naturals, SequencesExt

CONSTANTS None,
          Pages,           \* what is written at the source
          Images,          \* media small enough, and of a type, to be copied
          Uploads,         \* pictures added here, which are not at the source
          Widths, Urls,    \* what a picture or a link may be changed to
          MaxEdits,        \* bound: edits of a page since they last wrote it
          MaxBlocks        \* bound: blocks of a page that is edited

VARIABLES page, body,
          copies,          \* media we hold a copy of, of the version there now
          pending,         \* whether body has edits to push
          edits

vars == <<page, body, copies, pending, edits>>

SAME_BLOCKS == {"paragraph", "heading", "bulletList", "orderedList", "listItem", "blockquote", "codeBlock", "table",
                "tableRow", "tableHeader", "tableCell"}
EDITOR_BLOCKS == SAME_BLOCKS \cup {"panel", "expand", "nestedExpand", "layoutSection", "layoutColumn"}
PANEL_BLOCKS == {"paragraph", "heading", "bulletList", "orderedList", "blockCard", "mediaGroup", "mediaSingle",
                 "codeBlock", "taskList", "rule", "decisionList", "extension"}
SAME_ATOMS == {"emoji", "status", "date"}
SIZED_LAYOUTS == {"center", "align-start", "align-end", "wrap-left", "wrap-right"}
MARKS == [strong |-> "bold", em |-> "italic", strike |-> "strike", code |-> "code", underline |-> "underline", link |-> "link"]
IMAGE_WIDTH_MIN == 10
IMAGE_WIDTH_MAX == 100
CONFLUENCE_BODY_PX == 760
MAX_COLUMNS == 3

Depth == 8   \* bound: how deep nodes hold one another

Kept(kind) == IF kind \in {"layoutSection", "expand", "nestedExpand"} THEN {"breakout"} ELSE {}
Alignments == {"center", "right"}

Node(kind, at, content) == [type |-> kind, at |-> at, marks |-> {}, content |-> content]
With(kind, at, raw) == [type |-> kind, at |-> at, marks |-> {}, content |-> <<>>, raw |-> raw]
Plain == [as |-> ""]
Panel == [as |-> "info"]
Opened(nested) == [title |-> "", nested |-> nested]
Paragraph == Node("paragraph", Plain, <<>>)
Each(nodes, Of(_)) == FlattenSeq([i \in DOMAIN nodes |-> Of(nodes[i])])
Within(nodes, deep) == FoldLeft(LAMBDA ns, k : Each(ns, LAMBDA n : n.content), nodes, [k \in 1..deep |-> k])
Everything(nodes) == UNION {Range(Within(nodes, k)) : k \in 0..Depth}
OrElse(nodes, none) == IF nodes = <<>> THEN none ELSE nodes
Round(n, d) == (2 * n + d) \div (2 * d)

(* Both ways are recursive in the code: what a node becomes rests on what  *)
(* those it holds became, `done`.                                          *)
Blocks(nodes, done) == Each(nodes, LAMBDA n : done[n])
Converted(nodes, Of(_, _)) ==
  LET all == Everything(nodes)
  IN Blocks(nodes, FoldLeft(LAMBDA done, k : [n \in all |-> Of(n, done)], [n \in all |-> <<>>], [k \in 1..Depth |-> k]))

Clamp(low, n, high) == IF n < low THEN low ELSE IF n > high THEN high ELSE n
-----------------------------------------------------------------------------
(* From the source. A picture's width is a percent of the column, and 0    *)
(* when it has none.                                                       *)
ImageWidth(at) ==
  IF at.width = 0 THEN 0
  ELSE Clamp(IMAGE_WIDTH_MIN, IF at.widthType = "pixel" THEN Round(at.width * 100, CONFLUENCE_BODY_PX) ELSE at.width, IMAGE_WIDTH_MAX)
Media(single) == LET media == SelectSeq(single.content, LAMBDA child : child.type = "media")
                 IN IF media = <<>> THEN None ELSE media[1]
Held(single, images) == single.type = "mediaSingle" /\ Media(single) # None /\ Media(single).at.id \in images

Card(n) == With(n.type, n.at, n)
Inline(n) ==
  CASE n.type = "text" -> 
         IF n.text = "" THEN <<>>
         ELSE <<[type |-> "text", text |-> n.text, content |-> <<>>, raw |-> n.marks \ DOMAIN MARKS,
                 marks |-> {MARKS[m] : m \in n.marks \cap DOMAIN MARKS}]>>
    [] n.type = "hardBreak" \/ (n.type \in SAME_ATOMS /\ n.marks = {}) -> <<n>>
    [] n.type = "inlineCard" /\ n.at.url # "" /\ n.marks = {} -> <<Card(n)>>
    [] OTHER -> <<With("sourceInline", Plain, n)>>
Inlines(nodes) == Each(nodes, Inline)

(* A task list stands beside the task it belongs to there, and in it here. *)
TaskList(n, done) ==
  LET add(items, child) ==
        IF child.type = "taskItem"
        THEN Append(items, Node("taskItem", child.at, <<[Paragraph EXCEPT !.content = Inlines(child.content)]>>))
        ELSE IF child.type = "taskList" /\ items # <<>>
             THEN [items EXCEPT ![Len(items)].content = @ \o done[child]]
             ELSE items
  IN Node("taskList", Plain, OrElse(FoldLeft(add, <<>>, n.content), <<Node("taskItem", [as |-> "TODO"], <<Paragraph>>)>>))

Block(n, done, images) ==
  LET children == 
        CASE n.type \in {"paragraph", "heading"} -> Inlines(n.content)
          [] n.type = "codeBlock" -> n.content
          [] n.type \in {"table", "tableRow", "bulletList", "orderedList", "layoutSection"} -> Blocks(n.content, done)
          [] OTHER -> OrElse(Blocks(n.content, done), <<Paragraph>>)
  IN CASE Held(n, images) -> <<With("image", [width |-> ImageWidth(n.at), alt |-> Media(n).at.alt], n)>>
       [] n.type = "taskList" -> <<TaskList(n, done)>>
       [] n.type = "rule" -> <<Node("horizontalRule", Plain, <<>>)>>
       [] n.type \in {"blockCard", "embedCard"} /\ n.at.url # "" /\ ~n.at.datasource /\ n.marks = {} -> <<Card(n)>>
       [] OTHER ->
            IF n.type \notin EDITOR_BLOCKS \/ ~(n.marks \subseteq Alignments \cup Kept(n.type))
            THEN <<With("sourceBlock", Plain, n)>>
            ELSE IF n.type = "nestedExpand"
                 THEN <<[n EXCEPT !.type = "expand", !.at = [title |-> n.at.title, nested |-> TRUE], !.content = children]>>
                 ELSE <<[n EXCEPT !.content = children]>>

AdfToEditor(adf, images) == OrElse(Converted(adf, LAMBDA n, done : Block(n, done, images)), <<Paragraph>>)
-----------------------------------------------------------------------------
(* Back. A picture goes as it came unless its width or text changed here.  *)
AdfImage(image) ==
  LET raw == image.raw
      same == Media(raw) = None \/ image.at.alt = Media(raw).at.alt
      layout == IF raw.at.layout \in SIZED_LAYOUTS THEN raw.at.layout ELSE "center"
      at == IF image.at.width = 0 THEN [raw.at EXCEPT !.width = 0, !.widthType = ""]
            ELSE [width |-> image.at.width, widthType |-> "percentage", layout |-> layout]
      described(child) == IF child = Media(raw) THEN [child EXCEPT !.at.alt = image.at.alt] ELSE child
  IN IF image.at.width = ImageWidth(raw.at) /\ same THEN raw
     ELSE [raw EXCEPT !.at = at, !.content = [i \in DOMAIN raw.content |-> described(raw.content[i])]]

AdfCard(n) ==
  IF n.raw # None /\ n.raw.at.url = n.at.url THEN <<n.raw>>
  ELSE IF n.at.url = "" THEN <<>> ELSE <<Node(n.type, n.at, <<>>)>>

FromInline(n) ==
  CASE n.type = "text" -> 
         <<[type |-> "text", text |-> n.text, content |-> <<>>, marks |-> n.raw \cup {m \in DOMAIN MARKS : MARKS[m] \in n.marks}]>>
    [] n.type = "inlineCard" -> AdfCard(n)
    [] n.type = "sourceInline" -> <<n.raw>>
    [] OTHER -> <<n>>
FromInlines(nodes) == Each(nodes, FromInline)

(* What may not stand where it is gives way to what it holds.              *)
Unwrap(blocks, kinds) ==
  LET once(bs, k) ==
        Each(bs, LAMBDA b : IF b.type \notin kinds THEN <<b>>
                            ELSE IF b.type = "layoutSection" THEN Each(b.content, LAMBDA column : column.content) ELSE b.content)
  IN FoldLeft(once, blocks, [k \in 1..Depth |-> k])

(* The columns past the third join it; their widths are of a whole again.  *)
Layout(n, done) ==
  LET all == SelectSeq(n.content, LAMBDA c : c.type = "layoutColumn")
      rest == SubSeq(all, MAX_COLUMNS, Len(all))
      columns == IF Len(all) <= MAX_COLUMNS THEN all
                 ELSE Append(SubSeq(all, 1, MAX_COLUMNS - 1), [rest[1] EXCEPT !.content = Each(rest, LAMBDA c : c.content)])
      width(i) == IF \A c \in Range(columns) : c.at.width > 0 THEN columns[i].at.width ELSE 1
      total == FoldLeft(+, 0, [i \in DOMAIN columns |-> width(i)])
      column(i) == Node("layoutColumn", [width |-> Round(width(i) * 10000, total)],
                        OrElse(Unwrap(Blocks(columns[i].content, done), {"layoutSection"}), <<Paragraph>>))
  IN [n EXCEPT !.content = [i \in DOMAIN columns |-> column(i)]]

AdfTaskList(n, done) ==
  Node("taskList", Plain, Each(n.content, LAMBDA item : 
    <<Node("taskItem", item.at, FromInlines(item.content[1].content))>> \o
    Blocks(SelectSeq(Tail(item.content), LAMBDA child : child.type = "taskList"), done)))

FromBlock(n, done) ==
  LET content ==
        CASE n.type \in {"paragraph", "heading"} -> FromInlines(n.content)
          [] n.type = "codeBlock" -> n.content
          [] n.type = "expand" -> OrElse(Unwrap(Blocks(n.content, done), {"expand", "nestedExpand", "layoutSection"}), <<Paragraph>>)
          [] OTHER -> Blocks(n.content, done)
      allowed(b) == b.type \in PANEL_BLOCKS
  IN CASE n.type = "sourceBlock" -> <<n.raw>>
       [] n.type = "image" -> IF n.raw = None THEN <<>> ELSE <<AdfImage(n)>>
       [] n.type = "horizontalRule" -> <<Node("rule", Plain, <<>>)>>
       [] n.type = "taskList" -> <<AdfTaskList(n, done)>>
       [] n.type \in {"blockCard", "embedCard"} -> AdfCard(n)
       [] n.type = "layoutSection" -> IF n.content = <<>> THEN <<>> ELSE <<Layout(n, done)>>
       [] n.type = "panel" ->
            <<[n EXCEPT !.content = OrElse(SelectSeq(content, allowed), <<Paragraph>>)]>> \o SelectSeq(content, LAMBDA b : ~allowed(b))
       [] n.type = "expand" ->
            <<[n EXCEPT !.type = IF n.at.nested THEN "nestedExpand" ELSE "expand", !.at = [title |-> n.at.title, nested |-> FALSE],
                        !.content = content]>>
       [] OTHER -> <<[n EXCEPT !.content = content]>>

EditorToAdf(doc) == Converted(doc, FromBlock)
-----------------------------------------------------------------------------
(* CopyImages: of the page's attachments, what is there already stays, and *)
(* some of the rest cannot be read. The page is converted with what was    *)
(* found.                                                                  *)
ListAttachments(adf) == Images \cap {n.at.id : n \in {n \in Everything(adf) : n.type = "media"}}
CopyFromSource(files) == copies' = copies \cup files
CopyImages(adf, read) == read \subseteq ListAttachments(adf) /\ CopyFromSource(read)
Init == page \in Pages /\ copies = {} /\ body = AdfToEditor(page, {}) /\ pending = FALSE /\ edits = 0

TheyWrite(p, read) ==
  ~pending /\ page' = p /\ CopyImages(p, read) /\ body' = AdfToEditor(p, copies') /\ edits' = 0 /\ UNCHANGED pending
TheyReplace(file) == file \in copies /\ copies' = copies \ {file} /\ UNCHANGED <<page, body, pending, edits>>
Fetch(read) ==
  ~pending /\ CopyImages(page, read) /\ body' = AdfToEditor(page, copies') /\ UNCHANGED <<page, pending, edits>>
Push == pending /\ page' = EditorToAdf(body) /\ pending' = FALSE /\ UNCHANGED <<body, copies, edits>>

(* The editor: blocks are put around others, beside one another, in or out.*)
Edit(doc) == edits < MaxEdits /\ Within(doc, Depth) = <<>> /\ body' = doc /\ pending' = TRUE /\ edits' = edits + 1 /\ UNCHANGED <<page, copies>>
Replaced(i, j, blocks) == SubSeq(body, 1, i - 1) \o blocks \o SubSeq(body, j + 1, Len(body))
Columns(nodes) == Node("layoutSection", Plain, [i \in DOMAIN nodes |-> Node("layoutColumn", [width |-> 0], <<nodes[i]>>)])
Wrap(i, j) ==
  LET inner == SubSeq(body, i, j)
  IN i <= j /\ \E block \in {Node("expand", Opened(FALSE), inner), Node("panel", Panel, inner), Columns(inner)} :
       Edit(Replaced(i, j, <<block>>))
Upload(i, n) == Len(body) < MaxBlocks /\ Edit(Replaced(i, i, <<body[i], With("image", [width |-> 0, alt |-> n], None)>>))
Resize(i, w) == body[i].type = "image" /\ body[i].raw # None /\ Edit([body EXCEPT ![i].at.width = w])
Describe(i, alt) == body[i].type = "image" /\ Edit([body EXCEPT ![i].at.alt = alt])
Relink(i, u) == body[i].type \in {"blockCard", "embedCard"} /\ Edit([body EXCEPT ![i].at.url = u])
Tick(i) == body[i].type = "taskList" /\ Edit([body EXCEPT ![i].content[1].at.as = "DONE"])

Next ==
  \/ \E read \in SUBSET Images : Fetch(read) \/ \E p \in Pages : TheyWrite(p, read)
  \/ \E file \in Images : TheyReplace(file)
  \/ Push
  \/ \E i \in DOMAIN body : \E j \in DOMAIN body : Wrap(i, j)
  \/ \E i \in DOMAIN body, n \in Uploads : Upload(i, n) \/ Describe(i, n)
  \/ \E i \in DOMAIN body, w \in Widths : Resize(i, w)
  \/ \E i \in DOMAIN body, u \in Urls : Relink(i, u)
  \/ \E i \in DOMAIN body : Tick(i)
Spec == Init /\ [][Next]_vars
-----------------------------------------------------------------------------
(* "Written back exactly as it came": a page, theirs or as we pushed it,   *)
(* that is fetched and pushed again has not changed, whichever pictures we *)
(* could copy.                                                             *)
ComesBack == EditorToAdf(AdfToEditor(page, copies)) = page

(* The texts, macros and pictures in nodes, however deep.                  *)
Words(nodes) ==
  LET inside(n) ==
        IF n.type \in {"sourceBlock", "sourceInline"} \/ (n.type = "image" /\ n.raw # None) THEN <<n.raw>> ELSE OrElse(n.content, <<n>>)
      leaves == FoldLeft(LAMBDA ns, k : Each(ns, inside), nodes, [k \in 1..2 * Depth |-> k])
      of(kinds) == {n \in Range(leaves) : n.type \in kinds}
  IN {n.text : n \in of({"text"})} \cup {n.at.as : n \in of({"extension", "bodiedExtension", "mention"})} \cup {n.at.id : n \in of({"media"})}

(* However blocks are put in one another here, no text, macro or picture   *)
(* of the page is lost on the way to the source.                           *)
NothingLost == Words(EditorToAdf(body)) = Words(body)

(* What is pushed is a page Confluence takes: no expand or columns in an   *)
(* expand, in a panel only what it may hold, at most three columns, none   *)
(* of them in a column, and none empty.                                    *)
Allowed ==
  LET within == Everything(page)
      holds(kinds) == UNION {{b.type : b \in Range(n.content)} : n \in {n \in within : n.type \in kinds}}
  IN /\ holds({"expand"}) \cap {"expand", "nestedExpand", "layoutSection"} = {}
     /\ holds({"panel"}) \subseteq PANEL_BLOCKS
     /\ "layoutSection" \notin holds({"layoutColumn", "panel"})
     /\ \A n \in within : n.type \in {"expand", "panel", "layoutColumn"} => n.content # <<>>
     /\ \A n \in within : n.type = "layoutSection" => Len(n.content) \in 1..MAX_COLUMNS
=============================================================================
