------------------------------- MODULE DocTree -------------------------------
(***************************************************************************)
(* The docs tree (documents/service.py, repository.py): folders and pages  *)
(* written here, archived, moved, restored and purged, and beside them the *)
(* mirror of a target's pages, which the docs sync (connectors/            *)
(* doc_sync.py, _tree) keeps shaped like its source.                       *)
(*                                                                         *)
(* A node holds its parent and, beside it, the path to it and the number   *)
(* of its children, which every operation has to keep in step; requests    *)
(* are whole and one at a time. Ranks, titles and contents are left out    *)
(* (DocPush has the contents).                                             *)
(***************************************************************************)
EXTENDS Naturals, FiniteSets, SequencesExt

CONSTANTS Natives,   \* nodes written here
          Pages,     \* pages of the source
          Space,     \* the folder of the target they are in
          MaxDepth,  \* MAX_DEPTH
          MaxKids,   \* bound on the children a folder is made to count
          None

VARIABLES
  node,     \* documents
  source,   \* the pages at their source
  target,   \* "none", "new" until its first full sync, "synced"
  last,     \* history: the kind of the sync that came last, if one did
  hollow,   \* history: nodes whose children were moved out
  skewed    \* history: a node was moved away from under archived ones

vars == <<node, source, target, last, hollow, skewed>>

Ids == Natives \cup Pages \cup {Space}
New(up, over) ==
  [up |-> up, parent |-> IF up = <<>> THEN None ELSE Last(up), kids |-> 0, root |-> None, top |-> FALSE, bySync |-> FALSE, over |-> over]

There(n) == node[n] # None
Live(n) == There(n) /\ node[n].root = None
Under(n) == {m \in Ids : Live(m) /\ n \in ToSet(node[m].up)}
Children(n) == {m \in Ids : Live(m) /\ node[m].parent = n}
PathTo(parent) == IF parent = None THEN <<>> ELSE Append(node[parent].up, parent)

Init ==
  /\ node = [n \in Ids |-> None]
  /\ source = [p \in Pages |-> None]
  /\ target = "none"
  /\ last = "none"
  /\ hollow = {} /\ skewed = FALSE

(* add_children, of a node that is there.                                  *)
AddChildren(nodes, n, k) == IF n = None \/ nodes[n] = None THEN nodes ELSE [nodes EXCEPT ![n].kids = @ + k]
LoseChild(nodes, n) == IF n = None \/ nodes[n] = None THEN nodes ELSE [nodes EXCEPT ![n].kids = @ - 1]
Rebase(nodes, S, length, prefix) ==
  [n \in Ids |-> IF n \in S THEN [nodes[n] EXCEPT !.up = prefix \o SubSeq(@, length + 1, Len(@))] ELSE nodes[n]]
PlaceChildren(nodes, S, parent) == [n \in Ids |-> IF n \in S THEN [nodes[n] EXCEPT !.parent = parent] ELSE nodes[n]]
ArchiveGroup(nodes, S, root, bySync) ==
  [n \in Ids |-> IF n \in S THEN [nodes[n] EXCEPT !.root = root, !.top = n = root, !.bySync = bySync] ELSE nodes[n]]

(* An id is never given twice.                                             *)
Unused(n) ==
  /\ ~There(n)
  /\ \A m \in Ids : There(m) => n \notin ToSet(node[m].up) \cup {node[m].parent, node[m].root, node[m].over}
  /\ \A p \in Pages : source[p] # None => source[p].parent # n

MayCount(n, k) == n # None => node[n].kids + k <= MaxKids
\* what follows a skewed tree is not looked at
Touched == ~skewed /\ last' = "none"
-----------------------------------------------------------------------------
Create(n, parent) ==
  /\ n \in Natives /\ Unused(n)
  /\ parent # None => parent \in Natives /\ Live(parent) /\ Len(PathTo(parent)) < MaxDepth
  /\ MayCount(parent, 1)
  /\ node' = AddChildren([node EXCEPT ![n] = New(PathTo(parent), None)], parent, 1)
  /\ Touched /\ UNCHANGED <<source, target, hollow, skewed>>

(* A page under a mirrored node is created at its source first.            *)
CreateAtSource(p, parent) ==
  LET over == IF parent = Space THEN None ELSE parent IN
  /\ source[p] = None /\ Unused(p) /\ parent \in Pages \cup {Space} /\ Live(parent)
  /\ parent \in Pages => source[parent] # None /\ source[parent].current
  /\ source' = [source EXCEPT ![p] = [parent |-> over, current |-> TRUE, changed |-> TRUE]]
  /\ node' = AddChildren([node EXCEPT ![p] = New(PathTo(parent), over)], parent, 1)
  /\ Touched /\ UNCHANGED <<target, hollow, skewed>>

(* archive, with what is inside; pages of a source are archived there too. *)
Archive(n) ==
  LET group == {n} \cup Under(n) IN
  /\ n # Space /\ Live(n)
  /\ \A p \in Pages \cap group : source[p] # None
  /\ source' = [p \in Pages |-> IF p \in group THEN [source[p] EXCEPT !.current = FALSE] ELSE source[p]]
  /\ node' = LoseChild(ArchiveGroup(node, group, n, FALSE), node[n].parent)
  /\ Touched /\ UNCHANGED <<target, hollow, skewed>>

Deepest(n) == LET depths == {Len(node[m].up) : m \in Under(n)} IN IF depths = {} THEN 0 ELSE CHOOSE d \in depths : \A e \in depths : d >= e
MayTake(n, to) == to # n /\ (to # None => to \in Natives /\ Live(to) /\ n \notin ToSet(node[to].up))
Fits(n, to) == Deepest(n) + Len(PathTo(to)) < MaxDepth + Len(node[n].up) + 1
ArchivedBelow(n) == \E m \in Ids : There(m) /\ node[m].root \notin {None, n} /\ n \in ToSet(node[m].up)

\* Slip: what is moved out keeps the path it had.
MoveOutAlone(n, to) ==
  IF node[n].kids = 0 THEN node
  ELSE AddChildren(PlaceChildren(node, Children(n), to), to, Cardinality(Children(n)))

(* _move_children_out: everything under the node is rebased, its children  *)
(* placed.                                                                 *)
MoveOut(n, to) ==
  IF node[n].kids = 0 THEN node
  ELSE AddChildren(PlaceChildren(Rebase(node, Under(n), Len(node[n].up) + 1, PathTo(to)), Children(n), to), to, Cardinality(Children(n)))

(* archive, after moving what is inside elsewhere.                         *)
ArchiveAlone(n, to) ==
  /\ n \in Natives /\ Live(n)
  /\ node[n].kids > 0 => MayTake(n, to) /\ Fits(n, to) /\ MayCount(to, Cardinality(Children(n)))
  /\ node' = LoseChild(ArchiveGroup(MoveOut(n, to), {n}, n, FALSE), node[n].parent)
  /\ hollow' = IF node[n].kids > 0 THEN hollow \cup {n} ELSE hollow
  /\ skewed' = (skewed \/ ArchivedBelow(n))
  /\ Touched /\ UNCHANGED <<source, target>>

Group(n) == {m \in Ids : There(m) /\ node[m].root = n}

(* restore: where it was, or at the top when its folder is not there.      *)
Restore(n) ==
  LET parent == node[n].parent
      homeless == parent # None /\ ~Live(parent)
      placed == IF homeless THEN PlaceChildren(Rebase(node, Group(n), Len(node[n].up), <<>>), {n}, None) ELSE node
      back == [m \in Ids |-> IF m \in Group(n) THEN [placed[m] EXCEPT !.root = None, !.top = FALSE] ELSE placed[m]] IN
  /\ n \in Natives /\ There(n) /\ node[n].top
  /\ ~homeless => MayCount(parent, 1)
  /\ node' = AddChildren(back, IF homeless THEN None ELSE parent, 1)
  /\ skewed' = (skewed \/ (homeless /\ ArchivedBelow(n)))
  /\ Touched /\ UNCHANGED <<source, target, hollow>>

(* delete_archived: pages archived here are deleted at their source.       *)
DeleteArchived(n) ==
  LET group == Group(n) IN
  /\ There(n) /\ node[n].top
  /\ source' = [p \in Pages |-> IF p \in group /\ ~node[p].bySync THEN None ELSE source[p]]
  /\ node' = [m \in Ids |-> IF m \in group THEN None ELSE node[m]]
  /\ hollow' = hollow \ group
  /\ Touched /\ UNCHANGED <<target, skewed>>

(* purge_expired: what was archived long ago goes, here only.              *)
PurgeExpired(n) ==
  /\ There(n) /\ node[n].top
  /\ node' = [m \in Ids |-> IF m \in Group(n) THEN None ELSE node[m]]
  /\ hollow' = hollow \ Group(n)
  /\ Touched /\ UNCHANGED <<source, target, skewed>>

-----------------------------------------------------------------------------
(* The source, where a current page is below current ones, and the target  *)
(* here.                                                                   *)

Above(p) ==
  LET above[d \in 0..Cardinality(Pages)] ==
        [q \in Pages |-> IF d = 0 \/ source[q] = None \/ source[q].parent = None THEN {}
                         ELSE {source[q].parent} \cup above[d - 1][source[q].parent]]
  IN above[Cardinality(Pages)][p]

SourceWrites(p, parent) ==
  /\ source[p] = None => Unused(p)
  /\ parent # None => parent # p /\ source[parent] # None /\ source[parent].current /\ p \notin Above(parent)
  /\ source' = [source EXCEPT ![p] = [parent |-> parent, current |-> TRUE, changed |-> TRUE]]
  /\ Touched /\ UNCHANGED <<node, target, hollow, skewed>>

SourceArchives(p) ==
  /\ source[p] # None /\ source[p].current
  /\ \A q \in Pages : source[q] # None /\ source[q].parent = p => ~source[q].current
  /\ source' = [source EXCEPT ![p].current = FALSE]
  /\ Touched /\ UNCHANGED <<node, target, hollow, skewed>>

AddTarget ==
  /\ target = "none" /\ target' = "new"
  /\ Touched /\ UNCHANGED <<node, source, hollow, skewed>>

(* archive_target: its mirror is one group.                                *)
RemoveTarget ==
  /\ target # "none" /\ target' = "none"
  /\ node' = IF ~There(Space) THEN node
             ELSE ArchiveGroup(node, {p \in Pages \cup {Space} : Live(p)}, Space, TRUE)
  /\ Touched /\ UNCHANGED <<source, hollow, skewed>>

-----------------------------------------------------------------------------
(* _sync and _tree: a full run lists every page that is there, another the *)
(* current ones that changed.                                              *)

Listed(full) == {p \in Pages : source[p] # None /\ (full \/ (source[p].current /\ source[p].changed))}
ArchivedHere(p) == There(p) /\ node[p].root # None /\ ~node[p].bySync
Stays(p, full) ==
  IF ArchivedHere(p) THEN FALSE
  ELSE IF p \in Listed(full) THEN source[p].current
  ELSE Live(p) /\ ~full
ParentOf(p, full) == IF p \in Listed(full) THEN source[p].parent ELSE node[p].over
Staying(full) == {p \in Pages : Stays(p, full)}

(* The path to each node that stays: a parent that does not puts it at the *)
(* target's top.                                                           *)
AncestorsOf(full) ==
  LET paths[d \in 0..Cardinality(Pages)] ==
        [p \in Staying(full) |->
           LET q == ParentOf(p, full)
           IN IF d > 0 /\ q \in Staying(full) THEN Append(paths[d - 1][q], q) ELSE <<Space>>]
  IN paths[Cardinality(Pages)]

GoneNow(full) ==
  {p \in Pages : There(p) /\ p \notin Staying(full)
                 /\ (node[p].root = None \/ (node[p].bySync /\ node[p].root = Space))}

(* The external ancestors of a page, nearest first.                        *)
ExternalChain(p, full) ==
  LET next(c) == IF Last(c) \in Listed(full) \/ There(Last(c)) THEN ParentOf(Last(c), full) ELSE None
      climb(c) == IF next(c) = None THEN c ELSE Append(c, next(c))
  IN Tail(FoldSet(LAMBDA step, c : climb(c), <<p>>, 1..Cardinality(Pages)))

(* Archived as groups: a gone page's gone children go with it.             *)
GroupOf(p, full) ==
  LET gone == SelectSeq(ExternalChain(p, full), LAMBDA q : q \in GoneNow(full))
  IN IF gone = <<>> THEN p ELSE Last(gone)

Tree(full) ==
  LET up == AncestorsOf(full)
      count(n) == Cardinality({p \in Staying(full) : Last(up[p]) = n})
      shaped(p) == [New(up[p], ParentOf(p, full)) EXCEPT !.kids = count(p)] IN
  [n \in Ids |->
     IF n = Space THEN [New(<<>>, None) EXCEPT !.kids = count(Space)]
     ELSE IF n \in Natives THEN node[n]
     ELSE IF n \in Staying(full) THEN shaped(n)
     ELSE IF n \in GoneNow(full) THEN [node[n] EXCEPT !.root = GroupOf(n, full), !.top = GroupOf(n, full) = n, !.bySync = TRUE]
     ELSE node[n]]

Sync(full) ==
  /\ target # "none"
  /\ ~full => target = "synced" /\ There(Space)
  /\ node' = Tree(full)
  /\ source' = [p \in Pages |-> IF source[p] = None THEN None ELSE [source[p] EXCEPT !.changed = FALSE]]
  /\ target' = "synced"
  /\ last' = IF full THEN "full" ELSE "changes"
  /\ UNCHANGED <<hollow, skewed>>

Next ==
  \/ \E n \in Ids : Archive(n) \/ Restore(n) \/ DeleteArchived(n) \/ PurgeExpired(n)
  \/ \E n \in Natives, parent \in Natives \cup {None} : Create(n, parent) \/ ArchiveAlone(n, parent)
  \/ \E p \in Pages, parent \in Pages \cup {Space} : CreateAtSource(p, parent)
  \/ \E p \in Pages : SourceArchives(p) \/ \E parent \in Pages \cup {None} : SourceWrites(p, parent)
  \/ AddTarget \/ RemoveTarget
  \/ \E full \in BOOLEAN : Sync(full)

Spec == Init /\ [][Next]_vars
-----------------------------------------------------------------------------
TypeOK ==
  \A n \in Ids : There(n) => node[n].parent \in Ids \cup {None} /\ node[n].kids \in Nat /\ node[n].root \in Ids \cup {None}

(* "never anything stranded inside an archived node" (service.py:263):     *)
(* what is there to be seen is in a folder that is there to be seen, but   *)
(* for what TreeSound excuses.                                             *)
NothingStranded == ~skewed => \A n \in Ids : Live(n) /\ node[n].parent # None => Live(node[n].parent)

(* The path of a node is that of its parent, and nests MAX_DEPTH deep at   *)
(* most here; a folder counts the children it has. Nodes left archived     *)
(* under a folder that has moved keep the path they had (skewed), and a    *)
(* folder whose children were moved out still counts them (hollow).        *)
TreeSound ==
  ~skewed => \A n \in Ids : Live(n) =>
    /\ node[n].up = PathTo(node[n].parent)
    /\ n \in Natives => Len(node[n].up) < MaxDepth
    /\ n \notin hollow => node[n].kids = Cardinality(Children(n))

(* What was archived here can be found in the archive, whole: its group    *)
(* has a root that is listed there.                                        *)
ArchiveListed == \A n \in Ids : There(n) /\ node[n].root # None /\ ~node[n].bySync => There(node[n].root) /\ node[node[n].root].top

(* Once a sync has run, every page that is mirrored and current at its     *)
(* source is below its parent there, unless it was archived here; after a  *)
(* full one every current page is mirrored, and nothing else.              *)
MirrorFollows ==
  last # "none" => \A p \in Pages :
    /\ source[p] # None /\ source[p].current /\ ~ArchivedHere(p) /\ (There(p) \/ last = "full") =>
         Live(p) /\ node[p].parent = IF source[p].parent # None /\ Live(source[p].parent) THEN source[p].parent ELSE Space
    /\ last = "full" /\ Live(p) => source[p] # None /\ source[p].current

TreeSafe == TypeOK /\ NothingStranded /\ TreeSound /\ ArchiveListed /\ MirrorFollows
=============================================================================
