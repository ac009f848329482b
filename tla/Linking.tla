------------------------------- MODULE Linking -------------------------------
(***************************************************************************)
(* What the names in a repository's files mean (knowledge_graph/link/):    *)
(* an import is resolved to a file or a package, a reference to a          *)
(* definition of its file, to what an import brought in, or to what a      *)
(* barrel passes on. What cannot be known from the code is counted and     *)
(* left out. A path is its parts with the extension apart; a callee, a     *)
(* qualified name and an alias's pattern are their parts. Specifiers with  *)
(* an extension and patterns with something after the `*` are left out.    *)
(***************************************************************************)
EXTENDS Integers, SequencesExt

CONSTANTS Files,     \* the files there may be, in the order of their paths
          Sources(_), \* what extraction may find in each: facts, or None for no such file
          Config,    \* ts_base, ts_paths, ts_scopes, packages, python_roots
          MAX_REEXPORT_DEPTH,
          None

VARIABLES facts,     \* facts_by_path of the commit that is read
          links      \* what link_repository made of them

DEFAULT_EXPORT == "default"
SELF_RECEIVERS == {"self", "this"}
JS_EXTENSIONS == <<"ts", "tsx", "js">>
Indexed == DOMAIN facts
Put(f, k, v) == (k :> v) @@ f
FirstOf(found) == LET some == SelectSeq(found, LAMBDA x : x # None) IN IF some = <<>> THEN None ELSE some[1]
-----------------------------------------------------------------------------
(* ModuleIndex: the file a module's path means, in the toolchain's order.  *)
FirstIndexed(paths) == FirstOf([i \in DOMAIN paths |-> IF paths[i] \in Indexed THEN paths[i] ELSE None])
File(at, ext) == [at |-> at, ext |-> ext]
ResolveJavascript(at) ==
  IF at = <<>> THEN None ELSE FirstIndexed([i \in DOMAIN JS_EXTENSIONS |-> File(at, JS_EXTENSIONS[i])]
    \o [i \in DOMAIN JS_EXTENSIONS |-> File(Append(at, "index"), JS_EXTENSIONS[i])])
ResolvePython(at) == IF at = <<>> THEN None ELSE FirstIndexed(<<File(at, "py"), File(Append(at, "__init__"), "py")>>)

Target(kind, to) == [kind |-> kind, to |-> to]
Unresolved == Target("unresolved", None)
Directory(path) == Front(path.at)
(* A relative specifier climbs from the importer's directory, never out of *)
(* the repository.                                                         *)
Relative(path, spec) ==
  LET dir == Directory(path) climb == spec.dots - 1
  IN IF climb > Len(dir) THEN None ELSE SubSeq(dir, 1, Len(dir) - climb) \o spec.parts

(* _pattern_targets: what a map of patterns makes of a specifier, the most *)
(* specific pattern first.                                                 *)
Matches(p, parts) == IF p.star THEN IsStrictPrefix(p.prefix, parts) ELSE p.prefix = parts
PatternTargets(parts, patterns) ==
  LET rest(p) == SubSeq(parts, Len(p.prefix) + 1, Len(parts))
      fit == SetToSortSeq({p \in patterns : Matches(p, parts)}, LAMBDA p, q : Len(p.prefix) > Len(q.prefix))
  IN FlattenSeq([i \in DOMAIN fit |-> [j \in DOMAIN fit[i].targets |->
       IF fit[i].star THEN fit[i].targets[j] \o rest(fit[i]) ELSE fit[i].targets[j]]])
\* the tsconfig of a file: the deepest above it, else the root's
ScopeOf(path) ==
  LET above == {s \in Config.ts_scopes : IsPrefix(s.dir, Directory(path))}
  IN IF above = {} THEN [dir |-> <<>>, base |-> Config.ts_base, paths |-> Config.ts_paths]
     ELSE CHOOSE s \in above : \A t \in above : Len(t.dir) <= Len(s.dir)
Under(dir, found) == [i \in DOMAIN found |-> ResolveJavascript(dir \o found[i])]
Workspace(package, sub) ==
  LET targets == PatternTargets(sub, package.exports)
                 \o (IF package.exports # {} THEN <<>>
                     ELSE IF sub = <<>> THEN package.entry \o <<<<"src", "index">>>>
                     ELSE <<sub, <<"src">> \o sub>>)
  IN FirstOf(Under(package.dir, targets) \o (IF sub = <<>> THEN <<ResolveJavascript(package.dir)>> ELSE <<>>))

(* resolve_import: relative, then aliases, baseUrl and the repository's own*)
(* packages; what is none of them is a package from outside.               *)
ResolveJS(path, spec) ==
  LET scope == ScopeOf(path)
      name == spec.parts[1]
      base == IF scope.base = None THEN scope.dir ELSE scope.base
  IN IF spec.dots > 0 THEN IF Relative(path, spec) = None THEN None ELSE ResolveJavascript(Relative(path, spec))
     ELSE FirstOf(Under(base, PatternTargets(spec.parts, scope.paths))
                  \o (IF scope.base = None THEN <<>> ELSE Under(scope.base, <<spec.parts>>))
                  \o (IF name \in DOMAIN Config.packages THEN <<Workspace(Config.packages[name], Tail(spec.parts))>> ELSE <<>>))
ResolvePy(path, spec) ==
  IF spec.dots > 0 THEN IF Relative(path, spec) = None THEN None ELSE ResolvePython(Relative(path, spec))
  ELSE FirstOf([i \in DOMAIN Config.python_roots |-> ResolvePython(Config.python_roots[i] \o spec.parts)])
ResolveImport(path, spec) ==
  LET found == IF path.ext = "py" THEN ResolvePy(path, spec) ELSE ResolveJS(path, spec)
  IN IF found # None THEN Target("file", found)
     ELSE IF spec.dots > 0 THEN Unresolved ELSE Target("package", spec.parts[1])
-----------------------------------------------------------------------------
(* _FileTable: what the names of one file mean. A name defined at the top  *)
(* is not shadowed by one defined inside.                                  *)
ByName(f, n) ==
  LET named == SelectSeq(f.definitions, LAMBDA d : Last(d) = n)
  IN IF <<n>> \in ToSet(named) THEN <<n>> ELSE IF named = <<>> THEN None ELSE named[1]

NoNames == [imports |-> <<>>, spaces |-> <<>>, packages |-> {}, reexports |-> <<>>, stars |-> <<>>]
PutAll(f, names, file, as) ==
  FoldLeft(LAMBDA g, i : Put(g, as[i], [file |-> file, symbol |-> names[i]]), f, [i \in DOMAIN names |-> i])
BindReexports(t, r, file) ==
  IF ~r.wildcard THEN [t EXCEPT !.reexports = PutAll(@, r.names, file, r.as)]
  ELSE IF r.alias = None THEN [t EXCEPT !.stars = Append(@, file)] ELSE t
BindFileNames(t, r, file) ==
  LET named == SelectSeq(r.names, LAMBDA n : n # DEFAULT_EXPORT)
      aliased == r.alias # None /\ (r.wildcard \/ DEFAULT_EXPORT \in ToSet(r.names))
      space == IF r.alias = None THEN r.spec.parts ELSE <<r.alias>>
      \* `import services.users`: no name can be looked up by a relative path
      bare == r.names = <<>> /\ (r.alias # None \/ r.spec.dots = 0)
      own == IF aliased /\ ~r.wildcard THEN Put(t.imports, r.alias, [file |-> file, symbol |-> DEFAULT_EXPORT]) ELSE t.imports
  IN [t EXCEPT !.spaces = IF aliased \/ bare THEN Put(@, space, file) ELSE @,
               !.imports = IF r.wildcard /\ r.alias # None THEN @ ELSE PutAll(own, named, file, named)]
BindPackageNames(t, r) ==
  LET names == {<<n>> : n \in ToSet(r.names) \ {DEFAULT_EXPORT}}
      also == IF r.alias # None THEN {<<r.alias>>} ELSE IF r.names = <<>> THEN {r.spec.parts} ELSE {}
  IN [t EXCEPT !.imports = [n \in DOMAIN @ \ ToSet(r.names) |-> @[n]],
               !.spaces = IF r.alias = None THEN @ ELSE [s \in DOMAIN @ \ {<<r.alias>>} |-> @[s]],
               !.packages = @ \cup names \cup also]
\* _bind_imports, one statement
Bind(path, t, r) ==
  LET target == ResolveImport(path, r.spec)
  IN CASE target.kind = "unresolved" -> t
       [] target.kind = "file" -> IF r.reexport THEN BindReexports(t, r, target.to) ELSE BindFileNames(t, r, target.to)
       [] target.kind = "package" -> IF r.reexport THEN t ELSE BindPackageNames(t, r)
Table(path) == FoldLeft(LAMBDA t, r : Bind(path, t, r), NoNames, facts[path].imports)
-----------------------------------------------------------------------------
(* _resolve_in_file: a name as another file exports it, through no more    *)
(* files than MAX_REEXPORT_DEPTH.                                          *)
InFile(T, name, at) ==
  LET inFile[n \in STRING, file \in Indexed, depth \in 0..MAX_REEXPORT_DEPTH] ==
        LET f == facts[file]
            t == T[file]
            own == IF n = DEFAULT_EXPORT THEN f.default ELSE n
            deep == depth = MAX_REEXPORT_DEPTH
            follow(b) == IF deep THEN None ELSE inFile[b.symbol, b.file, depth + 1]
            stars == [i \in DOMAIN t.stars |-> inFile[own, t.stars[i], depth + 1]]
        IN IF n = DEFAULT_EXPORT /\ n \in DOMAIN t.reexports THEN follow(t.reexports[n])
           ELSE IF own = None THEN None
           ELSE IF ByName(f, own) # None THEN [file |-> file, name |-> ByName(f, own)]
           ELSE IF n = DEFAULT_EXPORT /\ own \in DOMAIN t.imports THEN follow(t.imports[own])
           ELSE IF own \in DOMAIN t.reexports THEN follow(t.reexports[own])
           ELSE IF deep THEN None ELSE FirstOf(stars)
  IN inFile[name, at, 0]
-----------------------------------------------------------------------------
(* _resolve_name: one reference of a file, or None when it cannot be known *)
(* from the code.                                                          *)
ResolveSimple(T, path, n) ==
  IF ByName(facts[path], n) # None THEN [file |-> path, name |-> ByName(facts[path], n)]
  ELSE IF n \in DOMAIN T[path].imports THEN InFile(T, T[path].imports[n].symbol, T[path].imports[n].file)
  ELSE None
\* `self.helper()` is the method `helper` of the class the code is in
ResolveMember(path, member, enclosing) ==
  LET owner == IF Len(enclosing) > 1 THEN Front(enclosing) ELSE enclosing
      name == Append(owner, member)
  IN IF name \in ToSet(facts[path].definitions) THEN [file |-> path, name |-> name] ELSE None
ResolveName(T, path, ref) ==
  LET head == <<ref.callee[1]>>
      spaces == T[path].spaces
      space == FirstOf([i \in 1..2 |-> LET s == <<head, Front(ref.callee)>>[i] IN IF s \in DOMAIN spaces THEN s ELSE None])
  IN CASE Len(ref.callee) = 1 -> ResolveSimple(T, path, ref.callee[1])
       [] OTHER ->
          IF ref.callee[1] \in SELF_RECEIVERS
          THEN IF ref.enclosing = None THEN None ELSE ResolveMember(path, Last(ref.callee), ref.enclosing)
          ELSE IF space = None THEN None ELSE InFile(T, Last(ref.callee), spaces[space])
\* package_for: a destination that is known, though not one of ours
PackageFor(T, path, ref) == T[path].packages \cap {ref.callee, <<ref.callee[1]>>} # {}
-----------------------------------------------------------------------------
(* RouteMatcher: the route that serves a request's path. A parameter is    *)
(* one segment; an exact route wins.                                       *)
Fits(pattern, path) ==
  Len(pattern) = Len(path) /\ \A i \in DOMAIN path : pattern[i] \in {"*", path[i]}
Match(routes, method, path) ==
  LET same == SelectSeq(routes, LAMBDA r : r.method = method)
      exact(r) == "*" \notin ToSet(r.path) /\ r.path = path
      fitting == SelectSeq(same, LAMBDA r : "*" \in ToSet(r.path) /\ Fits(r.path, path))
  IN CASE \E r \in ToSet(same) : exact(r) -> [method |-> method, path |-> path]
       [] fitting # <<>> /\ ~\E r \in ToSet(same) : exact(r) -> [method |-> method, path |-> fitting[1].path]
       [] OTHER -> None
-----------------------------------------------------------------------------
(* link_repository: what is found of a kind is told apart by its file and  *)
(* its place there.                                                        *)
Rows(kind) == UNION {{p} \X DOMAIN facts[p][kind] : p \in Indexed}
Import(at) == facts[at[1]].imports[at[2]]
Reference(at) == facts[at[1]].references[at[2]]
RouteLinks ==
  LET of(p) == [i \in DOMAIN facts[p].routes |-> [file |-> p] @@ facts[p].routes[i]]
      inOrder == SelectSeq(Files, LAMBDA p : p \in Indexed)
  IN FlattenSeq([i \in DOMAIN inOrder |-> of(inOrder[i])])

FileImports(to) ==
  {[source |-> at[1], target |-> to[at].to, line |-> Import(at).line, names |-> ToSet(Import(at).names)] :
     at \in {x \in DOMAIN to : to[x].kind = "file" /\ to[x].to # x[1]}}
PackageUses(to) ==
  LET used == {x \in DOMAIN to : to[x].kind = "package" /\ ~Import(x).reexport}
      of(x) == {y \in used : y[1] = x[1] /\ to[y] = to[x]}
  IN {[source |-> x[1], package |-> to[x].to, names |-> UNION {ToSet(Import(y).names) : y \in of(x)}] : x \in used}
\* references that resolve to one definition become one edge
SymbolEdges(R) ==
  LET found == {[source |-> x[1], symbol |-> Reference(x).enclosing, target |-> R[x], kind |-> Reference(x).kind,
                 lines |-> Reference(x).line] : x \in {y \in DOMAIN R : R[y] # None}}
      keys == {[e EXCEPT !.lines = 0] : e \in found}
  IN {[k EXCEPT !.lines = {e.lines : e \in {f \in found : [f EXCEPT !.lines = 0] = k}}] : k \in keys}
RequestLinks(routes) ==
  LET call(x) == facts[x[1]].http_calls[x[2]]
      matched(x) == Match(routes, call(x).method, call(x).path)
  IN {[source |-> x[1], symbol |-> call(x).caller, line |-> call(x).line, key |-> matched(x)] :
        x \in {y \in Rows("http_calls") : matched(y) # None}}
Stats(to, T, R) ==
  LET imports(kind) == Cardinality({x \in DOMAIN to : to[x].kind = kind})
  IN [imports_total |-> Cardinality(DOMAIN to), imports_to_files |-> imports("file"), imports_to_packages |-> imports("package"),
      imports_unresolved |-> imports("unresolved"), references_total |-> Cardinality(DOMAIN R),
      resolved |-> Cardinality({x \in DOMAIN R : R[x] # None}),
      to_packages |-> Cardinality({x \in DOMAIN R : R[x] = None /\ PackageFor(T, x[1], Reference(x))})]
LinkRepository ==
  LET to == [x \in Rows("imports") |-> ResolveImport(x[1], Import(x).spec)]
      T == [p \in Indexed |-> Table(p)]
      R == [x \in Rows("references") |-> ResolveName(T, x[1], Reference(x))]
      routes == RouteLinks
  IN [imports |-> FileImports(to), packages |-> PackageUses(to), edges |-> SymbolEdges(R), routes |-> routes,
      requests |-> RequestLinks(routes), stats |-> Stats(to, T, R)]
=============================================================================
