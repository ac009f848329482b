----------------------------- MODULE ProjectConfig -----------------------------
(***************************************************************************)
(* The settings that imports are resolved with (project_config.py), read   *)
(* from the checkout before each run: the aliases of the root's tsconfig   *)
(* and of those below it, with what they extend, the repository's own      *)
(* packages, and the roots of Python imports. A path is its parts; what a  *)
(* file writes about another is how far it climbs and the parts after it.  *)
(* Comments and the suffix `.json` are left out; a file that is a symlink, *)
(* too large or no JSON cannot be read; targets stay inside the checkout.  *)
(***************************************************************************)
EXTENDS Integers, SequencesExt

CONSTANTS Dirs,        \* the directories, in the order os.walk yields them
          ConfigFiles, \* [dir, name] of each tsconfig there may be
          Contents(_), \* what each may say: [readable, extends, base, paths], or None
          Manifests(_), \* what a directory's package.json may say, or None
          Pyprojects,  \* the directories pyproject.toml may declare
          MAX_EXTENDS_DEPTH, MAX_WORKSPACE_PACKAGES, MAX_TS_SCOPES,
          None

VARIABLES tsconfigs,   \* of each of ConfigFiles, what it says
          manifests,   \* of each directory, its package.json
          python,      \* whether there is src/, and what pyproject.toml declares
          config       \* the ProjectConfig read last, None once something changed

vars == <<tsconfigs, manifests, python, config>>

TS_CONFIG_NAMES == <<"tsconfig", "jsconfig">>
EXPORT_CONDITIONS == <<"types", "import", "module", "default", "require", "node">>
ENTRY_FIELDS == <<"source", "types", "module", "main">>
Root == <<>>
AllDirs == ToSet(Dirs)
Put(f, k, v) == (k :> v) @@ f
-----------------------------------------------------------------------------
\* where `rel`, written in a file of `dir`, leads; nowhere outside the checkout
Within(dir, rel) ==
  IF rel.up > Len(dir) THEN None ELSE SubSeq(dir, 1, Len(dir) - rel.up) \o rel.parts
\* os.path.relpath
RelPath(from, to) ==
  LET shared == Len(LongestCommonPrefix({from, to}))
  IN [up |-> Len(from) - shared, parts |-> SubSeq(to, shared + 1, Len(to))]

Readable(c) == c \in ConfigFiles /\ tsconfigs[c] # None /\ tsconfigs[c].readable
(* _read_compiler_options: a tsconfig over what it extends; each option    *)
(* with the directory of the file that declares it.                        *)
ResolveExtends(c) ==
  LET at == Within(c.dir, tsconfigs[c].extends)
      target == [dir |-> Front(at), name |-> Last(at)]
  IN IF tsconfigs[c].extends = None \/ at = None THEN None
     ELSE IF at # <<>> /\ target \in ConfigFiles THEN target ELSE None
Declared(c, value) == [value |-> value, in |-> c.dir]
Undeclared == [base |-> None, paths |-> None]
ReadCompilerOptions(c) ==
  LET read[at \in (0..(MAX_EXTENDS_DEPTH + 1)) \X ConfigFiles] ==
        LET depth == at[1] file == at[2]
            nothing == depth > MAX_EXTENDS_DEPTH \/ ~Readable(file)
            parent == IF nothing THEN None ELSE ResolveExtends(file)
            inherited == IF parent = None THEN None ELSE read[<<depth + 1, parent>>]
            under == IF inherited = None THEN Undeclared ELSE inherited
            own == tsconfigs[file]
        IN IF nothing THEN None
           ELSE [base |-> IF own.base = None THEN under.base ELSE Declared(file, own.base),
                 paths |-> IF own.paths = None THEN under.paths ELSE Declared(file, own.paths)]
  IN read[<<0, c>>]

(* _typescript_settings: baseUrl from the root; targets of inherited paths *)
(* are rewritten to start at this tsconfig when there is no baseUrl.       *)
TypescriptSettings(c) ==
  LET options == ReadCompilerOptions(c)
      base == IF options.base = None THEN None ELSE Within(options.base.in, options.base.value)
      from == options.paths.in
      rebased(t) == IF options.base = None /\ from # c.dir
                    THEN RelPath(c.dir, SubSeq(from, 1, Len(from) - t.up) \o t.parts) ELSE t
  IN IF options = None THEN None
     ELSE [base_url |-> IF options.base = None THEN None ELSE IF base = None THEN Root ELSE base,
           paths |-> IF options.paths = None THEN {}
                     ELSE {[pattern |-> p.pattern, targets |-> [i \in DOMAIN p.targets |-> rebased(p.targets[i])]] :
                             p \in options.paths.value}]

Named(dir) == [i \in DOMAIN TS_CONFIG_NAMES |-> [dir |-> dir, name |-> TS_CONFIG_NAMES[i]]]
Existing(dir) == SelectSeq(Named(dir), LAMBDA c : c \in ConfigFiles /\ tsconfigs[c] # None)
\* at the root the first that can be read; below it, the first if it can be read
LoadTypescriptPaths ==
  LET read == SelectSeq(Existing(Root), Readable)
      settings == TypescriptSettings(read[1])
  IN IF read = <<>> THEN [base_url |-> Root, paths |-> {}]
     ELSE [settings EXCEPT !.base_url = IF @ = None THEN Root ELSE @]
ScopeIn(dir) ==
  LET found == Existing(dir)
  IN IF dir = Root \/ found = <<>> THEN None ELSE IF Readable(found[1]) THEN [dir |-> dir] @@ TypescriptSettings(found[1]) ELSE None
-----------------------------------------------------------------------------
(* _exports: what a package lets others import, and from which files. An   *)
(* entry is a file, a list of entries or a map of conditions.              *)
Rank(condition) ==
  IF condition \in ToSet(EXPORT_CONDITIONS) THEN CHOOSE i \in DOMAIN EXPORT_CONDITIONS : EXPORT_CONDITIONS[i] = condition
  ELSE Len(EXPORT_CONDITIONS) + 1
ExportTargets(value) ==
  LET keys(v) == SetToSortSeq(DOMAIN v.of, LAMBDA k, l : Rank(k) < Rank(l))
      within(v) ==
        CASE v.kind = "file" -> <<v>>
          [] v.kind = "list" -> v.items
          [] v.kind = "conditions" -> [i \in DOMAIN keys(v) |-> v.of[keys(v)[i]]]
      unfold(vs) == FlattenSeq([i \in DOMAIN vs |-> within(vs[i])])
      deepest == FoldSet(LAMBDA depth, vs : unfold(vs), <<value>>, 1..MAX_EXTENDS_DEPTH)
      files == SelectSeq(deepest, LAMBDA v : v.kind = "file")
  IN [i \in DOMAIN files |-> files[i].file]
\* a map of subpaths, or one entry for the package itself
Exports(raw) ==
  LET subpaths == IF raw = None THEN <<>> ELSE IF raw.kind = "subpaths" THEN raw.of ELSE [self \in {<<>>} |-> raw]
      some == {s \in DOMAIN subpaths : ExportTargets(subpaths[s]) # <<>>}
  IN [s \in some |-> ExportTargets(subpaths[s])]
Entry(data) == LET named == SelectSeq(ENTRY_FIELDS, LAMBDA f : f \in DOMAIN data.entry)
               IN [i \in DOMAIN named |-> data.entry[named[i]]]
WorkspacePackage(dir) == [dir |-> dir, exports |-> Exports(manifests[dir].exports), entry |-> Entry(manifests[dir])]

(* _load_workspace: one walk for both; a name belongs to the first package *)
(* that has it, and what is deepest comes first.                           *)
LoadPackages ==
  FoldLeft(LAMBDA found, dir :
             LET data == manifests[dir]
             IN IF data = None \/ Cardinality(DOMAIN found) >= MAX_WORKSPACE_PACKAGES THEN found
                ELSE IF data.name = None \/ data.name \in DOMAIN found THEN found
                ELSE Put(found, data.name, WorkspacePackage(dir)),
           <<>>, Dirs)
LoadScopes ==
  LET found == SelectSeq([i \in DOMAIN Dirs |-> ScopeIn(Dirs[i])], LAMBDA s : s # None)
      kept == SubSeq(found, 1, Min({Len(found), MAX_TS_SCOPES}))
  IN SortSeq(kept, LAMBDA s, t : Len(s.dir) > Len(t.dir))
LoadPythonRoots ==
  FoldLeft(LAMBDA roots, dir : IF dir \in ToSet(roots) THEN roots ELSE Append(roots, dir),
           IF python.src THEN <<Root, <<"src">>>> ELSE <<Root>>, python.declared)
Load == LoadTypescriptPaths @@
        [ts_scopes |-> LoadScopes, packages |-> LoadPackages, python_roots |-> LoadPythonRoots]
-----------------------------------------------------------------------------
Init ==
  /\ tsconfigs = [c \in ConfigFiles |-> None]
  /\ manifests = [d \in AllDirs |-> None]
  /\ python = [src |-> FALSE, declared |-> <<>>]
  /\ config = None

(* A commit changes a settings file; the next run reads them all.          *)
EditTsconfig(c) ==
  /\ \E text \in Contents(c) : tsconfigs' = [tsconfigs EXCEPT ![c] = text]
  /\ tsconfigs' # tsconfigs /\ config' = None
  /\ UNCHANGED <<manifests, python>>
EditManifest(d) ==
  /\ \E text \in Manifests(d) : manifests' = [manifests EXCEPT ![d] = text]
  /\ manifests' # manifests /\ config' = None
  /\ UNCHANGED <<tsconfigs, python>>
EditPython ==
  /\ \E src \in BOOLEAN, declared \in Pyprojects : python' = [src |-> src, declared |-> declared]
  /\ python' # python /\ config' = None
  /\ UNCHANGED <<tsconfigs, manifests>>
Read ==
  /\ config = None
  /\ config' = Load
  /\ UNCHANGED <<tsconfigs, manifests, python>>
-----------------------------------------------------------------------------
(* What a tsconfig means, read off the chain of what it extends: the       *)
(* nearest file that declares an option has its say, and what it writes is *)
(* relative to itself.                                                     *)
Chain(c) ==
  LET up[n \in 0..MAX_EXTENDS_DEPTH] ==
        IF n = 0 THEN IF Readable(c) THEN c ELSE None
        ELSE LET below == up[n - 1] parent == IF below = None THEN None ELSE ResolveExtends(below)
             IN IF parent # None /\ Readable(parent) THEN parent ELSE None
  IN SelectSeq([i \in 1..(MAX_EXTENDS_DEPTH + 1) |-> up[i - 1]], LAMBDA x : x # None)
Nearest(c, declares(_)) ==
  LET found == SelectSeq(Chain(c), declares) IN IF found = <<>> THEN None ELSE found[1]
BaseOf(c) ==
  LET n == Nearest(c, LAMBDA x : tsconfigs[x].base # None)
      at == Within(n.dir, tsconfigs[n].base)
  IN IF n = None THEN None ELSE IF at = None THEN Root ELSE at
\* where each pattern leads: the targets' places in the checkout
AliasesOf(c) ==
  LET n == Nearest(c, LAMBDA x : tsconfigs[x].paths # None)
      base == IF BaseOf(c) = None THEN n.dir ELSE BaseOf(c)
  IN IF n = None THEN {}
     ELSE {[pattern |-> p.pattern, leads |-> [i \in DOMAIN p.targets |-> Within(base, p.targets[i])]] : p \in tsconfigs[n].paths}

\* what the linker makes of a scope: targets from its base, else from its dir
Leads(scope) ==
  {[pattern |-> p.pattern, leads |-> [i \in DOMAIN p.targets |->
      Within(IF scope.base_url = None THEN scope.dir ELSE scope.base_url, p.targets[i])]] : p \in scope.paths}
ScopeFor(dir) ==
  LET above == SelectSeq(config.ts_scopes, LAMBDA s : IsPrefix(s.dir, dir))
  IN IF above = <<>> THEN [dir |-> Root, base_url |-> config.base_url, paths |-> config.paths] ELSE above[1]
\* the tsconfig that governs a directory: that of the nearest one that has one
Governing(dir) ==
  LET at(d) == SelectSeq(IF d = Root \/ Len(Existing(d)) < 2 THEN Existing(d) ELSE <<Existing(d)[1]>>, Readable)
      ups == [i \in 1..(Len(dir) + 1) |-> SubSeq(dir, 1, Len(dir) + 1 - i)]
      with == SelectSeq(ups, LAMBDA d : at(d) # <<>>)
  IN IF with = <<>> THEN None ELSE at(with[1])[1]

\* An alias means, to every file, what the nearest tsconfig says through the
\* files it extends, wherever in the checkout those are (project_config.py:
\* 128-143), while there are no more tsconfigs than are kept.
AliasesMean ==
  Len(config.ts_scopes) < MAX_TS_SCOPES =>
    \A dir \in AllDirs :
      LET c == Governing(dir) scope == ScopeFor(dir)
      IN IF c = None THEN scope.paths = {} /\ scope.base_url = Root
         ELSE /\ Leads(scope) = AliasesOf(c)
              /\ scope.base_url = IF BaseOf(c) = None /\ scope.dir = Root THEN Root ELSE BaseOf(c)

\* A name leads to one package of that name, an outer one before those inside
\* it, and only to files its package.json lists.
Listed(value) ==
  LET in[n \in 0..(MAX_EXTENDS_DEPTH + 1)] ==
        IF n = 0 THEN {value}
        ELSE UNION {CASE v.kind = "file" -> {v} [] v.kind = "list" -> ToSet(v.items)
                      [] v.kind \in {"conditions", "subpaths"} -> {v.of[k] : k \in DOMAIN v.of} : v \in in[n - 1]}
  IN {v.file : v \in {w \in in[MAX_EXTENDS_DEPTH + 1] : w.kind = "file"}}
PackagesMean ==
  \A name \in DOMAIN config.packages :
    LET package == config.packages[name] data == manifests[package.dir]
    IN /\ data # None /\ data.name = name
       /\ \A d \in AllDirs : IsStrictPrefix(d, package.dir) /\ manifests[d] # None => manifests[d].name # name
       /\ \A s \in DOMAIN package.exports : ToSet(package.exports[s]) \subseteq Listed(data.exports)

ConfigSound == config # None => AliasesMean /\ PackagesMean
=============================================================================
