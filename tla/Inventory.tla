----------------------------- MODULE Inventory -----------------------------
(***************************************************************************)
(* From the user's inventory tree to the inventory the rest of kapitan     *)
(* reads: get_inventory (kapitan/resources.py), the optional migration of  *)
(* the tree to OmegaConf's syntax, the expansion of class wildcards into a *)
(* temporary copy (kapitan/inventory/wildcards.py), the discovery of       *)
(* targets (kapitan/inventory/inventory.py), and their rendering by a pool *)
(* of processes (kapitan/inventory/backends/omegaconf).                    *)
(*                                                                         *)
(* A file is its list of class entries and the syntax its interpolations   *)
(* are in; its parameters are one key that Setters set and one list every  *)
(* file adds itself to, which is enough to tell any two merge orders apart.*)
(* A directory of classes may be a link to one elsewhere: migration leaves *)
(* it alone, and the copy for the expansion has the link, not its files.   *)
(* The backend is omegaconf, whose rendering is kapitan's own code; the     *)
(* other two hand the same tree to a library.                              *)
(***************************************************************************)
EXTENDS Naturals, Sequences, FiniteSets, SequencesExt

CONSTANTS
  TargetFiles,   \* target files, by path
  ClassOrder,    \* all class names, in lexicographic order
  Entries,       \* what a classes: list can hold besides names: patterns, junk
  Matching,      \* Matching[e]: the class names pattern e matches; {} for a reference
  References,    \* the entries that are ${references}
  ClassLists,    \* the lists the user writes
  BaseName,      \* BaseName[t]: the name of target t unless names are composed
  Setters,       \* files that set the key
  Bangs,         \* files with one of the characters "!()" in them
  ReadOnly,      \* files whose mode forbids writing
  Linked,        \* class files in a directory that is a link out of the tree
  FirstTree,     \* the user's tree before any edit
  Nothing,
  MaxRuns,       \* bound: invocations of kapitan
  MaxEdits,      \* bound: edits of the tree
  MaxKills       \* bound: kills of kapitan, and of a worker of the pool

Classes == ToSet(ClassOrder)
Files == TargetFiles \cup Classes
Patterns == Entries \ References

\* Syntaxes: \${x} is escaped, ${escape:x} escape, \\\${x} quoted.
Written == {"plain", "colon", "dot", "escaped", "escape"}
Forms == Written \cup {"quoted", "overquoted", "broken"}
Empty == [classes |-> <<>>, form |-> "plain"]   \* a file cut to no length

File == [classes : Seq(Classes \cup Entries), form : Forms]

ASSUME InventoryAssumption ==
  /\ IsFiniteSet(TargetFiles)
  /\ ClassOrder \in Seq(Classes) /\ IsInjective(ClassOrder)
  /\ \A e \in Patterns : Matching[e] \subseteq Classes
  /\ \A l \in ClassLists : l \in Seq(Classes \cup Entries)
  /\ <<>> \in ClassLists
  /\ Entries \cap Classes = {} /\ References \subseteq Entries
  /\ Setters \cup Bangs \cup ReadOnly \subseteq Files /\ Linked \subseteq Classes
  /\ DOMAIN FirstTree \subseteq Files
  /\ \A f \in DOMAIN FirstTree : FirstTree[f] \in [classes : ClassLists, form : Written]
  /\ Nothing \notin Files \cup [file : Files, new : File]
  /\ MaxRuns \in Nat /\ MaxEdits \in Nat /\ MaxKills \in Nat

VARIABLES
  tree,      \* the user's files that exist
  stage,     \* where the process is
  args,      \* its flags: enable_class_wildcards, compose_target_name
  left,      \* files still to migrate, or targets still to render
  pending,   \* the file cut for writing and what is to be written, or `Nothing`
  view,      \* the tree the backend reads: the user's, or the expanded copy
  shared,    \* shared_targets: what the pool's workers rendered
  bad,       \* targets whose rendering raised
  lost,      \* targets whose worker died with them
  targets,   \* Inventory.targets as the rest of kapitan finds them
  runs, edits, kills,
  \* History: how often a file was migrated since the user wrote it, and what he wrote.
  migrated, wrote

process == <<stage, args, left, pending, view, shared, bad, lost, targets>>
bounds == <<runs, edits, kills>>
history == <<migrated, wrote>>
inventoryVars == <<tree, process, bounds, history>>

Stages == {"off", "migrate", "load", "render", "ready", "failed"}
NoFiles == [f \in {} |-> Nothing]

InventoryTypeOK ==
  /\ DOMAIN tree \subseteq Files
  /\ \A f \in DOMAIN tree : tree[f] \in File
  /\ stage \in Stages
  /\ args \in [wildcards : BOOLEAN, compose : BOOLEAN]
  /\ left \subseteq Files
  /\ pending = Nothing \/ (pending.file \in Files /\ pending.new \in File)
  /\ DOMAIN view \subseteq Files
  /\ bad \cup lost \cup DOMAIN shared \subseteq TargetFiles
  /\ runs \in 0..MaxRuns /\ edits \in 0..MaxEdits /\ kills \in 0..MaxKills
  /\ migrated \in [Files -> Nat] /\ wrote \in [Files -> File]

Idle ==
  /\ stage' = "off" /\ left' = {} /\ pending' = Nothing /\ view' = NoFiles
  /\ shared' = NoFiles /\ bad' = {} /\ lost' = {} /\ targets' = NoFiles
  /\ UNCHANGED args

InventoryInit ==
  /\ tree = FirstTree
  /\ stage = "off" /\ left = {} /\ pending = Nothing /\ view = NoFiles
  /\ shared = NoFiles /\ bad = {} /\ lost = {} /\ targets = NoFiles
  /\ args = [wildcards |-> FALSE, compose |-> FALSE]
  /\ runs = 0 /\ edits = 0 /\ kills = 0
  /\ migrated = [f \in Files |-> 0]
  /\ wrote = [f \in Files |-> IF f \in DOMAIN FirstTree THEN FirstTree[f] ELSE Empty]

-----------------------------------------------------------------------------
(* migrate_str *)

\* Mutant of Migrated: escapes are rewritten before the delimiters are.
MigratedEscapesFirst(f, form) ==
  CASE form = "colon" -> "dot"
    [] form = "escaped" -> IF f \in Bangs THEN "quoted" ELSE "broken"
    [] form = "quoted" -> "overquoted"
    [] form = "escape" -> "broken"
    [] OTHER -> form

\* ":" becomes "." inside every ${...}, a resolver's included; an escaped one
\* becomes ${escape:...}, or in a file with "!()" gets two more backslashes.
Migrated(f, form) ==
  CASE form = "colon" -> "dot"
    [] form = "escaped" -> IF f \in Bangs THEN "quoted" ELSE "escape"
    [] form = "quoted" -> "overquoted"
    [] form = "escape" -> "broken"
    [] OTHER -> form

-----------------------------------------------------------------------------
(* Wildcards *)

Available(tr) == Classes \cap DOMAIN tr

\* An entry that names an existing class is that class, whatever it looks like.
IsWildcard(e) == e \in Patterns

HasWildcard(tr, f) == \E i \in DOMAIN tr[f].classes : IsWildcard(tr[f].classes[i])

Joined(lists) == FoldLeft(LAMBDA out, l : out \o l, <<>>, lists)

\* The classes a pattern matches, in lexicographic order.
Matches(tr, e) ==
  Joined([i \in DOMAIN ClassOrder |->
                IF ClassOrder[i] \in Matching[e] \cap DOMAIN tr THEN <<ClassOrder[i]>> ELSE <<>>])

\* Mutant of AddIfNew: an entry is added whether or not it is there already.
AddAlways(out, e) == Append(out, e)

\* _add_if_new
AddIfNew(out, e) == IF e \in ToSet(out) THEN out ELSE Append(out, e)

AddEach(entries) == FoldLeft(AddIfNew, <<>>, entries)

\* What each entry stands for, one after the other.
Replaced(tr, classes) ==
  [i \in DOMAIN classes |-> IF IsWildcard(classes[i]) THEN Matches(tr, classes[i])
                                                     ELSE <<classes[i]>>]

ExpandClassPatterns(tr, classes) == AddEach(Joined(Replaced(tr, classes)))

\* Only files with a wildcard are rewritten.
Expanded(tr) ==
  [f \in DOMAIN tr |-> IF HasWildcard(tr, f)
                       THEN [tr[f] EXCEPT !.classes = ExpandClassPatterns(tr, @)]
                       ELSE tr[f]]

\* A pattern that matches nothing is an InventoryError; the copy keeps the mode.
Refused(tr, f) ==
  /\ HasWildcard(tr, f)
  /\ \/ f \in ReadOnly
     \/ \E i \in DOMAIN tr[f].classes :
          IsWildcard(tr[f].classes[i]) /\ Matches(tr, tr[f].classes[i]) = <<>>

Refusals(tr) == {f \in DOMAIN tr : Refused(tr, f)}

-----------------------------------------------------------------------------
(* Rendering *)

TargetName(t) == IF args.compose THEN t ELSE BaseName[t]

Discovered(tr) == TargetFiles \cap DOMAIN tr

Conflict(tr) ==
  \E t, u \in Discovered(tr) : t # u /\ TargetName(t) = TargetName(u)

\* load_parameters_from_file: the files in the order their parameters are merged,
\* each class with its own classes first, as often as it is listed; `Nothing` stands
\* for a class that is not found and for Python's recursion limit.
Loads(tr, t) ==
  LET load[d \in 0..Cardinality(Files)] ==
        [f \in Files \cup Entries |->
           IF d = 0 \/ f \notin DOMAIN tr THEN <<Nothing>>
           ELSE FoldLeft(LAMBDA out, e : out \o load[d - 1][e], <<>>, tr[f].classes) \o <<f>>]
  IN load[Cardinality(Files)][t]

\* Scalars are overridden by the last file, lists keep the first occurrence.
LastSetter(s) ==
  LET at == {i \in DOMAIN s : s[i] \in Setters}
  IN IF at = {} THEN Nothing ELSE s[CHOOSE i \in at : \A j \in at : j <= i]

Merged(s) ==
  [key |-> LastSetter(s), list |-> AddEach(s)]

\* Interpolations that resolve; the others raise.
Resolves(form) == form \notin {"colon", "broken"}

Renders(tr, t) ==
  LET s == Loads(tr, t) IN
  /\ Nothing \notin ToSet(s)
  /\ \A f \in ToSet(s) : Resolves(tr[f].form)

-----------------------------------------------------------------------------
(* One invocation of kapitan *)

Start(wildcards, compose, migrate) ==
  /\ stage = "off" /\ runs < MaxRuns /\ runs' = runs + 1
  /\ args' = [wildcards |-> wildcards, compose |-> compose]
  /\ IF migrate
     THEN stage' = "migrate" /\ left' = DOMAIN tree \ Linked
     ELSE stage' = "load" /\ left' = {}
  /\ UNCHANGED <<tree, pending, view, shared, bad, lost, targets, edits, kills, history>>

\* Mutant of MigrateOpen: every file is opened for writing at once.
MigrateOpenAll(f) ==
  /\ stage = "migrate" /\ f \in left /\ pending = Nothing /\ f \notin ReadOnly
  /\ tree' = [g \in DOMAIN tree |-> IF g \in left THEN Empty ELSE tree[g]]
  /\ pending' = [file |-> f, new |-> [tree[f] EXCEPT !.form = Migrated(f, @)]]
  /\ left' = left \ {f}
  /\ UNCHANGED <<stage, args, view, shared, bad, lost, targets, bounds, history>>

\* migrate_file has read the file and opens it for writing, which cuts it.
MigrateOpen(f) ==
  /\ stage = "migrate" /\ f \in left /\ pending = Nothing /\ f \notin ReadOnly
  /\ tree' = [tree EXCEPT ![f] = Empty]
  /\ pending' = [file |-> f, new |-> [tree[f] EXCEPT !.form = Migrated(f, @)]]
  /\ left' = left \ {f}
  /\ UNCHANGED <<stage, args, view, shared, bad, lost, targets, bounds, history>>

MigrateWrite ==
  /\ stage = "migrate" /\ pending # Nothing
  /\ tree' = [tree EXCEPT ![pending.file] = pending.new]
  /\ migrated' = [migrated EXCEPT ![pending.file] = @ + 1]
  /\ pending' = Nothing
  /\ UNCHANGED <<stage, args, left, view, shared, bad, lost, targets, bounds, wrote>>

\* A file that cannot be written ends the run; the files before it stay migrated.
MigrateFails ==
  /\ stage = "migrate" /\ pending = Nothing /\ left \cap ReadOnly # {}
  /\ stage' = "failed"
  /\ UNCHANGED <<tree, args, left, pending, view, shared, bad, lost, targets, bounds, history>>

MigrateEnds ==
  /\ stage = "migrate" /\ pending = Nothing /\ left = {}
  /\ stage' = "load"
  /\ UNCHANGED <<tree, args, left, pending, view, shared, bad, lost, targets, bounds, history>>

\* materialize_expanded_inventory comes to a class file that the copy only links to:
\* it has read the user's own file, and opens it for writing.  Targets come first.
ExpandOpen(f) ==
  /\ stage = "load" /\ args.wildcards /\ pending = Nothing
  /\ f \in Linked \cap DOMAIN tree /\ HasWildcard(tree, f)
  /\ ~ Refused(tree, f) /\ Refusals(tree) \cap TargetFiles = {}
  /\ tree' = [tree EXCEPT ![f] = Empty]
  /\ pending' = [file |-> f, new |-> Expanded(tree)[f]]
  /\ UNCHANGED <<stage, args, left, view, shared, bad, lost, targets, bounds, history>>

ExpandWrite ==
  /\ stage = "load" /\ pending # Nothing
  /\ tree' = [tree EXCEPT ![pending.file] = pending.new]
  /\ pending' = Nothing
  /\ UNCHANGED <<stage, args, left, view, shared, bad, lost, targets, bounds, history>>

\* Mutant of Load: the expansion is written to the user's tree.
LoadInPlace ==
  LET tr == IF args.wildcards THEN Expanded(tree) ELSE tree IN
  /\ stage = "load" /\ pending = Nothing
  /\ IF \/ args.wildcards /\ Refusals(tree) # {}
        \/ Conflict(tr)
        \/ Discovered(tr) = {}
     THEN stage' = "failed" /\ UNCHANGED <<tree, left, view>>
     ELSE stage' = "render" /\ left' = Discovered(tr) /\ view' = tr /\ tree' = tr
  /\ UNCHANGED <<args, pending, shared, bad, lost, targets, bounds, history>>

\* Inventory.__init__ up to render_targets: the expansion ends, or is refused at some
\* file.  A pool for no target is a ValueError.
Load ==
  LET tr == IF args.wildcards THEN Expanded(tree) ELSE tree
      refused == args.wildcards /\ Refusals(tree) # {}
  IN
  /\ stage = "load" /\ pending = Nothing
  /\ args.wildcards /\ ~ refused =>
       \A f \in Linked \cap DOMAIN tree : ~ HasWildcard(tree, f)
  /\ IF refused \/ Conflict(tr) \/ Discovered(tr) = {}
     THEN stage' = "failed" /\ UNCHANGED <<left, view>>
     ELSE stage' = "render" /\ left' = Discovered(tr) /\ view' = tr
  /\ UNCHANGED <<tree, args, pending, shared, bad, lost, targets, bounds, history>>

\* inventory_worker: the rendered target is put in the shared dictionary.  (An
\* exception also ends its chunk of map_async; the inventory is lost either way.)
Render(t) ==
  /\ stage = "render" /\ t \in left
  /\ left' = left \ {t}
  /\ IF Renders(view, t)
     THEN /\ shared' = [u \in DOMAIN shared \cup {t} |->
                          IF u = t THEN Merged(Loads(view, t)) ELSE shared[u]]
          /\ UNCHANGED bad
     ELSE bad' = bad \cup {t} /\ UNCHANGED shared
  /\ UNCHANGED <<tree, stage, args, pending, view, lost, targets, bounds, history>>

\* The pool replaces a process that dies, but not the task it had.
RendererDies(t) ==
  /\ stage = "render" /\ t \in left
  /\ kills < MaxKills /\ kills' = kills + 1
  /\ left' = left \ {t} /\ lost' = lost \cup {t}
  /\ UNCHANGED <<tree, stage, args, pending, view, shared, bad, targets, runs, edits, history>>

\* Mutant of Collect: failures are only looked for, not waited out or raised.
CollectAnyway ==
  /\ stage = "render" /\ left = {} /\ lost = {}
  /\ stage' = "ready" /\ targets' = shared
  /\ UNCHANGED <<tree, args, left, pending, view, shared, bad, lost, bounds, history>>

\* Mutant of Collect: a rendering that raised is never reported to the parent.
CollectAllGood ==
  /\ stage = "render" /\ DOMAIN shared = Discovered(view)
  /\ stage' = "ready" /\ targets' = shared
  /\ UNCHANGED <<tree, args, left, pending, view, shared, bad, lost, bounds, history>>

\* r.wait() returns when every task has reported; one failure fails the inventory.
Collect ==
  /\ stage = "render" /\ left = {} /\ lost = {}
  /\ IF bad = {} THEN stage' = "ready" /\ targets' = shared
                 ELSE stage' = "failed" /\ UNCHANGED targets
  /\ UNCHANGED <<tree, args, left, pending, view, shared, bad, lost, bounds, history>>

\* The command ends and with it the process; the expanded copy is removed.
Exit ==
  /\ stage \in {"ready", "failed"}
  /\ Idle
  /\ UNCHANGED <<tree, bounds, history>>

KillProcess ==
  /\ stage # "off" /\ kills < MaxKills /\ kills' = kills + 1
  /\ Idle
  /\ UNCHANGED <<tree, runs, edits, history>>

-----------------------------------------------------------------------------
(* The user *)

WriteFile(f, classes, form) ==
  /\ stage = "off" /\ edits < MaxEdits /\ edits' = edits + 1
  /\ LET new == [classes |-> classes, form |-> form]
     IN /\ f \in DOMAIN tree => tree[f] # new
        /\ tree' = [g \in DOMAIN tree \cup {f} |-> IF g = f THEN new ELSE tree[g]]
        /\ wrote' = [wrote EXCEPT ![f] = new]
  /\ migrated' = [migrated EXCEPT ![f] = 0]
  /\ UNCHANGED <<process, runs, kills>>

DeleteFile(f) ==
  /\ stage = "off" /\ edits < MaxEdits /\ edits' = edits + 1
  /\ f \in DOMAIN tree
  /\ tree' = [g \in DOMAIN tree \ {f} |-> tree[g]]
  /\ UNCHANGED <<process, runs, kills, history>>

Proceed ==
  \/ \E f \in Files : MigrateOpen(f)
  \/ MigrateWrite \/ MigrateFails \/ MigrateEnds
  \/ \E f \in Classes : ExpandOpen(f)
  \/ ExpandWrite
  \/ Load
  \/ \E t \in TargetFiles : Render(t)
  \/ Collect
  \/ Exit

InventoryNext ==
  \/ Proceed
  \/ \E wildcards, compose, migrate \in BOOLEAN : Start(wildcards, compose, migrate)
  \/ \E t \in TargetFiles : RendererDies(t)
  \/ KillProcess
  \/ \E f \in Files : DeleteFile(f)
  \/ \E f \in Files, classes \in ClassLists, form \in Written : WriteFile(f, classes, form)

\* The operating system runs the process and its workers; nobody need kill them.
InventorySpec == InventoryInit /\ [][InventoryNext]_inventoryVars /\ WF_inventoryVars(Proceed)

-----------------------------------------------------------------------------
(* Properties *)

\* The classes a file reaches, by any number of steps.
Reached(tr, t) ==
  LET reach[n \in 0..Cardinality(Files)] ==
        IF n = 0 THEN {t}
        ELSE LET r == reach[n - 1] IN r \cup UNION {ToSet(tr[f].classes) : f \in r}
  IN reach[Cardinality(Files)]

\* An inventory is handed out whole or not at all: every target that exists, each
\* with every class it reaches, every interpolation resolved, its own value last.
ReadyIsWhole ==
  stage = "ready" =>
    /\ DOMAIN targets = Discovered(tree)
    /\ \A t \in DOMAIN targets :
         /\ ToSet(targets[t].list) = Reached(view, t)
         /\ \A f \in Reached(view, t) : Resolves(tree[f].form)
         /\ t \in Setters => targets[t].key = t

\* What a file with patterns includes: what it names and what its patterns match,
\* each once, an entry's matches no later than what a later entry first brings,
\* in lexicographic order where one pattern brings both.
Brings(tr, e) == IF IsWildcard(e) THEN Matching[e] \cap DOMAIN tr ELSE {e}

FirstBringing(tr, f, c) ==
  CHOOSE i \in DOMAIN tr[f].classes :
    /\ c \in Brings(tr, tr[f].classes[i])
    /\ \A j \in 1..(i - 1) : c \notin Brings(tr, tr[f].classes[j])

Before(tr, f, c, d) ==
  LET i == FirstBringing(tr, f, c)
      j == FirstBringing(tr, f, d)
      place(x) == CHOOSE k \in DOMAIN ClassOrder : ClassOrder[k] = x
  IN i < j \/ (i = j /\ place(c) < place(d))

PatternsMeanTheirMatches ==
  stage \in {"render", "ready"} /\ args.wildcards =>
    \A f \in DOMAIN tree : HasWildcard(tree, f) =>
      LET got == view[f].classes IN
      /\ ToSet(got) = UNION {Brings(tree, tree[f].classes[i]) : i \in DOMAIN tree[f].classes}
      /\ \A i, j \in DOMAIN got : i < j => Before(tree, f, got[i], got[j])

\* Only patterns are taken from the list: every class and reference in it stays.
Keeps(old, new) ==
  \A i \in DOMAIN old : ~ IsWildcard(old[i]) => old[i] \in ToSet(new)

\* What f holds when the write that is under way has ended.
Holds(f) == IF pending # Nothing /\ pending.file = f THEN pending.new ELSE tree[f]

\* A file of the user's changes only when it is written, and, kills apart, only while
\* it is being migrated, which leaves its list of classes as it is, or, in a linked
\* directory, while it is being expanded, which takes only patterns from the list.
ClassesAreKept ==
  [][\A f \in DOMAIN tree : f \in DOMAIN tree' /\ edits' = edits =>
       /\ tree'[f] # tree[f] => \E p \in {pending, pending'} : p # Nothing /\ p.file = f
       /\ \/ kills' # kills \/ Holds(f)' = Holds(f)
          \/ /\ stage = "migrate" /\ f \notin Linked
             /\ Holds(f)'.classes = Holds(f).classes
          \/ /\ stage = "load" /\ args.wildcards /\ f \in Linked
             /\ Holds(f)'.form = Holds(f).form
             /\ Keeps(Holds(f).classes, Holds(f)'.classes)]_inventoryVars

\* An interpolation breaks under migration only if it was migrated before, or the
\* user had written a resolver already; and a kill costs no more than one file,
\* which is left empty and would render as if it said nothing.
MigrationLossHasACause ==
  /\ \A f \in DOMAIN tree : tree[f].form \in {"broken", "overquoted"} =>
       migrated[f] >= 2 \/ wrote[f].form = "escape"
  /\ Cardinality({f \in DOMAIN tree : tree[f] = Empty /\ wrote[f] # Empty}) <=
       kills + IF pending = Nothing THEN 0 ELSE 1

\* A run that is rendering comes to an end, unless one of its workers died.
RenderingEnds ==
  (stage = "render") ~> (stage \in {"ready", "failed", "off"} \/ lost # {})
=============================================================================
