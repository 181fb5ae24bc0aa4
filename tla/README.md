# A TLA+ model of kapitan

Kapitan compiles an inventory of targets into files. The specifications here
cover the parts of it in which order, concurrency and failure decide what ends
up on disk: the compile run and its worker pool, the compile cache, dependency
fetching, the rendering of the inventory, the inputs of a target, what a worker
carries from one component to the next, and references. Paths below are relative to
`src/`. The models were written from the code; where docs, comments and
tests say something else, a run that finds the violation is listed as such.

Everything runs with `tlc -config MCx.cfg MCx.tla` and `tlapm x_proofs.tla`.
PROJECT.json lists the runs, which definition models which lines, the mutants
that show that each property can fail, the hazards, and the theorems.

## The system

| Component | State | Operations | Hard behaviour |
|---|---|---|---|
| compile run (`kapitan/targets.py`) | selected targets, pool of `--parallelism` processes, temporary directory, `<output-path>/compiled` | select targets, fetch, compile in the pool, replace output | a target fails or a worker is killed while others have finished; replacement is not atomic; target directories can nest |
| compile cache (`kapitan/inputs/cache.py`, used by `inputs/kadet.py`) | `<cache>/<hash>` and `<hash>.lock` files, shared counters | `get`, `set` | readers and writers of different processes, kills between dump and rename |
| dependency fetching (`kapitan/dependency_manager/base.py`, `utils.py`) | grouped dependencies, clones in a temporary directory, files at output paths | group, download or clone, check out, save | rewriting of paths in place, flags that combine, tasks that share directories |
| compile inputs (`kapitan/inputs/base.py` and the input types) | search paths, output of this and of earlier runs, the directories a worker has made | expand input paths, render, write, copy, remove | a path that exists in two roots; a file truncated before its references compile; a memo that outlives what it is about |
| reference compilation (`kapitan/refs/base.py`, `refs/functions.py`) | ref files under `--refs-path`, passes over an object | find, generate, derive, store, tokenise | dependencies between refs in any order; workers that share refs; a kill while writing |
| refs command (`kapitan/refs/cmd_parser.py`) | the same ref files | `--write`, `--update`, `--update-targets`, `--validate-targets`, `--reveal` | an error or a kill after some refs have been re-encrypted; the secret is held in memory while its file is truncated; a client that is kept for another key |
| reference backends (`kapitan/refs/base64.py`, `env.py`, `vault_resources.py`, `refs/secrets/*`) | key services | encrypt, decrypt, update_key | read-modify-write of a vault path; two stores written one after the other; a cache of revealed values |
| inventory (`kapitan/inventory/*`, `resources.py`, `cached.py`) | the user's tree, a copy of it, rendered targets, a pool of processes | migrate, expand wildcards, discover, render | the tree is rewritten in place; a worker fails or dies; order decides whose value wins |
| topics (`kapitan/topics.py`) | what targets give and consume | view, declare, digest | part of the cache key; parameters of other targets |
| templating inputs (`kapitan/inputs/kadet.py`, `helm.py` and others) | globals of the worker process: inventory box, digests, hashes, helm flags | hash, evaluate, render charts | what one component leaves behind changes the next |
| output formats, command line, linting | none to speak of | pure functions and calls of tools | not state machines |

How they interact. `compile_targets` is the parent process. It renders the
inventory, fetches dependencies (in thread pools of its own), then maps
`compile_target` over the targets in a process pool. A worker runs the compile
configs of its target in order. A kadet config consults the cache; every config
that writes output runs the reference compiler over it, which reads and
writes ref files; `copy` and `remove` configs read and change files that other
configs have compiled. The workers share no memory except the cache's counters;
they meet on disk: in the cache directory, among the ref files, in the
temporary directory. Only the parent replaces the output.

What makes each part correct, in a sentence:

- *compile run*: output is replaced only when all of the selection has compiled;
  a run over a selection touches and loses nothing else; what is published is complete.
  The exception is what remove configs name, which is gone as soon as they have run.
- *compile cache*: an entry is a whole output, the first stored for its key, and
  nothing a dead worker leaves can hang or corrupt a later run.
- *fetching*: every dependency lands at its path, at its revision, and what the code
  lets go instead is of two known kinds; the user's files survive unless the run forces.
- *inputs*: what a target publishes is what its compile list says, whatever
  earlier runs left.
- *references*: compiled output can be revealed; a ref is generated once; derived
  refs match what they were derived from; order of keys does not matter.
- *refs command*: a command that fails leaves every ref with its secret, under
  the old keys or the new; what a file says of its keys is true; so is the exit code.
- *vault references*: a tag reveals the secret generated for it; a secret is lost
  only by what nobody promised to prevent.
- *inventory*: it is handed out whole or not at all; patterns mean the classes
  they match; the user's tree is not changed but by migration, and by expansion in
  directories that are links, and no list of classes loses a class.
- *topics and templating inputs*: what a cache key covers is never out of date;
  no topic is seen undeclared; whatever else one component does to the next has a
  known cause.

## The modules

| Module | Models | Proofs |
|---|---|---|
| `CacheSpec` | what the cache promises: a write-once map | |
| `InputCache`, `MCInputCache` | cache files, `get` and `set`, the kadet input around them | `InputCache_proofs` |
| `CompileRun`, `MCCompileRun` | one `kapitan compile` | `CompileRun_proofs` |
| `Fetch`, `MCFetch` | flags, grouping and the fetch pools | `Fetch_proofs` |
| `HelmCharts`, `MCHelmCharts` | the helm tasks inside one of these pools | `Fetch_proofs` |
| `Inventory`, `MCInventory` | from the user's tree to the rendered inventory | `CompileRun_proofs` |
| `TargetInputs`, `MCTargetInputs` | the compile list of a target over several runs | `TargetInputs_proofs` |
| `KadetWorker`, `MCKadetWorker` | the state a worker keeps, cache keys, topics | `KadetWorker_proofs` |
| `RefCompile`, `MCRefCompile` | compiling references, over several runs | `RefCompile_proofs` |
| `RefUpdate`, `MCRefUpdate` | the commands of `kapitan refs` that write references | `RefUpdate_proofs` |
| `VaultRefs`, `MCVaultRefs` | vaultkv references, made by workers and revealed | `VaultRefs_proofs` |

`HelmCharts` and `Inventory` share no name with `Fetch` and `CompileRun`, so that one module
can prove theorems about both: hence `HelmSpec` or `InventorySpec` for `Spec` there.

`CompileRun` takes the compilation of a config as one step that succeeds or
fails; `InputCache`, `TargetInputs`, `KadetWorker`, `RefCompile` and `VaultRefs`
each open that step up for one kind of state it shares with others. `CompileRun` likewise takes fetching as
one step, which `Fetch` opens up, and `HelmCharts` a task of `Fetch`; and it
starts from the inventory that `Inventory` ends with. `KadetWorker` takes the
cache to be what `CacheSpec` says it is: a map from keys to the first output stored.
`InputCache` implements `CacheSpec` by a refinement mapping (`Abstract`, checked
by TLC and proved).

### InputCache

An entry is two names, `<hash>` and `<hash>.lock`, that point to inodes. An
inode's content is two halves, so that a dump that was cut short can be told
from a whole pickle; a reader that holds an inode open keeps it across a rename.
`GetLock`, `GetOpen`, `GetLoad` are the steps of `get` between which others run;
`SetCheck`, `SetLock`, `SetOpen`, `WriteHead`, `WriteTail`, `Rename` those of
`set`. `DumpFails` is an object that does not pickle, `Continue` a config with
`continue_on_compile_error`, `Restart` a killed or finished run that is started
again. A target is compiled by one worker of a run and its name is part of the
key, so within a run a key has one `owner`. The theorems assume, and the run
has, one run at a time on a cache directory (`SingleRun`). With two, both can
pass the check for an existing entry and the second rename replaces the entry
of the first; `set`'s comment "dont write if already exists" holds for one run
only. The key itself is a constant here; what goes into it is in `KadetWorker`. It holds `vars.target`, so two inventory targets with the same
`vars.target` would share keys, and the owner discipline would not hold.

### CompileRun

`Select` is selection by `-t`, `-l` or neither, `Take` to `Return` the pool's
work on a target, `WorkerDies` a killed worker, whose task
`multiprocessing.Pool` never reports (`Lost`), `PoolFails` the error of a target,
`Clear`, `CopyInto`, `RemoveOne`, `CopyOne`, `Finish` the steps of replacing the
output, `PublishFails` an OSError in any of them, `Kill` the end of the parent
anywhere. A target's directory is a member of `Dirs`; `Inside` says which
directories lie inside which, since the dots of a target's name become directory
separators. Names given to `-t` that are not in the inventory are ignored, as
in the code. What is published is seen per directory: none, an earlier
run's (`old`, or `cut` once a remove config took something out of it), part of
this run's (a tolerated config failed), whole.

A remove config looks for its input paths in the search paths of the run, the
project's directory and the temporary one among them
(`kapitan/inputs/base.py:122-125`). What it finds below `compiled/` it removes at
once, published or just compiled, whichever target's it is. `Removing` says which
configs name something in which directories, `Leaves` what such a config leaves of
them, as any part of it may have been there and any removal may fail, which is only logged.
A target's output after a removal still counts as whole: the list asked for the removal.

The path a target is published under is the one of its name
(`target_full_path`); a target is assumed to compile under the same one, with
an `output_path` that stays inside.

### Fetch and HelmCharts

`Plan` computes what the flags and `force_fetch` select. `Visit` and
`Collect` are the loops that rewrite `output_path` in place and group
dependencies; `Download`, `Save`, `SaveFails`, `TaskEnds` a task of a pool, one
pool per kind, in the order of `After`. A place is a path and the number of
times it was joined with `--output-path`; for `.` and absolute paths joining
again changes nothing, for others (the flag `output_path`) it leads elsewhere.

A path stands for one file: the tree copies treat each file alike. Its directory may be
there without it (`Empty`): an interrupted run left it so, or a download of a type
that cannot be unpacked was ignored (`Ignored`), or a file in it could not be written.
A chart is not fetched for a directory that is there. `Wanted` is the revision a
dependency is copied at. A clone has checked out what the remote's HEAD names: a
branch, which is what dependencies without a ref get, or none (`Detached`), in which
case they get whatever the dependency before them asked for.

`safe_copy_tree` leaves out files whose name starts with a dot;
the model has none. `HelmCharts` has the steps of concurrent tasks for charts of
one repository, in the directory of the run they share: helm unpacks into
`<dir>/<chart>`, the task renames to `<chart>-<version>`, then copies. The look
helm takes at the directory and the unpacking are one step, and so is its refusal:
what two helm processes do to each other within that step is helm's own.

### TargetInputs

A compiled path can exist in two roots: the project's directory, with what
earlier runs published (`live`), and the run's temporary directory (`temp`).
What a file holds is the number of the run that generated it, and whether it was
written to its end. `Expand` ensures the output directory, unless the worker
remembers making it (`ensured`, the code's `_ENSURED_DIRS`), and looks the input
path up in the search paths. `Render` to `RenderFails` are the input types that
write: those that use `CompiledFile` make the file's directory and truncate the
file before its references are compiled, kustomize and cuelang open files of a
directory that has to be there, and an external command may fail to start, which is
only logged. `CompileFile` is the compilation by copy or remove of one path that was
found (the order among them is that of a set, so left open), `Raise` the
handling of an error by `continue_on_compile_error`. A file that cannot be copied
(`CopyFails`) may have truncated its destination. `Publish` replaces the
target's directory, `PublishNothing` is the run over a selection whose target has
removed its own directory, `Drop` a run that ends otherwise. A worker compiles
other targets between two runs of this model's target, which share no directory
with it; each run has workers of its own.

### KadetWorker

A worker of the pool compiles targets one after the other and is never reset
between them. What it keeps are variables: the kadet inventory (`box`, strict or
lazy, `kapitan/inputs/kadet.py:38-42`), the digests of inventories (`digest`), the hash
of every path it has read (`hashed`), and `HELM_DEFAULT_FLAGS` (`flags`), into which
`render_chart` writes a chart's own flags when it is called from kadet. `Program`
says of each component what it reads and asks for. `Lookup` is `compile_file`
with `--cache` up to the answer of the cache, `Evaluate` and `EvaluateFails` the
evaluation on a miss or without a cache; a component that raises may have rendered
a chart by then, whose flags stay. A key (`InputsHash`) is what is hashed, so
two keys are equal just when the hashed data is; collisions of the digest are left
out. Between runs the user edits the inventory; a component's files also during a run, as they are
read during the run (`raced` records these). An output records what it was made of.

### Inventory

One invocation is `Start`, the migration of the tree file by file (`MigrateOpen`
truncates, `MigrateWrite` writes), `Load` (wildcards are expanded in a copy,
targets discovered, names checked for conflicts), `Render` for each target in a
pool, `Collect`, and `Exit`. A file is its list of classes and the syntax of its
interpolations; its parameters are one key that some files set and a list to
which every file adds itself, which tells any two merge orders apart. `Loads` is
the depth-first order in which the omegaconf backend merges classes, down to as many levels
as there are files: what goes deeper goes in a circle, over which Python's recursion limit
raises. `ExpandClassPatterns` joins what each entry stands for (`Replaced`) and keeps the first
of each (`AddEach`). The classes are given in the order of their names (`ClassOrder`), each once,
which is what sorting them gives, and a pattern matches some of them. A worker may
die, whose task is then never reported; kapitan may be killed anywhere; between runs
the user writes and deletes files.

A directory of classes may be a link to one elsewhere (`Linked`). Migration does not
follow it. Expansion does when it looks for patterns, but its copy of the tree keeps
the link (`kapitan/inventory/wildcards.py:354`), so the file it opens for writing is the user's own:
`ExpandOpen` truncates it, `ExpandWrite` writes it without its patterns. A pattern that matches
nothing ends the expansion (`Refused`); the files before it stay rewritten. Targets are
expanded before classes.
 With reclass and reclass-rs the
same tree goes to a library.

### VaultRefs

A vault keeps all keys of a path as one secret, read and written whole. `StartRun`
to `EndRun` are a compile run whose workers make the refs of their tags: `Found`,
`Generate`, `ReadVault`, `WriteVault`, then `OpenRef` and `DumpRef` of the ref
file. Reads use the API of the configured engine, writes that of kv-v2; writes
go to the tag's mount, reveals to that of the parameters in the file. `StartReveal` to
`EndReveal` is `kapitan refs --reveal` with its `lru_cache` of revealed
values (`shown`). Faults are kills, refusals and lost answers; the vault's
administrator deletes a version or a path; the user edits tags and parameters and removes ref
files. A generated secret is the path and key it was made for and a number. History
variables say where a secret was put (`home`), which paths two writers
raced for (`raced`) and which were changed by the administrator (`changed`).

### RefCompile

An object is a dictionary whose values hold tags. `NextKey` picks the next value
of a pass, `Get` to `GetAgain` are the lookup of a ref and, when there is none
and the tag has a function, making and storing it, in the code's steps: the
lookup, the function, truncation, writing, the second lookup. `PassEnds` is the
end of a pass with the code's bound on passes and the final pass over the keys
that are left. A kill leaves a file that is truncated or half written
(`Broken`). A ref's content is a sequence that records which call generated it
and how often it was derived. Left out: raw text output, which compiles its tags like the tags of
one list, in one pass; nested dictionaries, which are compiled as objects of
their own and whose errors propagate; a collision of the eight hexadecimal
digits of the hash; a user who edits ref files during a run.
A value without tags is compiled when the loop comes to it. Values that are
lists are not retried: a list in which a revealing tag comes before the tag it
depends on fails its target. So may a string of several tags:
a pass that makes a ref but completes no key does not count as progress
(`kapitan/refs/base.py:514-519`), and the final pass, in which errors propagate,
may come too early. The instance of `refs` has lists and strings of several tags
that compile.

### RefUpdate

A reference file is the value of its secret, the set of keys its data is
encrypted to (`lock`) and the keys the file names (`declared`), or it is `Torn`
(truncated) or `Absent`. The lock of a gpg file is its recipients, that of a file
of a key service one key; types without keys have none. `Write`, `Update` and
`Targeted` begin a command: they read the inventory (`inv`) and, for
one reference, decide up to where the work begins. `Scan` is
`search_target_token_paths`; `Refuse`, `Pass` and `Take` are the three ways a
reference can go in the loop of `secret_update_validate`; `Reveal` and `Encrypt`
are `update_recipients` and `update_key` of the backends, `Open` and `Flush` the
truncation and writing of the file. The writing may fail (`FlushFails`): the file is
opened before the reference is dumped, which raises on data that `--binary` read
and that is not UTF-8 (`plain` and `env`, `kapitan/refs/base.py:146`), and a disk may be full.
`stops` counts the commands that ended there or were killed. `client` is the process-wide azkms client.
An error that no code catches ends the command (`Abort`).

One command runs at a time. Between its steps the environment may replace or
remove a file, edit the inventory, let a key expire, or kill the command; a
service may fail (`Fault`). Somebody else's write is one step, and does not fall
between the opening and the closing of the same file: how the bytes of two
writers would mix is not modelled. The order of references in a command is left
open, which takes in that of `os.walk`. The encoding of the data (`original` or
`base64`) is part of the value, as re-encryption respects it. `--reveal` reads only.

## The runs

| Run | Bounds | Shows |
|---|---|---|
| `cache` | 2 workers, 2 keys, 2 outputs, 3 inodes, 2 lookups counted, 1 restart | entries are whole, readers and writers do not interfere, orphaned locks stay and hang nobody, the files implement the write-once map `CacheSpec` |
| `compile` | 3 targets with 2, 2 and 0 configs, one of which removes from another target and from a fourth directory, of a target that is gone, 2 workers, 1 death | all or nothing, confined loss, completeness, selection, termination |
| `fetch` | 2 targets, 7 dependencies on 4 sources, one of them a detached clone and one a download that is ignored, 3 paths, joined up to twice | right revision, stored at the place or let go for a known reason, overwriting only when forced |
| `helm` | 3 tasks, 2 versions of a chart, forced | each saves its version |
| `inputs` | 3 files in 3 directories, all lists of 1 or 2 of 10 configs, lists of 3 of 6, 4 more with a file that cannot be removed, 3 runs | publication follows the list; only `copy` brings back stale files; truncated files are published only where that is tolerated; a missing directory was removed by a config |
| `kadet` | 2 targets with 2 components each, 2 topics, 2 workers, 2 runs, 2 edits | what a key covers is current, topics are declared, leaks of helm flags and of lazy boxes have a cause |
| `inventory` | 2 targets of one base name, 2 classes, one of them linked, a pattern that matches both and one that matches the other, 6 lists, 2 runs, 1 edit, 1 kill | whole or nothing, patterns mean their matches, the user's tree is changed by migration, and by expansion in the linked directory, and loses no class and no more than they account for, rendering ends |
| `refs` | 2 targets, 4 paths, chains of 3, circles, lists, a value without tags, 2 runs | refs match tokens, derivations match, order is immaterial, termination |
| `refs_update` | a gpg and an awskms ref of one target, 2 keys, 4 settings, 2 commands, 2 events of the environment | honest exit codes, kept or re-encrypted, one torn file per stopped command, locks as declared |
| `vault` | 2 targets that share a path of the vault and a ref, 2 mounts, 2 engines, 3 secrets, 2 runs, 1 fault, 1 edit | tags reveal their own, one value per tag, every loss has a cause, what exists is not made again |
| `refs_azure` (violated) | 1 azkms ref, 1 command, no events | `--update` keeps the old key under the new name |
| `vault_mount` (violated) | 1 target whose tag names another mount than the inventory | the ref file points where the secret is not |

Why these bounds are enough to be of use. Cache: every conflict is between two
workers on one key; the second key is there to see keys mixed up, the second
output to see a torn pickle, the third inode so that both workers can hold one
while a third is published. Compile: two configs on one target give the partial
output, none on another the target without a directory, a remove config in a third
takes from the first and from what nobody selects, and two workers over
three targets are a queue. Fetch: dependencies on one repository at different
revisions share a clone, with a default branch and without; two of one source and path are the
deduplication, and a path wanted from several sources the conflict; two `force_fetch` in
a target visit it twice. Inputs:
three runs, since what is stale was published by a second run and read by a
third; one config makes a directory, one removes it and one misses it. Kadet:
leaks go from a first component to a second, in one worker or in two; two runs with an edit
between them are what a stale entry needs, and a second edit comes in
the middle of a run. Inventory: an edit or a kill in the first run meets the second, and a
second migration is what breaks a file, a second expansion what meets a rewritten one; a target of each kind of list meets a
second one in the pool. References: a chain of three needs two retries, which
exercises the bound on passes. Refs command: the second command meets what the first
left, and two events are enough for an edit or an expiry followed by a kill; the
two backends have different ways of failing. Vault: a race has two writers, and
the second run meets the files of the first. Symmetry is used in `refs_update` only,
whose properties are invariants: secrets are interchangeable.
`MaxLookups`, `MaxRestarts`, `MaxDeaths`, `MaxRuns`, `MaxCommands`, `MaxEvents`,
`MaxEdits`, `MaxKills`, `MaxFaults` and `MaxMade` bound counters; every
other set is finite in the code as well, or holds representatives.

The type invariants hold in all of these instances; where a module has proofs,
`TypeOK` is proved, and it is part of the invariant there. The runs keep to the other properties.

Deadlock is checked in `cache`, `compile`, `fetch`, `helm`, `inputs` and `refs`,
whose specifications stutter where the system has ended. `RefUpdate`,
`KadetWorker`, `Inventory` and `VaultRefs` have no such step: the user may stop giving
commands, and does when the bound on runs and edits is used up; moreover
`Inventory` has a parent that waits for a dead worker, which `RenderingEnds` allows for.

Fairness is weak fairness of the parent process and of each worker or task:
the operating system schedules them, and none of their steps can be disabled
for ever by another process (`cache`: `LookupsReturn`, `compile`: `RunEnds`,
`inventory`: `RenderingEnds`, `refs`: `CompileEnds`). In `Inventory` the pool has a
finite number of tasks, so that fairness of all its work together is enough. Kills,
failures, edits and restarts are never fair. `RunEnds` and `RenderingEnds` except
lost tasks: the code waits for them without end.

## Disagreements with docs and comments

The violated runs above, as `findings` in PROJECT.json. Others met while
modelling, which follow from an action and have no run of their own.

Compile run and inputs:

- A target's directory is its name with dots as separators, so that replacing
  the output of `a` removes that of `a.b` (`kapitan/targets.py:243`); the comment at
  line 234 says "only override selected targets". `OnlySelected` is checked and
  proved for names that do not nest.
- The temporary directory is made before the `try` whose `finally` removes it: that of a
  run that rejects its selection stays (`kapitan/targets.py:92`, `276`; `RunEnds` asks
  for its removal only after that).
- `copy` of a path below `compiled/` may pick the file of an earlier run, after
  the one of this run (`kapitan/inputs/base.py:122`). `StaleIsCopied` bounds this.
- `remove` deletes published files before the run has compiled, also those of other
  targets and of targets that are not selected (`kapitan/inputs/remove.py:37-40`),
  against the comment at `kapitan/targets.py:234`; `AllOrNothing`, `OnlySelected` and
  `LossIsConfined` state what is left of the promise. It swallows the
  OSError that its docstring promises.
- A `remove` config finds a file that an earlier run published and succeeds
  (`kapitan/inputs/base.py:122`); `docs/pages/input_types/remove.md:50` says it
  throws, as the file is only made by a later config.
- A target whose list removes its own directory loses its published output in a run
  over a selection, which then fails (`PublishNothing`).
- After a `remove` of a directory the memo of made directories is wrong, and
  kustomize and cuelang fail for lack of it (`MissingWasRemoved`).
- "Empty, skipped writing output" (`kapitan/inputs/base.py:341`) leaves an empty
  file: it has been opened for writing by then.
- A command of `external` that cannot be started is logged, and the target
  compiles (`kapitan/inputs/external.py:108`).
- jinja2's `suffix_remove` strips characters, not the suffix
  (`kapitan/inputs/jinja2.py:74`); the "unique filename" of kustomize leaves out the
  namespace (`kapitan/inputs/kustomize.py:165-169`), so two documents can share one.

Kadet, helm and topics:

- A chart rendered from kadet changes the default flags of its process
  (`kapitan/inputs/helm.py:120`); `docs/pages/input_types/helm.md:50` says the flags
  "are enabled by default". `FlagsHaveACause` says how far it goes.
- `inventory(lazy=True)` has no effect with `--cache`, nor where an earlier
  component of the process has asked for a strict inventory (`kapitan/inputs/kadet.py:40`).
- `topics()` with no name is to raise when a topic is not declared
  (`kapitan/topics.py:69-70`); a cached output is served although another target has
  added such a topic, since only declared ones are in the key. What is
  served shows no undeclared topic (`TopicsWereDeclared`).

Fetching:

- A `force_fetch` on one dependency makes all of its target's dependencies
  overwrite files (`kapitan/targets.py:182`), though
  `docs/pages/external_dependencies.md:48` says kapitan refuses to.
  `OverwritesAreForced` states what the code keeps.
- A target is listed once per dependency with `force_fetch` (`kapitan/targets.py:175`),
  and each visit joins the output paths to `--output-path` again
  (`kapitan/dependency_manager/base.py:73-77`): with a relative one, dependencies
  are stored at `<output>/<output>/<path>` instead, below the directory once for each
  of the target's dependencies with `force_fetch`; `docs/pages/external_dependencies.md:44`
  says "at their respective `output_path`". `StoredAtPath` says where they go (`Goes`).
- Nor is that so of a download to unpack whose type is not supported, which is logged as
  "Ignoring save" (`kapitan/dependency_manager/base.py:236`), and of a chart whose
  directory is there, in whatever state (line 287): the fetch succeeds.
- "so that dep.ref=None always means the original HEAD"
  (`kapitan/dependency_manager/base.py:136-137`) is not so of a clone with a detached HEAD:
  there is no default branch, nothing is checked out, and the dependency gets what the one before it
  asked for (line 154). `RightRevision` states both cases.
- Two versions of a chart can meet in the directory `<dir>/<chart>`, and helm fails
  (`kapitan/dependency_manager/base.py:342`); the comment at line 278 says "to avoid
  collisions between source.chart_name/source.version". They never save each
  other's version (`SavedAsAsked`).
- A download is tried once (`kapitan/dependency_manager/base.py:188`); nothing
  reads `KAPITAN_FETCH_RETRIES` (`docs/pages/environment_variables.md:27`).
- `--force` without `--fetch` sets `force_fetch` after `fetch` has been computed
  from it, and fetches nothing (`kapitan/targets.py:173-182`); the help says
  "overwrite existing inventory and/or dependency item" (`kapitan/cli.py:256`).

Inventory:

- `--migrate` of a migrated tree breaks its escapes (`MigrationLossHasACause`);
  files are truncated before they are written (`kapitan/inventory/backends/omegaconf/migrate.py:46`).
- `docs/pages/inventory/classes.md:136` and `160` name `--ignore-class-not-found`, which the
  command line does not have; line 167 says omegaconf only looks for `.yml` classes, but it
  looks for `.yaml` too (`kapitan/inventory/backends/omegaconf/__init__.py:129`).
- "a path to a temporary copy of the inventory with those entries pre-expanded"
  (`kapitan/inventory/wildcards.py:325-326`): a class file in a directory that is a link is
  expanded in place (line 370). Its patterns are gone from the user's file, comments too,
  so that classes added later are not matched. `ClassesAreKept` states what stays.
- `--compose-node-name` is honoured with a warning and then overwritten
  (`kapitan/resources.py:389-402`).

References:

- Lists and nested dictionaries are compiled at once and outside the `try`
  (`kapitan/refs/base.py:545`), so that they fail over a ref which a later key makes; the
  docstring at line 458 has dependent references "processed after their dependencies
  exist". The objects of `refs` have no such list.
- Workers that share a generated ref both find it missing, and the second overwrites
  what the first has made and used (`kapitan/refs/base.py:394`); the comment at line
  844 speaks of refs that do not exist. `ExistingIsKept`, `DerivedMatches` and
  `TokensAreStored` are checked for targets with ref paths of their own.
- `--update-targets` and `--validate-targets` end with an AttributeError or
  TypeError on any gkms or vaulttransit ref whose target configures that type, and
  on any azkms ref (`Raises`; `kapitan/refs/cmd_parser.py:442`, `460`, `487`); the
  comment at line 381 has them update "all secrets in secrets_path".
- `--update --target-name` never uses the settings of the target it looks up
  (`kapitan/refs/cmd_parser.py:268-273`), though its error messages ask for
  recipients and keys to be put there.
- A vaultkv tag whose ref file exists compiles to the path and key of the file,
  whatever path and key the tag names (`Found`).
- A secret of the engine `kv` is read with its own API and written with that of kv-v2
  (`kapitan/refs/secrets/vaultkv.py:153-174`).
- `kapitan refs --write vaultkv` takes the secret from its input and requires
  `--vault-key` (`kapitan/refs/cmd_parser.py:209-213`); `docs/references.md:656` pipes in
  `foo/bar:my_key`. `--vault-mount` gives way to the inventory's mount (line 196). The
  table at `docs/references.md:23` calls vaultkv read-only.

## The proofs

`InputCache_proofs` proves, for every number of workers, keys, outputs and
inodes, and for every bound: type correctness; and, when there is one run on the
cache directory (`SingleRun`), `PublishedIsWhole`, `NoInterference`,
that an entry is never replaced, `OrphanIsForever`, and that every step is a step of
`CacheSpec` or a stutter (`ImplementsMap`). None of these is inductive. The
invariant `IndInv` adds that a key in use has its worker as owner, that a
worker that is writing holds the inode its lock file names, that names and open files
never share an inode otherwise, and what each half holds at each step of the dump;
then a rename can only publish a whole pickle, and no one else can have checked for
it in between.

`CompileRun_proofs` proves type correctness, `AllOrNothing` and that output which misses
a failed config is published only of tolerant targets from `RunAssumption` alone, and `OnlySelected`,
`LossIsConfined` and `DoneIsPublished` when no target's directory lies inside
another's (`Flatness`). Its
invariant says that a worker's target is running and nobody else's, that a
task that ended well is past all its configs, that the phases after the pool
are reached only with every task ended well, that until then the output is as it was found
but for what remove configs of selected targets name (`BarrierInv`), and which of the two ways of
replacing output the run is in. What a config takes away is said once for all three
ways in which it ends (`ConfigLeaves`). `NeverMixed` is proved with nested names too: a full run
gets from old output to new through an empty directory (`TurnoverInv`), so that, cut short
anywhere, it never leaves both. `NeverMixed`, `PublishedStays` and `PartOnlyIfTolerated`
are in no run: TLC checked them on the instances of `compile` and `inputs` before they were proved.

The same module proves of `Inventory` type correctness and all of the invariants and action
properties of its run, from `InventoryAssumption`, for any tree, edits, runs and
kills. `FormInv` counts migrations: what the user wrote without resolvers is intact before
the first and not yet broken after it, also while it waits to be written. `EmptiedInv`
looks at the tree as it will be when the write under way has ended (`Meant`): in that
tree only kills have emptied files, and a kill empties the one being written.
`ClassesAreKept` compares that tree before and after each step; what expansion writes to a
linked file keeps every entry that is no pattern, and is not empty (`ExpandTypes`).

`ReadyIsWhole` and `PatternsMeanTheirMatches` ask what folds and recursive functions compute,
for lists and trees of any size. `RenderInv`, the inductive part, says that what is rendered
and handed out is `Merged(Loads(view, t))` for each target discovered, of the user's tree or
of its expansion (`HandedOutWhole`). What these operators return is proved by induction over
numbers, which needs no rule with an operator as parameter: every set of numbers has a least
one (`LeastNumber`, from `WFMin` of the library), hence a set that has 0 and with each number
the next has all up to n (`UpTo`). From it follow that the functions by which `FoldLeft`,
`Loads` and `Reached` are defined exist (`Iteration`, `FoldExists`), that a fold goes through
its list step by step (`AddEachSteps`, `JoinedSteps`, `LoadSteps`), and what it returns:

- `AddEachMeans`: the entries of a list, each once, in the order in which they first come
  (`Earlier`); `JoinedMeans`: the entries of the lists, those of an earlier list first.
- `MatchesMeans` and `ExpansionMeans`: a pattern's matches are sorted, and of two classes the
  one whose first entry comes first is first (`Before`). It rests on `ClassOrder` having each
  class once.
- `LoadedIsWhole`: by induction on the depth, what is loaded for a file, if nothing is missing
  from it, is in the tree, has the file and is closed under the classes of its files, so all
  that is reached is loaded (`ReachedIsATable`); `LoadedWithinReached`: by induction on the depth
  again, what is loaded d levels below the bound is reached d steps before it. So a target is
  loaded with just what it reaches, itself last (`LoadsMeans`), whose value `Merged` keeps.

`RefUpdate_proofs` proves, for every set of references, targets, keys and
settings, type correctness, `LockIsDeclared`, `OneTornPerStop`,
`KeptOrRekeyed` and `ExitCodeIsHonest`, from `RefAssumption`. The invariants add that an object that is
about to be written names the keys it is encrypted to (`SealInv`); that the file
being written is the one torn file that no stop accounts for (`TornInv`); and that the
object in hand holds the secret of its file as it was at the beginning, which is
still pending and untouched, and is to get the lock that the inventory asks for
(`HandInv`), without which a flush could not be shown to keep the secret. For the exit code,
every reference that is no longer pending was found as it should be, was made so, or
was reported, and an azkms reference, whose comparison raises, is never passed over (`ExitInv`).

`Fetch_proofs` proves type correctness, `RightRevision`, `OverwritesAreForced` and
`StoredAtPath` from `FetchAssumption`: what is grouped belongs to a target that is visited and to
the source it is grouped under (`GroupInv`), the flags decide on `force` before
anything is fetched (`PlanInv`), and a clone is at a revision that one of its
dependencies asks for, or as it was made (`HeadInv`). For `StoredAtPath`, visits still to
come are rewritings still to come (`JoinsInv`), so that a path that is listed early has the
place it ends up with when files are saved; a dependency to be fetched is still to be met or
one of its source and path is listed (`ListedInv`); the kinds of sources that are past
have saved all they had (`TaskInv`), and nothing was saved elsewhere (`NowhereElse`).

The same module proves of `HelmCharts` type correctness and `SavedAsAsked`:
a task that is about to rename is the one whose version is unpacked, and the only such task
of its chart (`OneUnpacks`); what is about to be copied is in the cache (`Copyable`).

`KadetWorker_proofs` proves type correctness and the four properties of its run. A stored
output agrees with its key (`StoreInv`), a key a worker has looked up in vain is still the
key of what it is about to compute (`MissedInv`), what a process remembers of inventory and
files is what they are or was raced (`MemoInv`), a lazy box was asked for, and
not with `--cache` (`BoxInv`), and the flags of a process have a cause (`FlagsInv`),
which a stored output takes along (`Agrees`).

`VaultRefs_proofs` proves type correctness and the four properties of its run: what the
vault holds under a key was made for that key (`OwnInv`), a secret is in the
vault before its file is written unless its path was changed or raced for (`PutInv`), and
no worker makes a ref that was there at the beginning of the run (`BegunInv`).

`TargetInputs_proofs` proves type correctness, the four properties of its run and
`PublishedStays`, from
`InputsAssumption` alone: for every set of files, tree of directories and compile list, and
any number of runs. The run's directory has the parents of each directory it has and the
directory of each file (`ClosedInv`); without that, a removal that did not find its path
could leave files below it. `ProgressInv` says how far a strict list has come: between
configs, the removable files that are there are those the configs so far leave (`LeftBy`);
within a config, those and what it has still to write, or but what it has still to
remove. A directory the worker remembers is there or was taken away by a remove config
after a config wanted it (`MadeInv`). `StaleInv` and `TornInv` say of the run's
directory what the properties say of a published one. `PublishedStays`, that
before a run publishes only a removal touches what is published, follows step by step:
whatever is written is written in the run's directory.

`RefCompile_proofs` proves type correctness and all of the invariants and action properties of
its run, for any objects, paths and number of workers, runs and kills. What it asks of the
objects is named. `Apart`: a ref that one target compiles is neither compiled nor revealed
by another; without it two workers overwrite each other's refs. `OneSource`, for
`DerivedMatches`: an object makes a ref in one way. `Single` and `Given`, for
`ObtainableCompiles`: a value that reveals is a string of one tag, and a ref that is used
without a function is not made by the object, or is in an earlier value that reveals nothing.
Without `Single` it is false: a list that reveals a ref which a later key makes is a
counterexample. `refs` also has objects outside of these hypotheses. The common invariant (`IInv`) says what is at the path of the ref being made
(`MidInv`), that what has been compiled is what the files hold (`OutInv`), and that only values
that reveal are passed by (`FinalInv`). A derived ref has its source, also between the
function and the write (`Matches`). That the passes suffice rests on a count and a
standstill: every pass but the last has compiled a key (`CountInv`), so the bound
`len(dictionary) + 1` is never what ends them; when a pass compiles nothing, every key that is
left waits for a ref that does not exist (`BlockedInv`), and what exists is then closed under
what the tags make, so what a target fails over cannot be had (`FailInv`).

Assumptions on constants are `CacheAssumption`, `RunAssumption`, `RefAssumption`,
`FetchAssumption`, `HelmAssumption`, `WorkerAssumption`, `VaultAssumption`, `InputsAssumption`
and `InventoryAssumption` in the modules; TLC evaluates them. The inductive invariants of
`RefCompile` and `Inventory` were checked by TLC on the instances before they were proved.

Only model-checked are the liveness properties `LookupsReturn`, `RunEnds`, `RenderingEnds` and
`CompileEnds`: the prover has no rule for fairness or ENABLED. Every other property of a
passing run is stated by a theorem. The library's induction and fold theorems take an operator
as parameter and could not be used. No module
declares a RECURSIVE operator; `Obtainable` is defined by its closure, not by recursion.

## Not modelled

- Reads and loads of a small file are one step; power loss and fsync are not
  modelled, only killed processes.
- Rendering by jinja2, jsonnet, helm, kustomize and cue, and what kadet code
  computes; the YAML, JSON and TOML writers, jinja filters, argument parsing, linting
  and profiling: pure functions or calls of external tools with no protocol of their own.
- Remote services (git, http, registries, key services) succeed or fail; of a
  vault also the answer may be lost. Versions of a vault's secrets other than the
  latest are left out, and so is authentication.
- Of the inventory: links to single files and links in circles, the libraries reclass and reclass-rs, custom resolvers,
  `ignore_class_not_found`, relative class names, edits while it is rendered, comments that
  rewriting a file drops.
- Of fetching: `safe_copy_tree` of files with a leading dot, chart versions that are left
  open, what an archive holds.
- Of compile inputs: globs, the copying of whole directories, item paths that collide,
  `compile --reveal`.
- Of references: sub-variables of a revealed value; how `--write` reads its data;
  the eviction of revealed values beyond 256 tags; the individual generator functions.
- Deduplication of equal digests (a collision of hashes).

## What could come next

1. `ObtainableCompiles` for nested dictionaries, which are compiled as objects of
   their own, and for strings of several tags where that is still true.
2. `CompileRun` composed with `Inventory`, to say of a whole command what an
   inventory that cannot be rendered leaves of the output.
3. Subpath references and sub-variables in revealing (`kapitan/refs/base.py:57-101`).
