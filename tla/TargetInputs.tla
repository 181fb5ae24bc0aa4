---------------------------- MODULE TargetInputs ----------------------------
(***************************************************************************)
(* The compile configs of one target, over successive `kapitan compile`    *)
(* runs: InputType.compile_obj and the input types that write, copy and    *)
(* remove files (kapitan/inputs), in the loop over configs of              *)
(* kapitan/targets.py.                                                     *)
(*                                                                         *)
(* An input path is looked up in every search path.  These are the         *)
(* project's directory, where the compiled output of earlier runs lies     *)
(* (live), and the temporary directory of the run (temp): a path below     *)
(* compiled/ can be found in either, in both, or in neither, and each file *)
(* found is compiled.  A file's content is the run that generated it, and  *)
(* whether it was written to its end.                                      *)
(***************************************************************************)
EXTENDS Naturals, Sequences

CONSTANTS
  Files,      \* paths of files below compiled/<target>
  Dirs,       \* its directories: output paths of configs and their parents
  Top,        \* compiled/<target> itself
  DirOf,      \* the directory of a file
  Within,     \* Within[d]: d and the directories in it
  Programs,   \* the compile lists the target may have
  Unremovable, \* files that the operating system does not let kapitan remove
  MaxRuns     \* bound: runs of kapitan

(* A compile config writes the files `to` from the project's own sources:   *)
(* "template" stands for jinja2, jsonnet, kadet and helm, which open files  *)
(* with CompiledFile; "tool" for kustomize and cuelang, which open them     *)
(* themselves; "external" for a command.  "copy" copies the compiled file   *)
(* `from` to the one in `to`, "remove" removes the file or directory        *)
(* `from`.  dir is the config's output_path.                                *)
Ops == {"template", "tool", "external", "copy", "remove"}
Config == [op : Ops, from : Files \cup Dirs, to : SUBSET Files, dir : Dirs,
           ignore_missing : BOOLEAN, continue_on_compile_error : BOOLEAN]

ASSUME InputsAssumption ==
  /\ Programs \subseteq Seq(Config)
  /\ \A p \in Programs : \A i \in DOMAIN p :
       /\ p[i].op = "copy" => p[i].from \in Files /\ \E f \in Files : p[i].to = {f}
       /\ p[i].op = "remove" => p[i].to = {}
  /\ Top \in Dirs /\ Files \cap Dirs = {}
  /\ DirOf \in [Files -> Dirs]
  /\ Within \in [Dirs -> SUBSET Dirs]
  /\ \A d \in Dirs : d \in Within[d] /\ d \in Within[Top]
  /\ \A d \in Dirs : \A e \in Within[d] : Within[e] \subseteq Within[d]
  /\ Unremovable \subseteq Files
  /\ MaxRuns \in Nat

Roots == {"live", "temp"}

VARIABLES
  run,      \* the number of this run
  program,  \* the target's compile list in this run
  phase,    \* between configs, within one, or how the run ended
  next,     \* index of the config at hand
  found,    \* expanded_paths still to be compiled, by the search path
  todo,     \* files that the config at hand has still to write
  ensured,  \* _ENSURED_DIRS of the worker
  disk      \* disk[root]: the directories there are, and the content of files

vars == <<run, program, phase, next, found, todo, ensured, disk>>

Content == [run : Nat, whole : BOOLEAN]
NoFile == [run |-> 0, whole |-> TRUE]
NoDisk == [dirs |-> {}, file |-> [f \in Files |-> NoFile]]
Current == program[next]
Exists(root, path) ==
  IF path \in Dirs THEN path \in disk[root].dirs ELSE disk[root].file[path] # NoFile

TypeOK ==
  /\ run \in Nat \ {0}
  /\ program \in Programs
  /\ phase \in {"config", "paths", "writing", "failed", "published", "dropped"}
  /\ next \in Nat \ {0}
  /\ found \subseteq Roots
  /\ todo \subseteq Files
  /\ ensured \subseteq Dirs
  /\ disk \in [Roots -> [dirs : SUBSET Dirs, file : [Files -> Content]]]

Init ==
  /\ run = 1
  /\ program \in Programs
  /\ phase = "config"
  /\ next = 1
  /\ found = {}
  /\ todo = {}
  /\ ensured = {}
  /\ disk = [root \in Roots |-> NoDisk]

-----------------------------------------------------------------------------
\* The search paths in which the config's input path exists.
Expanded(c) ==
  IF c.op \in {"copy", "remove"} THEN {r \in Roots : Exists(r, c.from)} ELSE {"live"}

\* Mutant of Raise: the error of a config is logged, whatever the config says.
RaiseNever(c) ==
  /\ phase' = "config"
  /\ next' = next + 1

\* A config raises: the target's compilation ends, or goes on with the next.
Raise(c) ==
  IF c.continue_on_compile_error
  THEN phase' = "config" /\ next' = next + 1
  ELSE phase' = "failed" /\ UNCHANGED next

\* os.makedirs makes the parents too.
WithDir(d) ==
  [disk EXCEPT !["temp"] = [dirs |-> @.dirs \cup {e \in Dirs : d \in Within[e]},
                            file |-> @.file]]

\* _ensure_dir: the output directory is made unless this process made it before.
Ensured(d) == IF d \in ensured THEN disk ELSE WithDir(d)

\* compile_obj ensures the output directory and looks an input path up; not to
\* find it is an error unless the config has ignore_missing.
Expand ==
  /\ phase = "config"
  /\ next <= Len(program)
  /\ disk' = Ensured(Current.dir)
  /\ ensured' = ensured \cup {Current.dir}
  /\ \/ /\ Expanded(Current) # {} \/ Current.ignore_missing
        /\ found' = Expanded(Current)
        /\ phase' = "paths"
        /\ UNCHANGED next
     \/ /\ Expanded(Current) = {}
        /\ ~ Current.ignore_missing
        /\ Raise(Current)
        /\ UNCHANGED found
  /\ UNCHANGED <<run, program, todo>>

-----------------------------------------------------------------------------
\* compile_file of an input type that renders: it has its output to write.
Render ==
  /\ phase = "paths"
  /\ found # {}
  /\ Current.op \in {"template", "tool", "external"}
  /\ found' = {}
  /\ todo' = Current.to
  /\ phase' = "writing"
  /\ UNCHANGED <<run, program, next, ensured, disk>>

\* A content for file f of the run's directory.
Put(d, f, content) ==
  [d EXCEPT !["temp"] = [dirs |-> @.dirs, file |-> [@.file EXCEPT ![f] = content]]]

Written(d, f, whole) == Put(d, f, [run |-> run, whole |-> whole])

\* CompiledFile makes the directory of the file and truncates the file; then the
\* references in the output are compiled, and what results is written.
TemplateFile(f, whole) ==
  /\ Current.op = "template"
  /\ disk' = Written(WithDir(DirOf[f]), f, whole)

\* kustomize and cuelang open a file of the output directory as it is.
ToolFile(f, whole) ==
  /\ Current.op = "tool"
  /\ DirOf[f] \in disk["temp"].dirs
  /\ disk' = Written(disk, f, whole)

\* What a command does about a directory that is gone is its own affair.
ExternalFile(f, whole) ==
  /\ Current.op = "external"
  /\ disk' = Written(WithDir(DirOf[f]), f, whole)

FileOf(f, whole) ==
  TemplateFile(f, whole) \/ ToolFile(f, whole) \/ ExternalFile(f, whole)

WriteFile(f) ==
  /\ phase = "writing"
  /\ f \in todo
  /\ FileOf(f, TRUE)
  /\ todo' = todo \ {f}
  /\ UNCHANGED <<run, program, phase, next, found, ensured>>

\* The command cannot be started: the error is only logged.
CommandUnstarted ==
  /\ phase = "writing"
  /\ Current.op = "external"
  /\ todo = Current.to
  /\ todo' = {}
  /\ UNCHANGED <<run, program, phase, next, found, ensured, disk>>

\* The output does not render, or a file cannot be opened, or writing it fails: a
\* reference that does not compile, a command that exits with an error.
RenderFails ==
  /\ phase = "writing"
  /\ todo # {}
  /\ \/ UNCHANGED disk
     \/ \E f \in todo : FileOf(f, FALSE)
  /\ todo' = {}
  /\ Raise(Current)
  /\ UNCHANGED <<run, program, found, ensured>>

\* The loop over configs takes an AttributeError for an unknown input type: it is
\* raised even where errors are to be tolerated.
AttributeFails ==
  /\ phase = "writing"
  /\ todo # {}
  /\ phase' = "failed"
  /\ UNCHANGED <<run, program, next, found, todo, ensured, disk>>

-----------------------------------------------------------------------------
\* copy2 makes the directory and overwrites.
CopyOver(content) ==
  /\ Current.op = "copy"
  /\ \E f \in Current.to : disk' = Put(WithDir(DirOf[f]), f, content)

Copied(root) == CopyOver(disk[root].file[Current.from])

\* The files of a directory, or the file itself.
Below(path) ==
  IF path \in Dirs THEN {f \in Files : DirOf[f] \in Within[path]} ELSE {path}

\* os.remove or rmtree removes where the path was found.  An error is only logged:
\* rmtree stops at it, when other files may be gone or not.
Removed(root) ==
  /\ Current.op = "remove"
  /\ LET there == {f \in Below(Current.from) : disk[root].file[f] # NoFile}
         Without(gone, dirs) ==
           [disk EXCEPT ![root] =
              [dirs |-> @.dirs \ dirs,
               file |-> [f \in Files |-> IF f \in gone THEN NoFile ELSE @.file[f]]]]
     IN  IF there \cap Unremovable = {}
         THEN disk' = Without(there, IF Current.from \in Dirs THEN Within[Current.from] ELSE {})
         ELSE \E gone \in SUBSET (there \ Unremovable) : disk' = Without(gone, {})

\* compile_file of copy and remove, for one path that was found.
CompileFile(root) ==
  /\ phase = "paths"
  /\ root \in found
  /\ found' = found \ {root}
  /\ Copied(root) \/ Removed(root)
  /\ UNCHANGED <<run, program, phase, next, todo, ensured>>

\* A file that cannot be copied: copy2 fails before it has truncated the
\* destination, or after.
CopyFails ==
  /\ phase = "paths"
  /\ Current.op = "copy"
  /\ \E root \in found :
       UNCHANGED disk \/ CopyOver([disk[root].file[Current.from] EXCEPT !.whole = FALSE])
  /\ found' = {}
  /\ Raise(Current)
  /\ UNCHANGED <<run, program, todo, ensured>>

NextConfig ==
  /\ \/ phase = "paths" /\ found = {}
     \/ phase = "writing" /\ todo = {}
  /\ phase' = "config"
  /\ next' = next + 1
  /\ UNCHANGED <<run, program, found, todo, ensured, disk>>

-----------------------------------------------------------------------------
Compiled == phase = "config" /\ next > Len(program)

\* Mutant of Publish: the compiled files are copied over those of earlier runs.
PublishOver ==
  /\ Compiled
  /\ disk' = [disk EXCEPT !["live"].file =
                [f \in Files |-> IF disk["temp"].file[f] # NoFile
                                 THEN disk["temp"].file[f] ELSE @[f]]]
  /\ phase' = "published"
  /\ UNCHANGED <<run, program, next, found, todo, ensured>>

\* Every target of the run has compiled: the target's directory is replaced.
Publish ==
  /\ Compiled
  /\ disk' = [disk EXCEPT !["live"] = disk["temp"]]
  /\ phase' = "published"
  /\ UNCHANGED <<run, program, next, found, todo, ensured>>

\* A run over a selection copies the target's directory, which a remove config has
\* taken away, after it has removed the published one.
PublishNothing ==
  /\ Compiled
  /\ Top \notin disk["temp"].dirs
  /\ disk' = [disk EXCEPT !["live"] = NoDisk]
  /\ phase' = "failed"
  /\ UNCHANGED <<run, program, next, found, todo, ensured>>

\* Another target has failed, or the run is killed.
Drop ==
  /\ phase \in {"config", "paths", "writing"}
  /\ phase' = "dropped"
  /\ UNCHANGED <<run, program, next, found, todo, ensured, disk>>

Ended == phase \in {"failed", "published", "dropped"}

\* kapitan is run again, on an inventory that may have changed.
Restarted ==
  /\ Ended
  /\ run < MaxRuns
  /\ run' = run + 1
  /\ program' \in Programs
  /\ phase' = "config"
  /\ next' = 1
  /\ found' = {}
  /\ todo' = {}

\* Mutant of NextRun: the temporary directory of the last run is used again.
NextRunSameTemp ==
  /\ Restarted
  /\ ensured' = {}
  /\ UNCHANGED disk

\* Mutant of NextRun: the memo of directories outlives its temporary directory.
NextRunSameMemo ==
  /\ Restarted
  /\ disk' = [disk EXCEPT !["temp"] = NoDisk]
  /\ UNCHANGED ensured

NextRun ==
  /\ Restarted
  /\ ensured' = {}
  /\ disk' = [disk EXCEPT !["temp"] = NoDisk]

Stop ==
  /\ Ended
  /\ run = MaxRuns
  /\ UNCHANGED vars

Next ==
  \/ Expand \/ Render \/ (\E f \in Files : WriteFile(f)) \/ CommandUnstarted
  \/ RenderFails \/ AttributeFails \/ (\E root \in Roots : CompileFile(root)) \/ CopyFails
  \/ NextConfig \/ Publish \/ PublishNothing \/ Drop \/ NextRun \/ Stop

Spec == Init /\ [][Next]_vars

-----------------------------------------------------------------------------
(* Properties *)

\* What a compile list leaves when it is read in order: a file is there if the
\* last config about it wrote or copied it.
Left(p) ==
  {f \in Files :
     \E i \in DOMAIN p :
       /\ f \in p[i].to
       /\ \A j \in DOMAIN p : j > i => ~ (p[j].op = "remove" /\ f \in Below(p[j].from))}

\* Lists of which no config may be skipped: none is tolerated, none runs a command
\* whose failure to start is ignored, none removes a directory it cannot.
Strict(p) ==
  \A i \in DOMAIN p :
    /\ ~ p[i].continue_on_compile_error /\ ~ p[i].ignore_missing
    /\ p[i].op # "external"
    /\ p[i].op = "remove" => p[i].from \in Files \/ Below(p[i].from) \cap Unremovable = {}

\* A published target consists of the files its compile list leaves, read in
\* order, and of no others: whatever earlier runs had published, the result of a
\* run does not depend on it.  (Excepted are files that cannot be removed.)
PublishedIsProgram ==
  phase = "published" /\ Strict(program) =>
    {f \in Files : disk["live"].file[f] # NoFile} \ Unremovable = Left(program) \ Unremovable

\* What an earlier run generated is published again only where a copy config put
\* it: compiled files that other configs refer to may be found in the output of an
\* earlier run, whatever this run does, but nothing else lets them survive.
StaleIsCopied ==
  phase = "published" =>
    \A f \in Files : disk["live"].file[f].run \notin {0, run} =>
      \E i \in DOMAIN program : program[i].op = "copy" /\ f \in program[i].to

\* A file is published cut short only where the target tolerates the failure of a
\* config that writes it, or copies a file that an earlier run left so: output files
\* are truncated before their references are compiled, or their contents copied.
TornIsTolerated ==
  phase = "published" =>
    \A f \in Files : ~ disk["live"].file[f].whole =>
      \E i \in DOMAIN program :
        /\ f \in program[i].to
        /\ program[i].continue_on_compile_error \/ program[i].op = "copy"

\* What is published stays as it is until all of a run's configs are behind it,
\* however the run ends and whatever it reads from there: but for what a remove
\* config names, which is taken from the published output too, at once.
PublishedStays ==
  [][\A f \in Files : disk'["live"].file[f] # disk["live"].file[f] =>
       Compiled \/ (Current.op = "remove" /\ f \in Below(Current.from) \ Unremovable)]_vars

\* kustomize or cuelang fails for lack of its output directory only after a remove
\* config of the same list took away what a config before it had made: the memo of
\* directories does not notice.
MissingWasRemoved ==
  phase = "writing" /\ Current.op = "tool" /\ Current.dir \notin disk["temp"].dirs =>
    \E j \in 1 .. next - 1 :
      /\ program[j].op = "remove" /\ program[j].from \in Dirs
      /\ Current.dir \in Within[program[j].from]
      /\ \E i \in 1 .. j : program[i].dir = Current.dir
=============================================================================
