------------------------ MODULE TargetInputs_proofs ------------------------
(***************************************************************************)
(* Proofs about TargetInputs for every set of files and directories, every *)
(* compile list and every number of runs.                                  *)
(***************************************************************************)
EXTENDS TargetInputs, TLAPS

-----------------------------------------------------------------------------
(* The inductive invariant, in parts *)

Busy == {"config", "paths", "writing"}
Writes == {"template", "tool", "external"}
Disks == [Roots -> [dirs : SUBSET Dirs, file : [Files -> Content]]]

\* The config at hand is one of the list, and what is left of it is its own.
AtConfig ==
  /\ phase = "config" => next <= Len(program) + 1
  /\ phase \in {"paths", "writing"} => next <= Len(program)
  /\ phase = "paths" /\ Current.op \in Writes => found = {"live"}
  /\ phase = "writing" => Current.op \in Writes /\ todo \subseteq Current.to

\* A directory of the run has its parents, and a file its directory.
Closed(d) ==
  /\ \A e \in d.dirs : \A p \in Dirs : e \in Within[p] => p \in d.dirs
  /\ \A f \in Files : d.file[f] # NoFile => DirOf[f] \in d.dirs

ClosedInv == phase \in Busy => Closed(disk["temp"])

\* A file of another run was copied, ...
StaleInv ==
  phase \in Busy =>
    \A f \in Files : disk["temp"].file[f].run \notin {0, run} =>
      \E i \in DOMAIN program : program[i].op = "copy" /\ f \in program[i].to

\* ... and so was a file cut short, unless its config is tolerated.
TornInv ==
  phase \in Busy =>
    \A f \in Files : ~ disk["temp"].file[f].whole =>
      \E i \in DOMAIN program :
        /\ f \in program[i].to
        /\ program[i].continue_on_compile_error \/ program[i].op = "copy"

\* How many configs have had their directories ensured.
Begun == IF phase = "config" THEN next - 1 ELSE next

\* Directory d was taken away by a remove config after a config wanted it.
TakenAway(p, d, n) ==
  \E j \in 1 .. n :
    /\ p[j].op = "remove" /\ p[j].from \in Dirs
    /\ d \in Within[p[j].from]
    /\ \E i \in 1 .. j : p[i].dir = d

\* A directory that was made is there, or was taken away.
MadeInv ==
  /\ phase \in Busy =>
       \A d \in ensured :
         /\ \E i \in 1 .. Begun : program[i].dir = d
         /\ d \in disk["temp"].dirs \/ TakenAway(program, d, Begun)
  /\ phase \in {"paths", "writing"} => Current.dir \in ensured

\* What the first n configs leave.
LeftBy(p, n) ==
  {f \in Files :
     \E i \in 1 .. n :
       /\ f \in p[i].to
       /\ \A j \in i + 1 .. n : ~ (p[j].op = "remove" /\ f \in Below(p[j].from))}

There == {f \in Files : disk["temp"].file[f] # NoFile} \ Unremovable

\* How far a strict list has come.
ProgressInv ==
  phase \in Busy /\ Strict(program) =>
    /\ phase = "config" => There = LeftBy(program, next - 1) \ Unremovable
    /\ phase = "writing" => There \cup (todo \ Unremovable) = LeftBy(program, next) \ Unremovable
    /\ phase = "paths" /\ Current.op \in Writes => There = LeftBy(program, next - 1) \ Unremovable
    /\ phase = "paths" /\ Current.op = "copy" =>
         /\ \A r \in found : disk[r].file[Current.from] # NoFile
         /\ There \cup ((IF found = {} THEN {} ELSE Current.to) \ Unremovable) =
              LeftBy(program, next) \ Unremovable
    /\ phase = "paths" /\ Current.op = "remove" =>
         There \ (IF "temp" \in found THEN Below(Current.from) ELSE {}) =
           LeftBy(program, next) \ Unremovable

Published == PublishedIsProgram /\ StaleIsCopied /\ TornIsTolerated

IInv ==
  /\ TypeOK /\ AtConfig /\ ClosedInv /\ StaleInv /\ TornInv /\ MadeInv /\ ProgressInv
  /\ Published

-----------------------------------------------------------------------------
(* The compile list *)

LEMMA ListType ==
  ASSUME InputsAssumption, TypeOK
  PROVE  /\ program \in Seq(Config) /\ Len(program) \in Nat
         /\ DOMAIN program = 1 .. Len(program)
         /\ \A i \in 1 .. Len(program) : program[i] \in Config
BY DEF InputsAssumption, TypeOK

LEMMA CurrentType ==
  ASSUME InputsAssumption, TypeOK, next <= Len(program)
  PROVE  /\ next \in 1 .. Len(program) /\ next \in DOMAIN program /\ Current = program[next]
         /\ Current.op \in Ops /\ Current.from \in Files \cup Dirs
         /\ Current.to \subseteq Files /\ Current.dir \in Dirs
         /\ Current.continue_on_compile_error \in BOOLEAN /\ Current.ignore_missing \in BOOLEAN
         /\ Current.op = "copy" => Current.from \in Files /\ \E f \in Files : Current.to = {f}
         /\ Current.op = "remove" => Current.to = {}
<1>1. next \in 1 .. Len(program) /\ next \in DOMAIN program
  BY ListType DEF TypeOK
<1>2. Current \in Config
  BY <1>1, ListType DEF Current
<1>3. /\ Current.op = "copy" => Current.from \in Files /\ \E f \in Files : Current.to = {f}
      /\ Current.op = "remove" => Current.to = {}
  BY <1>1 DEF Current, InputsAssumption, TypeOK
<1> QED BY <1>1, <1>2, <1>3 DEF Config, Current

LEMMA BelowType ==
  ASSUME InputsAssumption, NEW p \in Files \cup Dirs
  PROVE  Below(p) \subseteq Files
BY DEF Below

\* A config that writes or copies adds its files.
LEMMA LeftByWriting ==
  ASSUME InputsAssumption, TypeOK, NEW n \in 1 .. Len(program), program[n].op # "remove"
  PROVE  LeftBy(program, n) = LeftBy(program, n - 1) \cup program[n].to
<1>1. program[n].to \subseteq Files
  BY ListType DEF Config
<1>2. ASSUME NEW f \in Files
      PROVE  f \in LeftBy(program, n) <=>
               f \in LeftBy(program, n - 1) \/ f \in program[n].to
  <2>1. ASSUME f \in program[n].to  PROVE f \in LeftBy(program, n)
    BY <2>1 DEF LeftBy
  <2>2. ASSUME f \in LeftBy(program, n - 1)  PROVE f \in LeftBy(program, n)
    <3>1. PICK i \in 1 .. n - 1 :
            /\ f \in program[i].to
            /\ \A j \in i + 1 .. n - 1 : ~ (program[j].op = "remove" /\ f \in Below(program[j].from))
      BY <2>2 DEF LeftBy
    <3>2. \A j \in i + 1 .. n : j \in i + 1 .. n - 1 \/ j = n
      OBVIOUS
    <3> QED BY <3>1, <3>2 DEF LeftBy
  <2>3. ASSUME f \in LeftBy(program, n), f \notin program[n].to  PROVE f \in LeftBy(program, n - 1)
    <3>1. PICK i \in 1 .. n :
            /\ f \in program[i].to
            /\ \A j \in i + 1 .. n : ~ (program[j].op = "remove" /\ f \in Below(program[j].from))
      BY <2>3 DEF LeftBy
    <3>2. i \in 1 .. n - 1
      BY <2>3, <3>1
    <3> QED BY <3>1, <3>2 DEF LeftBy
  <2> QED BY <2>1, <2>2, <2>3
<1> QED BY <1>1, <1>2 DEF LeftBy

\* A config that removes takes away what is below its path.
LEMMA LeftByRemoving ==
  ASSUME InputsAssumption, TypeOK, NEW n \in 1 .. Len(program), program[n].op = "remove"
  PROVE  LeftBy(program, n) = LeftBy(program, n - 1) \ Below(program[n].from)
<1>1. program[n].to = {}
  BY ListType DEF InputsAssumption, TypeOK
<1>2. ASSUME NEW f \in Files
      PROVE  f \in LeftBy(program, n) <=>
               f \in LeftBy(program, n - 1) /\ f \notin Below(program[n].from)
  <2>1. ASSUME f \in LeftBy(program, n - 1), f \notin Below(program[n].from)  PROVE f \in LeftBy(program, n)
    <3>1. PICK i \in 1 .. n - 1 :
            /\ f \in program[i].to
            /\ \A j \in i + 1 .. n - 1 : ~ (program[j].op = "remove" /\ f \in Below(program[j].from))
      BY <2>1 DEF LeftBy
    <3>2. \A j \in i + 1 .. n : j \in i + 1 .. n - 1 \/ j = n
      OBVIOUS
    <3> QED BY <2>1, <3>1, <3>2 DEF LeftBy
  <2>2. ASSUME f \in LeftBy(program, n)  PROVE f \in LeftBy(program, n - 1) /\ f \notin Below(program[n].from)
    <3>1. PICK i \in 1 .. n :
            /\ f \in program[i].to
            /\ \A j \in i + 1 .. n : ~ (program[j].op = "remove" /\ f \in Below(program[j].from))
      BY <2>2 DEF LeftBy
    <3>2. i \in 1 .. n - 1 /\ n \in i + 1 .. n
      BY <1>1, <3>1
    <3> QED BY <3>1, <3>2 DEF LeftBy
  <2> QED BY <2>1, <2>2
<1> QED BY <1>2 DEF LeftBy
-----------------------------------------------------------------------------
(* What is done to the disk *)

LEMMA Transitive ==
  ASSUME InputsAssumption, NEW d \in Dirs, NEW e \in Dirs, NEW p \in Dirs,
         d \in Within[e], e \in Within[p]
  PROVE  d \in Within[p]
BY DEF InputsAssumption

LEMMA WithDirEffect ==
  ASSUME InputsAssumption, disk \in Disks, NEW d \in Dirs
  PROVE  /\ WithDir(d) \in Disks
         /\ WithDir(d)["live"] = disk["live"]
         /\ WithDir(d)["temp"].file = disk["temp"].file
         /\ WithDir(d)["temp"].dirs = disk["temp"].dirs \cup {e \in Dirs : d \in Within[e]}
         /\ d \in WithDir(d)["temp"].dirs
         /\ Closed(disk["temp"]) => Closed(WithDir(d)["temp"])
<1> DEFINE new == WithDir(d)["temp"]
<1>1. /\ WithDir(d) \in Disks
      /\ WithDir(d)["live"] = disk["live"]
      /\ new.file = disk["temp"].file
      /\ new.dirs = disk["temp"].dirs \cup {e \in Dirs : d \in Within[e]}
  BY DEF WithDir, Disks, Roots
<1>2. d \in new.dirs
  BY <1>1 DEF InputsAssumption
<1>3. ASSUME Closed(disk["temp"])  PROVE Closed(new)
  <2>1. disk["temp"].dirs \subseteq Dirs
    BY DEF Disks, Roots
  <2>2. ASSUME NEW e \in new.dirs, NEW p \in Dirs, e \in Within[p]  PROVE p \in new.dirs
    BY <1>1, <1>3, <2>1, <2>2, Transitive DEF Closed
  <2>3. \A f \in Files : new.file[f] # NoFile => DirOf[f] \in new.dirs
    BY <1>1, <1>3 DEF Closed
  <2> HIDE DEF new
  <2> QED BY <2>2, <2>3 DEF Closed
<1> QED BY <1>1, <1>2, <1>3

LEMMA PutEffect ==
  ASSUME InputsAssumption, NEW d \in Disks, NEW f \in Files, NEW c \in Content
  PROVE  /\ Put(d, f, c) \in Disks
         /\ Put(d, f, c)["live"] = d["live"]
         /\ Put(d, f, c)["temp"].dirs = d["temp"].dirs
         /\ \A g \in Files : Put(d, f, c)["temp"].file[g] =
                              IF g = f THEN c ELSE d["temp"].file[g]
         /\ Closed(d["temp"]) /\ DirOf[f] \in d["temp"].dirs => Closed(Put(d, f, c)["temp"])
<1>1. /\ Put(d, f, c) \in Disks
      /\ Put(d, f, c)["live"] = d["live"]
      /\ Put(d, f, c)["temp"].dirs = d["temp"].dirs
      /\ Put(d, f, c)["temp"].file = [d["temp"].file EXCEPT ![f] = c]
  BY DEF Put, Disks, Roots
<1>2. d["temp"].file \in [Files -> Content]
  BY DEF Disks, Roots
<1>3. \A g \in Files : Put(d, f, c)["temp"].file[g] = IF g = f THEN c ELSE d["temp"].file[g]
  BY <1>1, <1>2
<1> QED BY <1>1, <1>3 DEF Closed

\* Writing a file changes just that file, and makes or finds its directory.
LEMMA FileEffect ==
  ASSUME InputsAssumption, TypeOK, Closed(disk["temp"]),
         NEW f \in Files, NEW whole \in BOOLEAN, FileOf(f, whole)
  PROVE  /\ disk' \in Disks
         /\ disk'["live"] = disk["live"]
         /\ disk["temp"].dirs \subseteq disk'["temp"].dirs
         /\ Closed(disk'["temp"])
         /\ \A g \in Files : disk'["temp"].file[g] =
              IF g = f THEN [run |-> run, whole |-> whole] ELSE disk["temp"].file[g]
<1>1. disk \in Disks /\ [run |-> run, whole |-> whole] \in Content /\ DirOf[f] \in Dirs
  BY DEF TypeOK, Disks, Content, InputsAssumption
<1>2. CASE disk' = Written(disk, f, whole) /\ DirOf[f] \in disk["temp"].dirs
  BY <1>1, <1>2, PutEffect DEF Written
<1>3. CASE disk' = Written(WithDir(DirOf[f]), f, whole)
  <2>1. /\ WithDir(DirOf[f]) \in Disks /\ Closed(WithDir(DirOf[f])["temp"])
        /\ DirOf[f] \in WithDir(DirOf[f])["temp"].dirs
        /\ WithDir(DirOf[f])["live"] = disk["live"]
        /\ WithDir(DirOf[f])["temp"].file = disk["temp"].file
        /\ disk["temp"].dirs \subseteq WithDir(DirOf[f])["temp"].dirs
    BY <1>1, WithDirEffect
  <2> QED BY <1>1, <1>3, <2>1, PutEffect DEF Written
<1> QED BY <1>2, <1>3 DEF FileOf, TemplateFile, ToolFile, ExternalFile

\* A copy is of a file that is found, under the one name the config has for it.
\* What a copy config copies, and what is left of it when it fails midway.
LEMMA CopiedFrom ==
  ASSUME InputsAssumption, TypeOK, next <= Len(program), Current.op = "copy", NEW root \in Roots
  PROVE  LET content == disk[root].file[Current.from]
             cut == [content EXCEPT !.whole = FALSE]
         IN  content \in Content /\ cut \in Content
<1>1. Current.from \in Files
  BY CurrentType
<1>2. disk[root].file[Current.from] \in Content
  BY <1>1 DEF TypeOK
<1> QED BY <1>2 DEF Content

LEMMA CopiedEffect ==
  ASSUME InputsAssumption, TypeOK, AtConfig, Closed(disk["temp"]), phase = "paths",
         NEW content \in Content, CopyOver(content)
  PROVE  \E f \in Files :
         /\ Current.to = {f} /\ Current.from \in Files /\ Current.op = "copy"
         /\ disk' \in Disks
         /\ disk'["live"] = disk["live"]
         /\ disk["temp"].dirs \subseteq disk'["temp"].dirs
         /\ Closed(disk'["temp"])
         /\ \A g \in Files : disk'["temp"].file[g] =
              IF g = f THEN content ELSE disk["temp"].file[g]
<1>1. PICK f \in Files : Current.to = {f} /\ Current.from \in Files /\ Current.op = "copy"
  BY CurrentType DEF CopyOver, AtConfig
<1>2. disk' = Put(WithDir(DirOf[f]), f, content)
  BY <1>1 DEF CopyOver
<1>3. /\ disk \in Disks /\ content \in Content /\ DirOf[f] \in Dirs
  BY <1>1 DEF TypeOK, Disks, InputsAssumption
<1>4. /\ WithDir(DirOf[f]) \in Disks /\ Closed(WithDir(DirOf[f])["temp"])
      /\ DirOf[f] \in WithDir(DirOf[f])["temp"].dirs
      /\ WithDir(DirOf[f])["live"] = disk["live"]
      /\ WithDir(DirOf[f])["temp"].file = disk["temp"].file
      /\ disk["temp"].dirs \subseteq WithDir(DirOf[f])["temp"].dirs
  BY <1>3, WithDirEffect
<1>5. /\ disk' \in Disks
      /\ disk'["live"] = disk["live"]
      /\ disk["temp"].dirs \subseteq disk'["temp"].dirs
      /\ Closed(disk'["temp"])
      /\ \A g \in Files : disk'["temp"].file[g] =
           IF g = f THEN content ELSE disk["temp"].file[g]
  BY <1>2, <1>3, <1>4, PutEffect
<1> QED BY <1>1, <1>5

\* The directories that go with a path.
DirsBelow(p) == IF p \in Dirs THEN Within[p] ELSE {}

\* A removal takes all below its path and the directories; or, where a file cannot
\* be removed, some of the files.
LEMMA RemovedEffect ==
  ASSUME InputsAssumption, TypeOK, AtConfig, phase = "paths", NEW root \in Roots, Removed(root)
  PROVE  /\ Current.op = "remove"
         /\ disk' \in Disks
         /\ \A r \in Roots \ {root} : disk'[r] = disk[r]
         /\ \E gone \in SUBSET Below(Current.from), dirs \in SUBSET Dirs :
              /\ disk'[root].dirs = disk[root].dirs \ dirs
              /\ \A f \in Files : disk'[root].file[f] = IF f \in gone THEN NoFile
                                                      ELSE disk[root].file[f]
              /\ \/ /\ dirs = DirsBelow(Current.from)
                    /\ \A f \in Below(Current.from) : disk'[root].file[f] = NoFile
                    /\ {f \in Below(Current.from) : disk[root].file[f] # NoFile}
                          \cap Unremovable = {}
                 \/ /\ dirs = {} /\ gone \cap Unremovable = {}
                    /\ {f \in Below(Current.from) : disk[root].file[f] # NoFile}
                          \cap Unremovable # {}
<1>1. Current.op = "remove" /\ Current.from \in Files \cup Dirs /\ disk \in Disks
  BY CurrentType DEF Removed, AtConfig, TypeOK, Disks
<1> DEFINE path == Current.from
           there == {f \in Below(path) : disk[root].file[f] # NoFile}
           Without(gone, dirs) ==
             [disk EXCEPT ![root] =
                [dirs |-> disk[root].dirs \ dirs,
                 file |-> [f \in Files |-> IF f \in gone THEN NoFile ELSE disk[root].file[f]]]]
<1>2. Below(path) \subseteq Files /\ DirsBelow(path) \subseteq Dirs
  BY <1>1, BelowType DEF DirsBelow, InputsAssumption
<1>3. ASSUME NEW gone \in SUBSET Below(path), NEW dirs \in SUBSET Dirs,
             disk' = Without(gone, dirs)
      PROVE  /\ disk' \in Disks
             /\ \A r \in Roots \ {root} : disk'[r] = disk[r]
             /\ disk'[root].dirs = disk[root].dirs \ dirs
             /\ \A f \in Files : disk'[root].file[f] = IF f \in gone THEN NoFile
                                                     ELSE disk[root].file[f]
  <2>1. NoFile \in Content
    BY DEF NoFile, Content
  <2>2. /\ disk[root].dirs \subseteq Dirs
        /\ \A f \in Files : disk[root].file[f] \in Content
    BY <1>1 DEF Disks
  <2>3. [f \in Files |-> IF f \in gone THEN NoFile ELSE disk[root].file[f]] \in [Files -> Content]
    BY <2>1, <2>2
  <2> QED BY <1>1, <1>3, <2>2, <2>3 DEF Disks
<1>4. CASE there \cap Unremovable = {}
  <2>1. disk' = Without(there, DirsBelow(path))
    BY <1>4 DEF Removed, DirsBelow
  <2>2. there \in SUBSET Below(path) /\ DirsBelow(path) \in SUBSET Dirs
    BY <1>2
  <2> HIDE DEF Without, there
  <2>3. /\ disk' \in Disks
        /\ \A r \in Roots \ {root} : disk'[r] = disk[r]
        /\ disk'[root].dirs = disk[root].dirs \ DirsBelow(path)
        /\ \A f \in Files : disk'[root].file[f] = IF f \in there THEN NoFile
                                                ELSE disk[root].file[f]
    BY <1>3, <2>1, <2>2
  <2>4. \A f \in Below(path) : f \notin there => disk[root].file[f] = NoFile
    BY DEF there
  <2>5. \A f \in Below(path) : disk'[root].file[f] = NoFile
    BY <1>2, <2>3, <2>4
  <2>6. {f \in Below(path) : disk[root].file[f] # NoFile} \cap Unremovable = {}
    BY <1>4 DEF there
  <2> QED BY <1>1, <2>2, <2>3, <2>5, <2>6
<1>5. CASE there \cap Unremovable # {}
  <2>1. PICK gone \in SUBSET (there \ Unremovable) : disk' = Without(gone, {})
    BY <1>5 DEF Removed
  <2>2. gone \in SUBSET Below(path) /\ {} \in SUBSET Dirs /\ gone \cap Unremovable = {}
    OBVIOUS
  <2> HIDE DEF Without, there
  <2>3. there = {f \in Below(path) : disk[root].file[f] # NoFile}
    BY DEF there
  <2> QED BY <1>1, <1>3, <1>5, <2>1, <2>2, <2>3
<1> QED BY <1>4, <1>5

-----------------------------------------------------------------------------
(* The steps *)

LEMMA InitHolds ==
  ASSUME InputsAssumption, Init
  PROVE  IInv
<1>1. TypeOK
  BY DEF Init, TypeOK, NoDisk, NoFile, Content
<1>2. /\ \A f \in Files : disk["temp"].file[f] = NoFile
      /\ disk["temp"].dirs = {}
  BY DEF Init, NoDisk, Roots
<1>3. AtConfig
  BY <1>1, ListType DEF Init, AtConfig
<1>4. ClosedInv /\ StaleInv /\ TornInv
  BY <1>2 DEF ClosedInv, Closed, StaleInv, TornInv, NoFile
<1>5. MadeInv /\ Published
  BY DEF Init, MadeInv, Published, PublishedIsProgram, StaleIsCopied, TornIsTolerated
<1>6. ProgressInv
  <2>1. There = {} /\ LeftBy(program, 0) = {}
    BY <1>2 DEF There, LeftBy
  <2> QED BY <2>1 DEF ProgressInv, Init
<1> QED BY <1>1, <1>3, <1>4, <1>5, <1>6 DEF IInv

\* A run that ended unpublished promises nothing.
LEMMA Ending ==
  ASSUME InputsAssumption, IInv, phase' \in {"failed", "dropped"}, UNCHANGED <<run, program, next>>,
         found' \subseteq Roots, todo' \subseteq Files, ensured' \subseteq Dirs, disk' \in Disks
  PROVE  IInv'
BY DEF IInv, TypeOK, Disks, AtConfig, ClosedInv, StaleInv, TornInv, MadeInv, ProgressInv, Busy,
  Published, PublishedIsProgram, StaleIsCopied, TornIsTolerated

LEMMA DropStep ==
  ASSUME InputsAssumption, IInv, Drop \/ AttributeFails
  PROVE  IInv'
<1>1. phase' \in {"failed", "dropped"} /\ UNCHANGED <<run, program, next, found, todo, ensured, disk>>
  BY DEF Drop, AttributeFails
<1> QED BY <1>1, Ending DEF IInv, TypeOK, Disks

LEMMA NextConfigStep ==
  ASSUME InputsAssumption, IInv, NextConfig
  PROVE  IInv'
<1>1. /\ next <= Len(program) /\ next \in 1 .. Len(program) /\ Current = program[next]
      /\ Current.op \in Ops /\ Current.to \subseteq Files
  BY CurrentType DEF NextConfig, IInv, AtConfig
<1>2. /\ phase' = "config" /\ next' = next + 1 /\ phase \in {"paths", "writing"}
      /\ UNCHANGED <<run, program, found, todo, ensured, disk>>
  BY DEF NextConfig
<1>3. TypeOK' /\ AtConfig'
  BY <1>1, <1>2, ListType DEF IInv, TypeOK, AtConfig
<1>4. ClosedInv' /\ StaleInv' /\ TornInv'
  BY <1>2 DEF IInv, ClosedInv, StaleInv, TornInv, Busy, Closed
<1>5. MadeInv'
  BY <1>1, <1>2 DEF IInv, MadeInv, Busy, Begun, TakenAway
<1>6. ProgressInv'
  <2> SUFFICES ASSUME Strict(program)
               PROVE  There' = LeftBy(program, next) \ Unremovable
    BY <1>1, <1>2 DEF ProgressInv
  <2>1. There' = There
    BY <1>2 DEF There
  <2>2. CASE phase = "writing"
    BY <2>1, <2>2 DEF IInv, ProgressInv, NextConfig, Busy
  <2>3. CASE phase = "paths"
    <3>1. found = {} /\ Current.op \in {"copy", "remove"}
      BY <1>1, <2>3 DEF NextConfig, IInv, AtConfig, Ops, Writes
    <3> QED BY <2>1, <2>3, <3>1 DEF IInv, ProgressInv, Busy
  <2> QED BY <1>2, <2>2, <2>3
<1>7. Published'
  BY <1>2 DEF Published, PublishedIsProgram, StaleIsCopied, TornIsTolerated
<1> QED BY <1>3, <1>4, <1>5, <1>6, <1>7 DEF IInv

LEMMA PublishStep ==
  ASSUME InputsAssumption, IInv, Publish
  PROVE  IInv'
<1>1. /\ phase = "config" /\ next = Len(program) + 1 /\ phase' = "published"
      /\ UNCHANGED <<run, program, next, found, todo, ensured>>
      /\ disk \in Disks /\ disk' = [disk EXCEPT !["live"] = disk["temp"]]
  BY ListType DEF Publish, Compiled, IInv, AtConfig, TypeOK, Disks
<1>2. disk' \in Disks /\ disk'["live"] = disk["temp"]
  BY <1>1 DEF Disks, Roots
<1>3. TypeOK' /\ AtConfig' /\ ClosedInv' /\ StaleInv' /\ TornInv' /\ MadeInv' /\ ProgressInv'
  BY <1>1, <1>2 DEF IInv, TypeOK, Disks, AtConfig, ClosedInv, StaleInv, TornInv, MadeInv,
    ProgressInv, Busy
<1>4. PublishedIsProgram'
  <2> SUFFICES ASSUME Strict(program)
               PROVE  There = Left(program) \ Unremovable
    BY <1>1, <1>2 DEF PublishedIsProgram, There
  <2>1. There = LeftBy(program, Len(program)) \ Unremovable
    BY <1>1, ListType DEF IInv, ProgressInv, Busy
  <2>2. ASSUME NEW f \in Files, NEW i \in 1 .. Len(program)
        PROVE  (\A j \in i + 1 .. Len(program) :
                  ~ (program[j].op = "remove" /\ f \in Below(program[j].from)))
               <=> (\A j \in 1 .. Len(program) : j > i =>
                      ~ (program[j].op = "remove" /\ f \in Below(program[j].from)))
    BY ListType DEF IInv
  <2>3. LeftBy(program, Len(program)) = Left(program)
    BY <2>2, ListType DEF Left, LeftBy, IInv
  <2> QED BY <2>1, <2>3
<1>5. StaleIsCopied' /\ TornIsTolerated'
  BY <1>1, <1>2 DEF IInv, StaleInv, TornInv, Busy, StaleIsCopied, TornIsTolerated
<1> QED BY <1>3, <1>4, <1>5 DEF IInv, Published

LEMMA PublishNothingStep ==
  ASSUME InputsAssumption, IInv, PublishNothing
  PROVE  IInv'
<1>1. NoDisk \in [dirs : SUBSET Dirs, file : [Files -> Content]]
  BY DEF NoDisk, NoFile, Content
<1>2. disk' \in Disks
  BY <1>1 DEF PublishNothing, Disks, IInv, TypeOK
<1>3. /\ phase' = "failed" /\ UNCHANGED <<run, program, next, found, todo, ensured>>
  BY DEF PublishNothing
<1> QED BY <1>2, <1>3, Ending DEF IInv, TypeOK

LEMMA NextRunStep ==
  ASSUME InputsAssumption, IInv, NextRun
  PROVE  IInv'
<1>1. /\ phase' = "config" /\ next' = 1 /\ found' = {} /\ todo' = {} /\ ensured' = {}
      /\ run' = run + 1 /\ program' \in Programs
      /\ disk' = [disk EXCEPT !["temp"] = NoDisk]
  BY DEF NextRun, Restarted
<1>2. NoDisk \in [dirs : SUBSET Dirs, file : [Files -> Content]]
  BY DEF NoDisk, NoFile, Content
<1>3. disk' \in Disks /\ disk'["temp"] = NoDisk
  BY <1>1, <1>2 DEF Disks, Roots, IInv, TypeOK
<1>4. TypeOK'
  BY <1>1, <1>3 DEF IInv, TypeOK, Disks
<1>5. AtConfig'
  BY <1>1 DEF AtConfig, InputsAssumption
<1>6. /\ \A f \in Files : disk'["temp"].file[f] = NoFile
      /\ disk'["temp"].dirs = {}
  BY <1>3 DEF NoDisk
<1>7. ClosedInv' /\ StaleInv' /\ TornInv'
  BY <1>3, <1>6 DEF ClosedInv, Closed, StaleInv, TornInv, NoFile, NoDisk
<1>8. MadeInv' /\ Published'
  BY <1>1 DEF MadeInv, Published, PublishedIsProgram, StaleIsCopied, TornIsTolerated
<1>9. ProgressInv'
  <2>1. There' = {} /\ LeftBy(program', 0) = {}
    BY <1>6 DEF There, LeftBy
  <2> QED BY <1>1, <2>1 DEF ProgressInv
<1> QED BY <1>4, <1>5, <1>7, <1>8, <1>9 DEF IInv

LEMMA Stuttering ==
  ASSUME InputsAssumption, IInv, UNCHANGED vars
  PROVE  IInv'
<1>1. TypeOK' /\ AtConfig' /\ ClosedInv' /\ StaleInv' /\ TornInv'
  BY DEF IInv, vars, TypeOK, AtConfig, Current, ClosedInv, Closed, StaleInv, TornInv
<1>2. MadeInv' /\ ProgressInv'
  BY DEF IInv, vars, MadeInv, Current, Begun, ProgressInv, There
<1>3. Published'
  BY DEF IInv, vars, Published, PublishedIsProgram, StaleIsCopied, TornIsTolerated
<1> QED BY <1>1, <1>2, <1>3 DEF IInv

-----------------------------------------------------------------------------
(* The steps of a config *)

\* The directory of the config at hand is made, or was made by this process.
LEMMA Making ==
  ASSUME InputsAssumption, IInv, next <= Len(program), phase \in Busy,
         ensured' = ensured \cup {Current.dir},
         disk["temp"].dirs \subseteq disk'["temp"].dirs,
         Current.dir \in ensured \cup disk'["temp"].dirs
  PROVE  \A d \in ensured' :
           /\ \E i \in 1 .. next : program[i].dir = d
           /\ d \in disk'["temp"].dirs \/ TakenAway(program, d, next)
<1>1. next \in 1 .. Len(program) /\ Current = program[next] /\ Len(program) \in Nat
  BY CurrentType, ListType DEF IInv
<1>2. Begun \in Nat /\ Begun <= next
  BY <1>1 DEF Begun
<1>3. ASSUME NEW d \in ensured
      PROVE  /\ \E i \in 1 .. next : program[i].dir = d
             /\ d \in disk'["temp"].dirs \/ TakenAway(program, d, next)
  <2>1. /\ \E i \in 1 .. Begun : program[i].dir = d
        /\ d \in disk["temp"].dirs \/ TakenAway(program, d, Begun)
    BY DEF IInv, MadeInv
  <2>2. TakenAway(program, d, Begun) => TakenAway(program, d, next)
    BY <1>1, <1>2 DEF TakenAway
  <2> QED BY <1>1, <1>2, <2>1, <2>2
<1>4. Current.dir \notin ensured =>
        /\ \E i \in 1 .. next : program[i].dir = Current.dir
        /\ Current.dir \in disk'["temp"].dirs
  BY <1>1
<1> QED BY <1>3, <1>4

\* A config raises: a strict list has ended.
LEMMA Raising ==
  ASSUME InputsAssumption, IInv, next <= Len(program), phase \in Busy, Raise(Current),
         UNCHANGED <<run, program>>, found' \subseteq Roots, todo' \subseteq Files,
         disk' \in Disks, ensured' = ensured \cup {Current.dir},
         disk["temp"].dirs \subseteq disk'["temp"].dirs,
         Current.dir \in ensured \cup disk'["temp"].dirs,
         ClosedInv', StaleInv', TornInv'
  PROVE  IInv'
<1>1. /\ next \in 1 .. Len(program) /\ Current = program[next] /\ Current.dir \in Dirs
      /\ Len(program) \in Nat /\ next \in DOMAIN program
  BY CurrentType, ListType DEF IInv
<1>2. ensured' \subseteq Dirs
  BY <1>1 DEF IInv, TypeOK
<1>3. CASE ~ Current.continue_on_compile_error
  BY <1>2, <1>3, Ending DEF Raise
<1>4. CASE Current.continue_on_compile_error
  <2>1. phase' = "config" /\ next' = next + 1
    BY <1>4 DEF Raise
  <2>2. TypeOK' /\ AtConfig'
    BY <1>1, <1>2, <2>1 DEF IInv, TypeOK, Disks, AtConfig
  <2>3. MadeInv'
    BY <1>1, <2>1, Making DEF MadeInv, Begun, Busy
  <2>4. ~ Strict(program)
    BY <1>1, <1>4 DEF Strict
  <2>5. ProgressInv' /\ Published'
    BY <2>1, <2>4 DEF ProgressInv, Published, PublishedIsProgram, StaleIsCopied, TornIsTolerated
  <2> QED BY <2>2, <2>3, <2>5 DEF IInv
<1> QED BY <1>3, <1>4

\* Files that are as they were leave the invariants about them.
LEMMA SameFiles ==
  ASSUME InputsAssumption, IInv, phase \in Busy, UNCHANGED <<run, program>>,
         disk'["temp"].file = disk["temp"].file
  PROVE  StaleInv' /\ TornInv' /\ There' = There
BY DEF IInv, StaleInv, TornInv, There

\* compile_obj makes the output directory before it looks for the input.
LEMMA EnsuredEffect ==
  ASSUME InputsAssumption, IInv, next <= Len(program), phase = "config",
         disk' = Ensured(Current.dir)
  PROVE  /\ disk' \in Disks /\ disk'["live"] = disk["live"]
         /\ disk'["temp"].file = disk["temp"].file
         /\ disk["temp"].dirs \subseteq disk'["temp"].dirs
         /\ Current.dir \in ensured \cup disk'["temp"].dirs
         /\ Closed(disk'["temp"])
<1>1. Current.dir \in Dirs /\ disk \in Disks /\ Closed(disk["temp"])
  BY CurrentType DEF IInv, TypeOK, Disks, ClosedInv, Busy
<1>2. CASE Current.dir \in ensured
  BY <1>1, <1>2 DEF Ensured
<1>3. CASE Current.dir \notin ensured
  <2>1. disk' = WithDir(Current.dir)
    BY <1>3 DEF Ensured
  <2> QED BY <1>1, <2>1, WithDirEffect
<1> QED BY <1>2, <1>3

\* What is not there has nothing below it.
LEMMA NothingBelow ==
  ASSUME InputsAssumption, TypeOK, Closed(disk["temp"]), NEW path \in Files \cup Dirs,
         ~ Exists("temp", path)
  PROVE  There \cap Below(path) = {}
<1>1. CASE path \in Files
  BY <1>1 DEF Exists, Below, There, InputsAssumption
<1>2. CASE path \in Dirs
  <2> SUFFICES ASSUME NEW f \in Files, disk["temp"].file[f] # NoFile, DirOf[f] \in Within[path]
               PROVE  FALSE
    BY <1>2 DEF Below, There
  <2>1. DirOf[f] \in disk["temp"].dirs
    BY DEF Closed
  <2>2. path \in disk["temp"].dirs
    BY <1>2, <2>1 DEF Closed
  <2> QED BY <1>2, <2>2 DEF Exists
<1> QED BY <1>1, <1>2

LEMMA ExpandStep ==
  ASSUME InputsAssumption, IInv, Expand
  PROVE  IInv'
<1>1. /\ next <= Len(program) /\ phase = "config" /\ phase \in Busy
      /\ disk' = Ensured(Current.dir) /\ ensured' = ensured \cup {Current.dir}
      /\ UNCHANGED <<run, program, todo>>
  BY DEF Expand, Busy
<1>2. /\ next \in 1 .. Len(program) /\ next \in DOMAIN program /\ Current = program[next]
      /\ Current.op \in Ops /\ Current.from \in Files \cup Dirs /\ Current.to \subseteq Files
      /\ Current.dir \in Dirs
      /\ Current.op = "copy" => Current.from \in Files
  BY <1>1, CurrentType DEF IInv
<1>3. /\ disk' \in Disks /\ disk'["live"] = disk["live"]
      /\ disk'["temp"].file = disk["temp"].file
      /\ disk["temp"].dirs \subseteq disk'["temp"].dirs
      /\ Current.dir \in ensured \cup disk'["temp"].dirs
      /\ Closed(disk'["temp"])
  BY <1>1, EnsuredEffect
<1>4. ClosedInv' /\ StaleInv' /\ TornInv' /\ There' = There
  BY <1>1, <1>3, SameFiles DEF ClosedInv
<1>5. Expanded(Current) \subseteq Roots
  BY DEF Expanded, Roots
<1>6. CASE /\ Expanded(Current) # {} \/ Current.ignore_missing
           /\ found' = Expanded(Current) /\ phase' = "paths" /\ UNCHANGED next
  <2>1. Current' = Current
    BY <1>1, <1>6 DEF Current
  <2>2. TypeOK'
    BY <1>1, <1>2, <1>3, <1>5, <1>6 DEF IInv, TypeOK, Disks
  <2>3. AtConfig'
    BY <1>1, <1>6, <2>1 DEF AtConfig, Expanded, Writes
  <2>4. MadeInv'
    BY <1>1, <1>3, <1>6, <2>1, Making DEF MadeInv, Begun
  <2>5. ProgressInv'
    <3> SUFFICES ASSUME Strict(program)
                 PROVE  ProgressInv'
      BY <1>1 DEF ProgressInv
    <3>1. There' = LeftBy(program, next - 1) \ Unremovable
      BY <1>1, <1>4 DEF IInv, ProgressInv
    <3>2. Expanded(Current) # {}
      BY <1>2, <1>6 DEF Strict
    <3>3. CASE Current.op \in Writes
      BY <1>1, <1>6, <2>1, <3>1, <3>3 DEF ProgressInv, Writes
    <3>4. CASE Current.op = "copy"
      <4>1. \A r \in found' : disk'[r].file[Current.from] # NoFile
        BY <1>2, <1>3, <1>6, <3>4 DEF Expanded, Exists, Roots, InputsAssumption
      <4>2. LeftBy(program, next) = LeftBy(program, next - 1) \cup Current.to
        BY <1>2, <3>4, LeftByWriting DEF IInv
      <4> QED BY <1>1, <1>6, <2>1, <3>1, <3>2, <3>4, <4>1, <4>2 DEF ProgressInv, Writes
    <3>5. CASE Current.op = "remove"
      <4>1. LeftBy(program, next) = LeftBy(program, next - 1) \ Below(Current.from)
        BY <1>2, <3>5, LeftByRemoving DEF IInv
      <4>2. "temp" \notin found' => There \cap Below(Current.from) = {}
        BY <1>1, <1>2, <1>6, <3>5, NothingBelow DEF Expanded, Roots, IInv, ClosedInv
      <4>3. There' \ (IF "temp" \in found' THEN Below(Current.from) ELSE {}) =
              LeftBy(program, next) \ Unremovable
        BY <1>4, <3>1, <4>1, <4>2
      <4> QED BY <1>1, <1>6, <2>1, <3>5, <4>3 DEF ProgressInv, Writes
    <3> QED BY <1>2, <3>3, <3>4, <3>5 DEF Ops, Writes
  <2>6. Published'
    BY <1>6 DEF Published, PublishedIsProgram, StaleIsCopied, TornIsTolerated
  <2> QED BY <1>4, <2>2, <2>3, <2>4, <2>5, <2>6 DEF IInv
<1>7. CASE Raise(Current) /\ UNCHANGED found
  BY <1>1, <1>3, <1>4, <1>7, Raising DEF IInv, TypeOK
<1> QED BY <1>6, <1>7 DEF Expand

LEMMA RenderStep ==
  ASSUME InputsAssumption, IInv, Render
  PROVE  IInv'
<1>1. /\ phase = "paths" /\ phase \in Busy /\ next <= Len(program) /\ phase' = "writing"
      /\ Current.op \in Writes /\ found' = {} /\ todo' = Current.to
      /\ UNCHANGED <<run, program, next, ensured, disk>>
  BY DEF Render, IInv, AtConfig, Busy, Writes
<1>2. /\ next \in 1 .. Len(program) /\ Current = program[next] /\ Current.to \subseteq Files
  BY <1>1, CurrentType DEF IInv
<1>3. Current' = Current
  BY <1>1 DEF Current
<1>4. TypeOK' /\ AtConfig' /\ ClosedInv'
  BY <1>1, <1>2, <1>3 DEF IInv, TypeOK, AtConfig, ClosedInv, Closed, Busy
<1>5. StaleInv' /\ TornInv' /\ There' = There
  BY <1>1, SameFiles
<1>6. MadeInv'
  BY <1>1, <1>3 DEF IInv, MadeInv, Begun
<1>7. ProgressInv'
  <2>1. LeftBy(program, next) = LeftBy(program, next - 1) \cup Current.to
    BY <1>1, <1>2, LeftByWriting DEF IInv, Writes
  <2> QED BY <1>1, <1>5, <2>1 DEF IInv, ProgressInv
<1>8. Published'
  BY <1>1 DEF Published, PublishedIsProgram, StaleIsCopied, TornIsTolerated
<1> QED BY <1>4, <1>5, <1>6, <1>7, <1>8 DEF IInv

LEMMA WriteFileStep ==
  ASSUME InputsAssumption, IInv, NEW f \in Files, WriteFile(f)
  PROVE  IInv'
<1>1. /\ phase = "writing" /\ phase \in Busy /\ next <= Len(program) /\ f \in todo
      /\ FileOf(f, TRUE) /\ todo' = todo \ {f}
      /\ UNCHANGED <<run, program, phase, next, found, ensured>>
  BY DEF WriteFile, IInv, AtConfig, Busy
<1>2. /\ disk' \in Disks
      /\ disk["temp"].dirs \subseteq disk'["temp"].dirs
      /\ Closed(disk'["temp"])
      /\ \A g \in Files : disk'["temp"].file[g] =
           IF g = f THEN [run |-> run, whole |-> TRUE] ELSE disk["temp"].file[g]
  BY <1>1, FileEffect DEF IInv, ClosedInv
<1>3. Current' = Current
  BY <1>1 DEF Current
<1>4. TypeOK' /\ AtConfig' /\ ClosedInv'
  BY <1>1, <1>2, <1>3 DEF IInv, TypeOK, Disks, AtConfig, ClosedInv
<1>5. StaleInv' /\ TornInv'
  BY <1>1, <1>2 DEF IInv, StaleInv, TornInv
<1>6. MadeInv'
  BY <1>1, <1>2, <1>3 DEF IInv, MadeInv, Begun, Busy
<1>7. ProgressInv'
  <2>1. There' = There \cup ({f} \ Unremovable)
    BY <1>2 DEF There, NoFile, IInv, TypeOK
  <2>2. There' \cup (todo' \ Unremovable) = There \cup (todo \ Unremovable)
    BY <1>1, <2>1
  <2> QED BY <1>1, <2>2 DEF IInv, ProgressInv
<1>8. Published'
  BY <1>1 DEF Published, PublishedIsProgram, StaleIsCopied, TornIsTolerated
<1> QED BY <1>4, <1>5, <1>6, <1>7, <1>8 DEF IInv

LEMMA CommandUnstartedStep ==
  ASSUME InputsAssumption, IInv, CommandUnstarted
  PROVE  IInv'
<1>1. /\ phase = "writing" /\ phase \in Busy /\ next <= Len(program) /\ todo' = {}
      /\ Current.op = "external"
      /\ UNCHANGED <<run, program, phase, next, found, ensured, disk>>
  BY DEF CommandUnstarted, IInv, AtConfig, Busy
<1>2. Current' = Current
  BY <1>1 DEF Current
<1>3. TypeOK' /\ AtConfig' /\ ClosedInv' /\ StaleInv' /\ TornInv' /\ MadeInv'
  BY <1>1, <1>2 DEF IInv, TypeOK, AtConfig, ClosedInv, Closed, StaleInv, TornInv, MadeInv, Begun
<1>4. ~ Strict(program)
  BY <1>1, CurrentType DEF Strict, IInv
<1>5. ProgressInv' /\ Published'
  BY <1>1, <1>4 DEF ProgressInv, Published, PublishedIsProgram, StaleIsCopied, TornIsTolerated
<1> QED BY <1>3, <1>5 DEF IInv

LEMMA RenderFailsStep ==
  ASSUME InputsAssumption, IInv, RenderFails
  PROVE  IInv'
<1>1. /\ phase = "writing" /\ phase \in Busy /\ next <= Len(program) /\ todo' = {}
      /\ Raise(Current) /\ Current.dir \in ensured
      /\ UNCHANGED <<run, program, found, ensured>>
  BY DEF RenderFails, IInv, AtConfig, MadeInv, Busy
<1>2. next \in DOMAIN program /\ Current = program[next]
  BY <1>1, CurrentType DEF IInv
<1>3. CASE UNCHANGED disk
  <2>1. ClosedInv' /\ StaleInv' /\ TornInv'
    BY <1>1, <1>3, SameFiles DEF IInv, ClosedInv, Closed
  <2> QED BY <1>1, <1>3, <2>1, Raising DEF IInv, TypeOK, Disks
<1>4. CASE \E f \in todo : FileOf(f, FALSE)
  <2>1. PICK f \in todo : FileOf(f, FALSE)
    BY <1>4
  <2>2. f \in Files /\ f \in Current.to
    BY <1>1 DEF IInv, TypeOK, AtConfig
  <2>3. /\ disk' \in Disks
        /\ disk["temp"].dirs \subseteq disk'["temp"].dirs
        /\ Closed(disk'["temp"])
        /\ \A g \in Files : disk'["temp"].file[g] =
             IF g = f THEN [run |-> run, whole |-> FALSE] ELSE disk["temp"].file[g]
    BY <1>1, <2>1, <2>2, FileEffect DEF IInv, ClosedInv
  <2>4. ClosedInv' /\ StaleInv'
    BY <1>1, <2>3 DEF IInv, ClosedInv, StaleInv
  <2>5. TornInv'
    BY <1>1, <1>2, <2>2, <2>3 DEF IInv, TornInv, Raise, Busy
  <2> QED BY <1>1, <2>3, <2>4, <2>5, Raising DEF IInv, TypeOK
<1> QED BY <1>3, <1>4 DEF RenderFails

LEMMA CopyFailsStep ==
  ASSUME InputsAssumption, IInv, CopyFails
  PROVE  IInv'
<1>1. /\ phase = "paths" /\ phase \in Busy /\ next <= Len(program) /\ found' = {}
      /\ Raise(Current) /\ Current.dir \in ensured /\ Current.op = "copy"
      /\ UNCHANGED <<run, program, todo, ensured>> /\ found \subseteq Roots
  BY DEF CopyFails, IInv, TypeOK, AtConfig, MadeInv, Busy
<1>2. next \in DOMAIN program /\ Current = program[next]
  BY <1>1, CurrentType DEF IInv
<1>3. CASE UNCHANGED disk
  <2>1. ClosedInv' /\ StaleInv' /\ TornInv'
    BY <1>1, <1>3, SameFiles DEF IInv, ClosedInv, Closed
  <2> QED BY <1>1, <1>3, <2>1, Raising DEF IInv, TypeOK, Disks
<1>4. CASE \E root \in found : CopyOver([disk[root].file[Current.from] EXCEPT !.whole = FALSE])
  <2>1. PICK root \in found : CopyOver([disk[root].file[Current.from] EXCEPT !.whole = FALSE])
    BY <1>4
  <2> DEFINE cut == [disk[root].file[Current.from] EXCEPT !.whole = FALSE]
  <2>2. cut \in Content
    BY <1>1, <2>1, CopiedFrom DEF IInv
  <2>3. PICK f \in Files :
        /\ Current.to = {f}
        /\ disk' \in Disks
        /\ disk["temp"].dirs \subseteq disk'["temp"].dirs
        /\ Closed(disk'["temp"])
        /\ \A g \in Files : disk'["temp"].file[g] = IF g = f THEN cut ELSE disk["temp"].file[g]
    BY <1>1, <2>1, <2>2, CopiedEffect DEF IInv, ClosedInv
  <2> HIDE DEF cut
  <2>4. ClosedInv' /\ StaleInv' /\ TornInv'
    BY <1>1, <1>2, <2>3 DEF IInv, ClosedInv, StaleInv, TornInv, Raise, Busy
  <2> QED BY <1>1, <2>3, <2>4, Raising DEF IInv, TypeOK
<1> QED BY <1>3, <1>4 DEF CopyFails

LEMMA CopiedStep ==
  ASSUME InputsAssumption, IInv, NEW root \in Roots, CompileFile(root), Copied(root)
  PROVE  IInv'
<1>1. /\ phase = "paths" /\ phase \in Busy /\ next <= Len(program) /\ root \in found
      /\ found' = found \ {root}
      /\ UNCHANGED <<run, program, phase, next, todo, ensured>>
  BY DEF CompileFile, IInv, AtConfig, Busy
<1>2. /\ next \in DOMAIN program /\ Current = program[next]
  BY <1>1, CurrentType DEF IInv
<1>3. PICK f \in Files :
        /\ Current.to = {f} /\ Current.from \in Files /\ Current.op = "copy"
        /\ disk' \in Disks
        /\ disk'["live"] = disk["live"]
        /\ disk["temp"].dirs \subseteq disk'["temp"].dirs
        /\ Closed(disk'["temp"])
        /\ \A g \in Files : disk'["temp"].file[g] =
             IF g = f THEN disk[root].file[Current.from] ELSE disk["temp"].file[g]
  <2>1. disk[root].file[Current.from] \in Content
    BY <1>1, CopiedFrom DEF IInv, Copied, CopyOver
  <2> QED BY <1>1, <2>1, CopiedEffect DEF Copied, IInv, ClosedInv
<1>4. Current' = Current
  BY <1>1 DEF Current
<1>5. TypeOK' /\ AtConfig' /\ ClosedInv'
  BY <1>1, <1>3, <1>4 DEF IInv, TypeOK, Disks, AtConfig, ClosedInv, Writes
<1>6. StaleInv' /\ TornInv'
  BY <1>1, <1>2, <1>3 DEF IInv, StaleInv, TornInv
<1>7. MadeInv'
  BY <1>1, <1>3, <1>4 DEF IInv, MadeInv, Begun, Busy
<1>8. ProgressInv'
  <2> SUFFICES ASSUME Strict(program)
               PROVE  /\ \A r \in found' : disk'[r].file[Current.from] # NoFile
                      /\ There' \cup ((IF found' = {} THEN {} ELSE Current.to) \ Unremovable) =
                           LeftBy(program, next) \ Unremovable
    BY <1>1, <1>3, <1>4 DEF ProgressInv, Writes
  <2>1. /\ \A r \in found : disk[r].file[Current.from] # NoFile
        /\ There \cup ({f} \ Unremovable) = LeftBy(program, next) \ Unremovable
    BY <1>1, <1>3 DEF IInv, ProgressInv
  <2>2. There' = There \cup ({f} \ Unremovable)
    BY <1>1, <1>3, <2>1 DEF There
  <2>3. \A r \in found' : disk'[r].file[Current.from] # NoFile
    BY <1>1, <1>3, <2>1 DEF Roots, IInv, TypeOK
  <2> QED BY <1>3, <2>1, <2>2, <2>3
<1>9. Published'
  BY <1>1 DEF Published, PublishedIsProgram, StaleIsCopied, TornIsTolerated
<1> QED BY <1>5, <1>6, <1>7, <1>8, <1>9 DEF IInv

LEMMA RemovedStep ==
  ASSUME InputsAssumption, IInv, NEW root \in Roots, CompileFile(root), Removed(root)
  PROVE  IInv'
<1>1. /\ phase = "paths" /\ phase \in Busy /\ next <= Len(program) /\ root \in found
      /\ found' = found \ {root}
      /\ UNCHANGED <<run, program, phase, next, todo, ensured>>
  BY DEF CompileFile, IInv, AtConfig, Busy
<1>2. /\ next \in DOMAIN program /\ Current = program[next] /\ next \in 1 .. Len(program)
      /\ Current.from \in Files \cup Dirs
  BY <1>1, CurrentType DEF IInv
<1> DEFINE path == Current.from
<1>3. /\ Current.op = "remove"
      /\ disk' \in Disks
      /\ \A r \in Roots \ {root} : disk'[r] = disk[r]
      /\ \E gone \in SUBSET Below(path), dirs \in SUBSET Dirs :
           /\ disk'[root].dirs = disk[root].dirs \ dirs
           /\ \A f \in Files : disk'[root].file[f] = IF f \in gone THEN NoFile
                                                   ELSE disk[root].file[f]
           /\ \/ /\ dirs = DirsBelow(path)
                 /\ \A f \in Below(path) : disk'[root].file[f] = NoFile
                 /\ {f \in Below(path) : disk[root].file[f] # NoFile} \cap Unremovable = {}
              \/ /\ dirs = {} /\ gone \cap Unremovable = {}
                 /\ {f \in Below(path) : disk[root].file[f] # NoFile} \cap Unremovable # {}
  BY <1>1, RemovedEffect DEF IInv
<1>4. PICK gone \in SUBSET Below(path), dirs \in SUBSET Dirs :
           /\ disk'[root].dirs = disk[root].dirs \ dirs
           /\ \A f \in Files : disk'[root].file[f] = IF f \in gone THEN NoFile
                                                   ELSE disk[root].file[f]
           /\ \/ /\ dirs = DirsBelow(path)
                 /\ \A f \in Below(path) : disk'[root].file[f] = NoFile
                 /\ {f \in Below(path) : disk[root].file[f] # NoFile} \cap Unremovable = {}
              \/ /\ dirs = {} /\ gone \cap Unremovable = {}
                 /\ {f \in Below(path) : disk[root].file[f] # NoFile} \cap Unremovable # {}
  BY <1>3
<1>5. Current' = Current /\ (root = "temp" \/ disk'["temp"] = disk["temp"])
  BY <1>1, <1>3 DEF Current, Roots
<1>6. TypeOK' /\ AtConfig'
  BY <1>1, <1>3, <1>5 DEF IInv, TypeOK, Disks, AtConfig, Writes
<1>7. Closed(disk["temp"]) /\ disk["temp"].dirs \subseteq Dirs
  BY <1>1 DEF IInv, ClosedInv, TypeOK, Roots
<1>8. CASE root = "live"
  <2>1. disk'["temp"] = disk["temp"] /\ ("temp" \in found' <=> "temp" \in found)
    BY <1>1, <1>5, <1>8
  <2>2. ClosedInv' /\ MadeInv'
    BY <1>1, <1>5, <1>7, <2>1 DEF ClosedInv, Closed, IInv, MadeInv, Begun
  <2>3. StaleInv' /\ TornInv' /\ There' = There
    BY <1>1, <2>1, SameFiles
  <2>4. ProgressInv'
    BY <1>1, <1>3, <1>5, <2>1, <2>3 DEF IInv, ProgressInv, Writes
  <2> QED BY <1>1, <1>6, <2>2, <2>3, <2>4 DEF IInv, Published, PublishedIsProgram,
    StaleIsCopied, TornIsTolerated
<1>9. CASE root = "temp"
  <2>1. ClosedInv'
    <3>1. ASSUME NEW e \in disk'["temp"].dirs, NEW p \in Dirs, e \in Within[p]
          PROVE  p \in disk'["temp"].dirs
      <4>1. e \in disk["temp"].dirs /\ e \notin dirs /\ e \in Dirs /\ p \in disk["temp"].dirs
        BY <1>4, <1>7, <1>9, <3>1 DEF Closed
      <4>2. p \notin dirs
        BY <1>4, <3>1, <4>1, Transitive DEF DirsBelow
      <4> QED BY <1>4, <1>9, <4>1, <4>2
    <3>2. ASSUME NEW f \in Files, disk'["temp"].file[f] # NoFile
          PROVE  DirOf[f] \in disk'["temp"].dirs
      <4>1. disk["temp"].file[f] # NoFile /\ DirOf[f] \in disk["temp"].dirs
        BY <1>4, <1>7, <1>9, <3>2 DEF Closed
      <4>2. DirOf[f] \notin dirs
        BY <1>4, <1>9, <3>2 DEF DirsBelow, Below
      <4> QED BY <1>4, <1>9, <4>1, <4>2
    <3> QED BY <1>9, <3>1, <3>2 DEF ClosedInv, Closed
  <2>2. StaleInv' /\ TornInv'
    BY <1>1, <1>4, <1>9 DEF IInv, StaleInv, TornInv, NoFile
  <2>3. MadeInv'
    <3>1. ASSUME NEW d \in ensured
          PROVE  d \in disk'["temp"].dirs \/ TakenAway(program, d, next)
      <4>1. /\ \E i \in 1 .. next : program[i].dir = d
            /\ d \in disk["temp"].dirs \/ TakenAway(program, d, next)
        BY <1>1 DEF IInv, MadeInv, Begun
      <4>2. CASE d \in disk["temp"].dirs /\ d \in dirs
        <5>1. path \in Dirs /\ d \in Within[path]
          BY <1>4, <4>2 DEF DirsBelow
        <5> QED BY <1>2, <1>3, <4>1, <5>1 DEF TakenAway
      <4> QED BY <1>4, <1>9, <4>1, <4>2
    <3>2. \A d \in ensured : \E i \in 1 .. next : program[i].dir = d
      BY <1>1 DEF IInv, MadeInv, Begun
    <3> QED BY <1>1, <1>5, <3>1, <3>2 DEF IInv, MadeInv, Begun
  <2>4. ProgressInv'
    <3> SUFFICES ASSUME Strict(program)
                 PROVE  There' = LeftBy(program, next) \ Unremovable
      BY <1>1, <1>3, <1>5, <1>9 DEF ProgressInv, Writes
    <3>1. There \ Below(path) = LeftBy(program, next) \ Unremovable
      BY <1>1, <1>3, <1>9 DEF IInv, ProgressInv
    <3>2. path \in Files \/ Below(path) \cap Unremovable = {}
      BY <1>2, <1>3 DEF Strict
    <3>3. There' = There \ Below(path)
      <4>1. CASE \A f \in Below(path) : disk'[root].file[f] = NoFile
        BY <1>4, <1>9, <4>1 DEF There
      <4>2. CASE /\ gone \cap Unremovable = {}
                 /\ {f \in Below(path) : disk[root].file[f] # NoFile} \cap Unremovable # {}
        <5>1. Below(path) = {path} /\ path \in Unremovable /\ gone = {}
          BY <1>4, <3>2, <4>2 DEF Below, InputsAssumption
        <5> QED BY <1>4, <1>9, <5>1 DEF There
      <4> QED BY <1>4, <4>1, <4>2
    <3> QED BY <3>1, <3>3
  <2> QED BY <1>1, <1>6, <2>1, <2>2, <2>3, <2>4 DEF IInv, Published, PublishedIsProgram,
    StaleIsCopied, TornIsTolerated
<1> QED BY <1>8, <1>9 DEF Roots

LEMMA InvStep ==
  ASSUME InputsAssumption, IInv, [Next]_vars
  PROVE  IInv'
<1>1. CASE Expand
  BY <1>1, ExpandStep
<1>2. CASE Render
  BY <1>2, RenderStep
<1>3. CASE \E f \in Files : WriteFile(f)
  BY <1>3, WriteFileStep
<1>4. CASE CommandUnstarted
  BY <1>4, CommandUnstartedStep
<1>5. CASE RenderFails
  BY <1>5, RenderFailsStep
<1>6. CASE AttributeFails \/ Drop
  BY <1>6, DropStep
<1>7. CASE \E root \in Roots : CompileFile(root)
  BY <1>7, CopiedStep, RemovedStep DEF CompileFile
<1>8. CASE CopyFails
  BY <1>8, CopyFailsStep
<1>9. CASE NextConfig
  BY <1>9, NextConfigStep
<1>10. CASE Publish
  BY <1>10, PublishStep
<1>11. CASE PublishNothing
  BY <1>11, PublishNothingStep
<1>12. CASE NextRun
  BY <1>12, NextRunStep
<1>13. CASE Stop \/ UNCHANGED vars
  BY <1>13, Stuttering DEF Stop
<1> QED BY <1>1, <1>2, <1>3, <1>4, <1>5, <1>6, <1>7, <1>8, <1>9, <1>10, <1>11, <1>12, <1>13 DEF Next

\* A tool whose directory is missing lost it to a remove config before its own.
LEMMA LostToRemove ==
  ASSUME InputsAssumption, IInv  PROVE MissingWasRemoved
<1> SUFFICES ASSUME phase = "writing", Current.op = "tool", Current.dir \notin disk["temp"].dirs
             PROVE  \E j \in 1 .. next - 1 :
                      /\ program[j].op = "remove" /\ program[j].from \in Dirs
                      /\ Current.dir \in Within[program[j].from]
                      /\ \E i \in 1 .. j : program[i].dir = Current.dir
  BY DEF MissingWasRemoved
<1>1. next \in 1 .. Len(program) /\ Current = program[next] /\ Len(program) \in Nat
  BY CurrentType, ListType DEF IInv, AtConfig
<1>2. TakenAway(program, Current.dir, next)
  BY DEF IInv, MadeInv, Busy, Begun
<1>3. PICK j \in 1 .. next :
        /\ program[j].op = "remove" /\ program[j].from \in Dirs
        /\ Current.dir \in Within[program[j].from]
        /\ \E i \in 1 .. j : program[i].dir = Current.dir
  BY <1>2 DEF TakenAway
<1>4. j \in 1 .. next - 1
  BY <1>1, <1>3
<1> QED BY <1>3, <1>4

-----------------------------------------------------------------------------
(* What a run does to published output before it publishes *)

\* A removal takes what it names and what can be removed, of either directory.
LEMMA RemovedFromLive ==
  ASSUME InputsAssumption, IInv, phase = "paths", NEW root \in Roots, Removed(root),
         NEW f \in Files, disk'["live"].file[f] # disk["live"].file[f]
  PROVE  Current.op = "remove" /\ f \in Below(Current.from) \ Unremovable
<1>1. "live" \in Roots
  BY DEF Roots
<1>2. Current.op = "remove" /\ root = "live"
  BY <1>1, RemovedEffect DEF IInv
<1>3. PICK gone \in SUBSET Below(Current.from), dirs \in SUBSET Dirs :
        /\ disk'[root].dirs = disk[root].dirs \ dirs
        /\ \A g \in Files : disk'[root].file[g] = IF g \in gone THEN NoFile
                                                ELSE disk[root].file[g]
        /\ \/ /\ dirs = DirsBelow(Current.from)
              /\ \A g \in Below(Current.from) : disk'[root].file[g] = NoFile
              /\ {g \in Below(Current.from) : disk[root].file[g] # NoFile}
                    \cap Unremovable = {}
           \/ /\ dirs = {} /\ gone \cap Unremovable = {}
              /\ {g \in Below(Current.from) : disk[root].file[g] # NoFile}
                    \cap Unremovable # {}
  BY RemovedEffect, Zenon DEF IInv
<1>4. f \in gone /\ disk[root].file[f] # NoFile
  BY <1>2, <1>3
<1> QED BY <1>2, <1>3, <1>4

LEMMA LiveStep ==
  ASSUME InputsAssumption, IInv, [Next]_vars,
         NEW f \in Files, disk'["live"].file[f] # disk["live"].file[f]
  PROVE  Compiled \/ (Current.op = "remove" /\ f \in Below(Current.from) \ Unremovable)
<1>1. CASE Expand
  <2>1. next <= Len(program) /\ phase = "config" /\ disk' = Ensured(Current.dir)
    BY <1>1 DEF Expand
  <2> QED BY <2>1, EnsuredEffect
<1>2. ASSUME NEW g \in Files, WriteFile(g)
      PROVE  FALSE
  BY <1>2, FileEffect DEF WriteFile, IInv, ClosedInv, Busy
<1>3. CASE RenderFails
  <2>1. phase = "writing" /\ todo \subseteq Files
    BY <1>3 DEF RenderFails, IInv, TypeOK
  <2>2. PICK g \in Files : FileOf(g, FALSE)
    BY <1>3, <2>1 DEF RenderFails
  <2> QED BY <2>1, <2>2, FileEffect DEF IInv, ClosedInv, Busy
<1>4. ASSUME NEW root \in Roots, CompileFile(root)
      PROVE  Current.op = "remove" /\ f \in Below(Current.from) \ Unremovable
  <2>1. phase = "paths" /\ (Copied(root) \/ Removed(root))
    BY <1>4 DEF CompileFile
  <2>2. CASE Copied(root)
    BY <2>1, <2>2, CopiedFrom, CopiedEffect DEF Copied, CopyOver, IInv, AtConfig, ClosedInv, Busy
  <2>3. CASE Removed(root)
    BY <2>1, <2>3, RemovedFromLive
  <2> QED BY <2>1, <2>2, <2>3
<1>5. CASE Publish \/ PublishNothing
  BY <1>5 DEF Publish, PublishNothing
<1>6. CASE NextRun
  <2>1. disk \in Disks /\ disk' = [disk EXCEPT !["temp"] = NoDisk]
    BY <1>6 DEF NextRun, IInv, TypeOK, Disks
  <2> QED BY <2>1 DEF Disks, Roots
<1>7. CASE \/ Render \/ CommandUnstarted \/ AttributeFails \/ NextConfig \/ Drop
           \/ Stop \/ UNCHANGED vars
  BY <1>7 DEF Render, CommandUnstarted, AttributeFails, NextConfig, Drop, Stop, vars
<1>8. CASE CopyFails
  <2>1. PICK root \in found : CopyOver([disk[root].file[Current.from] EXCEPT !.whole = FALSE])
    BY <1>8 DEF CopyFails
  <2>2. /\ phase = "paths" /\ next <= Len(program) /\ Current.op = "copy" /\ root \in Roots
    BY <1>8, <2>1 DEF CopyFails, IInv, TypeOK, AtConfig
  <2>3. [disk[root].file[Current.from] EXCEPT !.whole = FALSE] \in Content
    BY <2>2, CopiedFrom DEF IInv
  <2> QED BY <2>1, <2>2, <2>3, CopiedEffect DEF IInv, ClosedInv, Busy
<1> QED BY <1>1, <1>2, <1>3, <1>4, <1>5, <1>6, <1>7, <1>8 DEF Next

-----------------------------------------------------------------------------
(* The theorems *)

\* Every state of a target's configs is well-typed.
THEOREM TypeCorrect ==
  ASSUME InputsAssumption  PROVE Spec => []TypeOK
<1>1. Init => IInv
  BY InitHolds
<1>2. IInv /\ [Next]_vars => IInv'
  BY InvStep
<1>3. IInv => TypeOK
  BY DEF IInv
<1> QED BY <1>1, <1>2, <1>3, PTL DEF Spec

\* The published files of a strict compile list are those it leaves, read in order,
\* whatever earlier runs published, failed at or left behind.
THEOREM PublishedIsProgramHolds ==
  ASSUME InputsAssumption  PROVE Spec => []PublishedIsProgram
<1>1. Init => IInv
  BY InitHolds
<1>2. IInv /\ [Next]_vars => IInv'
  BY InvStep
<1>3. IInv => PublishedIsProgram
  BY DEF IInv, Published
<1> QED BY <1>1, <1>2, <1>3, PTL DEF Spec

\* Only a copy config publishes again what an earlier run generated.
THEOREM StaleIsCopiedHolds ==
  ASSUME InputsAssumption  PROVE Spec => []StaleIsCopied
<1>1. Init => IInv
  BY InitHolds
<1>2. IInv /\ [Next]_vars => IInv'
  BY InvStep
<1>3. IInv => StaleIsCopied
  BY DEF IInv, Published
<1> QED BY <1>1, <1>2, <1>3, PTL DEF Spec

\* A file is published cut short only by a tolerated config or a copy.
THEOREM TornIsToleratedHolds ==
  ASSUME InputsAssumption  PROVE Spec => []TornIsTolerated
<1>1. Init => IInv
  BY InitHolds
<1>2. IInv /\ [Next]_vars => IInv'
  BY InvStep
<1>3. IInv => TornIsTolerated
  BY DEF IInv, Published
<1> QED BY <1>1, <1>2, <1>3, PTL DEF Spec

\* kustomize and cuelang miss their output directory only where a remove config of
\* the same list took it away.
THEOREM MissingWasRemovedHolds ==
  ASSUME InputsAssumption  PROVE Spec => []MissingWasRemoved
<1>1. Init => IInv
  BY InitHolds
<1>2. IInv /\ [Next]_vars => IInv'
  BY InvStep
<1>3. IInv => MissingWasRemoved
  BY LostToRemove
<1> QED BY <1>1, <1>2, <1>3, PTL DEF Spec

\* Before a run publishes, only remove configs touch what is published.
THEOREM PublishedStaysHolds ==
  ASSUME InputsAssumption  PROVE Spec => PublishedStays
<1>1. Init => IInv
  BY InitHolds
<1>2. IInv /\ [Next]_vars => IInv'
  BY InvStep
<1>3. IInv /\ [Next]_vars =>
        [\A f \in Files : disk'["live"].file[f] # disk["live"].file[f] =>
           Compiled \/ (Current.op = "remove" /\ f \in Below(Current.from) \ Unremovable)]_vars
  BY LiveStep
<1> QED BY <1>1, <1>2, <1>3, PTL DEF Spec, PublishedStays
=============================================================================
