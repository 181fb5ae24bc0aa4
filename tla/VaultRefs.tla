------------------------------ MODULE VaultRefs ------------------------------
(***************************************************************************)
(* References whose secrets live in the key-value engine of a vault:       *)
(* VaultSecret in kapitan/refs/secrets/vaultkv.py, made by the workers of  *)
(* a compile pool through RefController, and revealed from their tags by   *)
(* another process (`kapitan refs --reveal`) through Revealer.             *)
(*                                                                         *)
(* A tag ?{vaultkv:ref:mount:path:key||function} names a ref file and the  *)
(* place its secret is put in when there is no such file yet.  A vault     *)
(* stores all the keys of a path as one secret, which is read and written  *)
(* whole.  The ref file holds path and key, and the parameters with which  *)
(* to ask the vault, the mount and the engine among them.  The hash in a   *)
(* compiled tag is of the file's name and of path and key.  A secret is    *)
(* told from others by the path and key it was generated for and by the    *)
(* number of the generator's call.                                         *)
(***************************************************************************)
EXTENDS Naturals, Sequences

CONSTANTS
  Targets,   \* the targets; each is compiled by a worker of the pool
  Refs,      \* names of ref files
  Mounts, VaultPaths, Keys,
  TagLists,  \* TagLists[t]: the lists of tags that target t's input may hold
  Params,    \* Params[t]: what parameters.kapitan.secrets.vaultkv of t may be, [mount, engine]
  None,      \* the tag leaves the mount empty; a tag carries no parameters
  Missing,   \* there is no file
  Torn,      \* a file that does not load
  Absent,    \* the vault has nothing at the path
  Deleted,   \* the latest version of the path's secret is deleted
  MaxRuns,   \* bound: runs of kapitan compile
  MaxMade,   \* bound: generated secrets
  MaxFaults, \* bound: kills and lost answers
  MaxEdits   \* bound: acts of the user, and of the vault's administrator

Engines == {"kv", "kv-v2"}
Tag == [ref : Refs, mount : Mounts \cup {None}, path : VaultPaths, key : Keys]
Param == [mount : Mounts, engine : Engines]
Place == [engine : Engines, mount : Mounts, path : VaultPaths]
Secret == [path : VaultPaths, key : Keys, n : 1..MaxMade]
KeySets == UNION {[ks -> Secret] : ks \in SUBSET Keys}
RefFile == [path : VaultPaths, key : Keys, param : Param]
Token == [ref : Refs, path : VaultPaths, key : Keys, carried : Param \cup {None}]

ASSUME VaultAssumption ==
  /\ TagLists \in [Targets -> SUBSET Seq(Tag)]
  /\ Params \in [Targets -> SUBSET Param]
  /\ None \notin Mounts /\ None \notin Param
  /\ Missing \notin RefFile /\ Torn \notin RefFile /\ Missing # Torn
  /\ Absent # Deleted /\ {Absent, Deleted} \cap KeySets = {}
  /\ {MaxRuns, MaxMade, MaxFaults, MaxEdits} \subseteq Nat

VARIABLES
  tags,     \* tags[t]: the tags in t's input
  params,   \* params[t]: the parameters in t's inventory
  files,    \* files[r]: the ref file r
  vault,    \* vault[p]: the keys of the secret at a place, Absent or Deleted
  embed,    \* --embed-refs of this run
  runs,     \* runs so far
  pc,       \* where t's worker is
  at,       \* at[t]: index of the tag it is at
  made,     \* made[t]: what its function has generated
  seen,     \* seen[t]: the secret it read at the path it is going to write
  out,      \* out[t]: tokens compiled in this run
  compiled, \* tokens in the published output
  revealing,\* a reveal process is there
  shown,    \* what it has shown, and keeps in its lru_cache: [token, secret]
  count, faults, edits,
  \* History, read by no guard: where the secret of a ref file was put, the files
  \* that were there when the run began, the places where a writer came between
  \* another's read and write, and those the administrator changed.
  home, begun, raced, changed

user == <<tags, params>>
worker == <<pc, at, made, seen, out>>
run == <<embed, runs, begun>>
reveal == <<revealing, shown>>
history == <<home, raced, changed>>
vars == <<user, files, vault, run, worker, compiled, reveal, count, faults, edits, history>>

PCs == {"idle", "meet", "read", "write", "open", "dump", "done", "failed"}
NoKeys == [k \in {} |-> Absent]
Shown == [token : Token, secret : Secret]

TypeOK ==
  /\ tags \in [Targets -> Seq(Tag)] /\ params \in [Targets -> Param]
  /\ files \in [Refs -> {Missing, Torn} \cup RefFile]
  /\ vault \in [Place -> {Absent, Deleted} \cup KeySets]
  /\ embed \in BOOLEAN /\ runs \in 0..MaxRuns
  /\ pc \in [Targets -> PCs] /\ at \in [Targets -> Nat \ {0}]
  /\ made \in [Targets -> {None} \cup Secret]
  /\ \A t \in Targets : pc[t] \in {"read", "write"} => made[t] \in Secret
  /\ seen \in [Targets -> KeySets]
  /\ out \in [Targets -> SUBSET Token] /\ compiled \in SUBSET Token
  /\ revealing \in BOOLEAN /\ shown \in SUBSET Shown
  /\ count \in 0..MaxMade /\ faults \in 0..MaxFaults /\ edits \in 0..MaxEdits
  /\ home \in [Refs -> Place \cup {None}] /\ begun \in SUBSET Refs
  /\ raced \in SUBSET Place /\ changed \in SUBSET Place

Init ==
  /\ tags \in [Targets -> UNION {TagLists[t] : t \in Targets}]
  /\ params \in [Targets -> UNION {Params[t] : t \in Targets}]
  /\ \A t \in Targets : tags[t] \in TagLists[t] /\ params[t] \in Params[t]
  /\ files = [r \in Refs |-> Missing]
  /\ vault = [p \in Place |-> Absent]
  /\ embed = FALSE /\ runs = 0
  /\ pc = [t \in Targets |-> "idle"]
  /\ at = [t \in Targets |-> 1]
  /\ made = [t \in Targets |-> None]
  /\ seen = [t \in Targets |-> NoKeys]
  /\ out = [t \in Targets |-> {}]
  /\ compiled = {}
  /\ revealing = FALSE /\ shown = {}
  /\ count = 0 /\ faults = 0 /\ edits = 0
  /\ home = [r \in Refs |-> None]
  /\ begun = {} /\ raced = {} /\ changed = {}

-----------------------------------------------------------------------------
Whole(r) == files[r] \notin {Missing, Torn}
Content(p) == IF vault[p] \in {Absent, Deleted} THEN NoKeys ELSE vault[p]
Goto(t, where) == pc' = [pc EXCEPT ![t] = where]
Running == \E t \in Targets : pc[t] # "idle"

TagOf(t) == tags[t][at[t]]

\* from_params: the tag's mount, else the one of the inventory.
MountOf(t) == IF TagOf(t).mount = None THEN params[t].mount ELSE TagOf(t).mount

\* The secret is read through the API of the engine, ...
ReadPlace(t) == [engine |-> params[t].engine, mount |-> MountOf(t), path |-> TagOf(t).path]

\* ... and written through the one of kv-v2, whatever the engine.
WritePlace(t) == [engine |-> "kv-v2", mount |-> MountOf(t), path |-> TagOf(t).path]

\* The token a ref compiles to; an embedded one carries all of the file.
TokenFor(r) == [ref |-> r, path |-> files[r].path, key |-> files[r].key,
                carried |-> IF embed THEN files[r].param ELSE None]

-----------------------------------------------------------------------------
(* Compiling *)

\* The pool is gone, with all its workers knew.
NoWorkers ==
  /\ pc' = [t \in Targets |-> "idle"]
  /\ at' = [t \in Targets |-> 1]
  /\ made' = [t \in Targets |-> None]
  /\ seen' = [t \in Targets |-> NoKeys]
  /\ out' = [t \in Targets |-> {}]

StartRun(e) ==
  /\ ~ Running /\ runs < MaxRuns
  /\ runs' = runs + 1 /\ embed' = e
  /\ begun' = {r \in Refs : Whole(r)}
  /\ pc' = [t \in Targets |-> "meet"]
  /\ UNCHANGED <<user, files, vault, at, made, seen, out, compiled, reveal, count, faults, edits, history>>

\* Mutant of Found: a tag with a function always makes its ref.
FoundNever(t) == FALSE

\* A file for the tag's ref is all that is asked for; its path and key are not
\* compared with the tag's.
Found(t) == Whole(TagOf(t).ref)

\* The tag's ref is there, or was just made: the tag is compiled.
CompileTag(t) ==
  /\ pc[t] = "meet" /\ at[t] <= Len(tags[t])
  /\ Found(t)
  /\ out' = [out EXCEPT ![t] = @ \cup {TokenFor(TagOf(t).ref)}]
  /\ at' = [at EXCEPT ![t] = @ + 1]
  /\ UNCHANGED <<user, files, vault, run, pc, made, seen, compiled, reveal, count, faults, edits,
                 history>>

\* RefFromFuncError: the function is called.
Generate(t) ==
  /\ pc[t] = "meet" /\ at[t] <= Len(tags[t])
  /\ files[TagOf(t).ref] # Torn /\ ~ Found(t) /\ count < MaxMade
  /\ count' = count + 1
  /\ made' = [made EXCEPT ![t] = [path |-> TagOf(t).path, key |-> TagOf(t).key, n |-> count']]
  /\ Goto(t, "read")
  /\ UNCHANGED <<user, files, vault, run, at, seen, out, compiled, reveal, faults, edits, history>>

\* The task raises; so does the run when the pool's results are collected.
Fail(t) ==
  /\ Goto(t, "failed")
  /\ made' = [made EXCEPT ![t] = None] /\ seen' = [seen EXCEPT ![t] = NoKeys]
  /\ UNCHANGED <<user, run, at, out, compiled, reveal, count, edits>>

TornFails(t) ==
  /\ pc[t] = "meet" /\ at[t] <= Len(tags[t]) /\ files[TagOf(t).ref] = Torn
  /\ Fail(t)
  /\ UNCHANGED <<files, vault, faults, history>>

\* The path's secret, none if the path is unknown.
ReadVault(t) ==
  /\ pc[t] = "read" /\ vault[ReadPlace(t)] # Deleted
  /\ seen' = [seen EXCEPT ![t] = Content(ReadPlace(t))]
  /\ Goto(t, "write")
  /\ UNCHANGED <<user, files, vault, run, at, made, out, compiled, reveal, count, faults, edits,
                 history>>

\* A deleted version has no data to put the key into: a TypeError.
DeletedFails(t) ==
  /\ pc[t] = "read" /\ vault[ReadPlace(t)] = Deleted
  /\ Fail(t)
  /\ UNCHANGED <<files, vault, faults, history>>

\* No client, or the token may not read or write: before anything is written.
Refused(t) ==
  /\ pc[t] \in {"read", "write"} /\ faults < MaxFaults
  /\ faults' = faults + 1
  /\ Fail(t)
  /\ UNCHANGED <<files, vault, history>>

\* Mutant of Updated: the secrets read are not kept.
UpdatedAlone(t) == [k \in {TagOf(t).key} |-> made[t]]

\* The path's secrets as they were read, with the new one.
Updated(t) ==
  [k \in DOMAIN seen[t] \cup {TagOf(t).key} |-> IF k = TagOf(t).key THEN made[t] ELSE seen[t][k]]

PutSecret(t) ==
  /\ vault' = [vault EXCEPT ![WritePlace(t)] = Updated(t)]
  /\ raced' = IF Content(WritePlace(t)) = seen[t] THEN raced ELSE raced \cup {WritePlace(t)}

WriteVault(t) ==
  /\ pc[t] = "write"
  /\ PutSecret(t)
  /\ made' = [made EXCEPT ![t] = None] /\ seen' = [seen EXCEPT ![t] = NoKeys]
  /\ Goto(t, "open")
  /\ UNCHANGED <<user, files, run, at, out, compiled, reveal, count, faults, edits,
                 home, changed>>

\* The secret is written, the answer does not arrive.
AnswerLost(t) ==
  /\ pc[t] = "write" /\ faults < MaxFaults
  /\ faults' = faults + 1
  /\ PutSecret(t)
  /\ Fail(t)
  /\ UNCHANGED <<files, home, changed>>

\* PlainRefBackend.__setitem__ truncates the file ...
OpenRef(t) ==
  /\ pc[t] = "open"
  /\ files' = [files EXCEPT ![TagOf(t).ref] = Torn]
  /\ Goto(t, "dump")
  /\ UNCHANGED <<user, vault, run, at, made, seen, out, compiled, reveal, count, faults, edits,
                 history>>

NewFile(t) == [path |-> TagOf(t).path, key |-> TagOf(t).key, param |-> params[t]]

\* ... and dumps into it.  Over another content, dumped since, a rest of that may
\* stay behind.
DumpRef(t) ==
  LET r == TagOf(t).ref IN
  /\ pc[t] = "dump"
  /\ \E f \in {NewFile(t)} \cup (IF Whole(r) /\ files[r] # NewFile(t) THEN {Torn} ELSE {}) :
       files' = [files EXCEPT ![r] = f]
  /\ home' = [home EXCEPT ![r] = WritePlace(t)]
  /\ Goto(t, "meet")
  /\ UNCHANGED <<user, vault, run, at, made, seen, out, compiled, reveal, count, faults, edits,
                 raced, changed>>

FinishTarget(t) ==
  /\ pc[t] = "meet" /\ at[t] > Len(tags[t])
  /\ Goto(t, "done")
  /\ UNCHANGED <<user, files, vault, run, at, made, seen, out, compiled, reveal, count, faults,
                 edits, history>>

\* All targets are compiled, and their output replaces that of the last run; or one
\* failed, and the pool is terminated wherever the other workers are.
EndRun ==
  /\ Running
  /\ \/ /\ \A t \in Targets : pc[t] = "done"
        /\ compiled' = UNION {out[t] : t \in Targets}
     \/ /\ \E t \in Targets : pc[t] = "failed"
        /\ UNCHANGED compiled
  /\ NoWorkers
  /\ UNCHANGED <<user, files, vault, run, reveal, count, faults, edits, history>>

\* The run is killed.
Kill ==
  /\ Running /\ faults < MaxFaults
  /\ faults' = faults + 1
  /\ NoWorkers
  /\ UNCHANGED <<user, files, vault, run, compiled, reveal, count, edits, history>>

-----------------------------------------------------------------------------
(* Revealing *)

StartReveal ==
  /\ ~ revealing /\ compiled # {}
  /\ revealing' = TRUE /\ shown' = {}
  /\ UNCHANGED <<user, files, vault, run, worker, compiled, count, faults, edits, history>>

\* Mutant of HashMatches: the file is taken as it is.
HashMatchesAny(g) == TRUE

\* The hash covers the file's name, path and key, not the parameters.
HashMatches(g) == files[g.ref].path = g.path /\ files[g.ref].key = g.key

\* A ref for the token can be had: from the token, or from the file.
Resolves(g) == g.carried # None \/ (Whole(g.ref) /\ HashMatches(g))

RefOf(g) == IF g.carried # None THEN [path |-> g.path, key |-> g.key, param |-> g.carried]
                                ELSE files[g.ref]

\* _decrypt asks at the mount of the parameters.
PlaceOf(f) == [engine |-> f.param.engine, mount |-> f.param.mount, path |-> f.path]

Obtainable(f) == f.key \in DOMAIN Content(PlaceOf(f))

\* Mutant of Remembered: nothing is.
RememberedNothing(g) == {}

\* lru_cache of _reveal_tag_without_subvar, by the tag.
Remembered(g) == {m \in shown : m.token = g}

\* The next tag in the revealed files.  Its ref is resolved each time.
RevealTag(g) ==
  /\ revealing /\ g \in compiled /\ Resolves(g)
  /\ \E s \in IF Remembered(g) # {} THEN {m.secret : m \in Remembered(g)}
              ELSE IF Obtainable(RefOf(g)) THEN {vault[PlaceOf(RefOf(g))][RefOf(g).key]} ELSE {} :
       shown' = shown \cup {[token |-> g, secret |-> s]}
  /\ UNCHANGED <<user, files, vault, run, worker, compiled, revealing, count, faults, edits, history>>

\* The process ends: with the last tag, or with an error of the hash, of the file
\* or of the vault.
EndReveal ==
  /\ revealing
  /\ revealing' = FALSE /\ shown' = {}
  /\ UNCHANGED <<user, files, vault, run, worker, compiled, count, faults, edits, history>>

-----------------------------------------------------------------------------
(* What others do *)

\* Between runs the user changes tags and parameters, or removes a ref file to have
\* it made again.
EditInventory(t) ==
  /\ ~ Running /\ edits < MaxEdits /\ edits' = edits + 1
  /\ \/ /\ \E l \in TagLists[t] : l # tags[t] /\ tags' = [tags EXCEPT ![t] = l]
        /\ UNCHANGED params
     \/ /\ \E p \in Params[t] : p # params[t] /\ params' = [params EXCEPT ![t] = p]
        /\ UNCHANGED tags
  /\ UNCHANGED <<files, vault, run, worker, compiled, reveal, count, faults, history>>

RemoveRef(r) ==
  /\ ~ Running /\ files[r] # Missing /\ edits < MaxEdits /\ edits' = edits + 1
  /\ files' = [files EXCEPT ![r] = Missing]
  /\ UNCHANGED <<user, vault, run, worker, compiled, reveal, count, faults, history>>

\* The administrator deletes the latest version, or the path with all its versions.
Remove(p) ==
  /\ vault[p] \notin {Absent, Deleted} /\ edits < MaxEdits /\ edits' = edits + 1
  /\ \E gone \in {Absent, Deleted} : vault' = [vault EXCEPT ![p] = gone]
  /\ changed' = changed \cup {p}
  /\ UNCHANGED <<user, files, run, worker, compiled, reveal, count, faults, home, raced>>

Work(t) ==
  \/ CompileTag(t) \/ Generate(t) \/ TornFails(t) \/ ReadVault(t) \/ DeletedFails(t)
  \/ WriteVault(t) \/ OpenRef(t) \/ DumpRef(t) \/ FinishTarget(t)

Next ==
  \/ \E t \in Targets : Work(t) \/ Refused(t) \/ AnswerLost(t) \/ EditInventory(t)
  \/ \E e \in BOOLEAN : StartRun(e)
  \/ EndRun \/ Kill
  \/ StartReveal \/ EndReveal
  \/ \E g \in compiled : RevealTag(g)
  \/ \E r \in Refs : RemoveRef(r)
  \/ \E p \in Place : Remove(p)

Spec == Init /\ [][Next]_vars
-----------------------------------------------------------------------------
\* What a tag of the output reveals is a secret that was generated for the path and
\* key which the tag was compiled with, however files and tags have changed since:
\* the hash, or the tag itself, ties it to them.
TagsRevealTheirOwn ==
  \A s \in shown : s.secret.path = s.token.path /\ s.secret.key = s.token.key

\* One process shows one secret for a tag, wherever the tag occurs and whatever
\* happens to the vault meanwhile.
OneSecretPerTag ==
  \A s, u \in shown : s.token = u.token => s.secret = u.secret

\* A ref file whose secret cannot be had has a cause: the secret was put elsewhere
\* than the file says, its path was changed by the administrator, or one of two
\* writers of the path wrote back what it had read before the other wrote.  No kill,
\* refusal or lost answer is among the causes: the vault is written before the file.
LossHasACause ==
  \A r \in Refs :
    Whole(r) => \/ Obtainable(files[r])
                \/ home[r] # PlaceOf(files[r])
                \/ home[r] \in changed \cup raced

\* Ref r was there when the run began, and the step changes its secret's path.
Touched(r) ==
  LET p == PlaceOf(files[r]) IN
  /\ Whole(r) /\ Obtainable(files[r]) /\ files'[r] = files[r] /\ edits' = edits
  /\ vault'[p] # vault[p]

\* The ref's secret is still there; or another ref's went over it, to the same key or
\* with keys that were read before they changed.
KeptOrOverwritten(f, r) ==
  LET p == PlaceOf(f) IN
  \/ f.key \in DOMAIN vault'[p] /\ vault'[p][f.key] = vault[p][f.key]
  \/ \E t \in Targets :
       /\ pc[t] = "write" /\ TagOf(t).ref # r /\ WritePlace(t) = p
       /\ TagOf(t).key = f.key \/ seen[t] # vault[p]

\* The secret of a ref whose file was there when the run began is not made again:
\* a step of the run that changes it belongs to another ref of the same path, with
\* the same key or with keys read before they changed.
ReferencedIsKept ==
  [][\A r \in begun : Touched(r) => KeptOrOverwritten(files[r], r)]_vars

\* A ref file points to the place its secret was put in.
PointsToItsSecret ==
  \A r \in Refs : Whole(r) => home[r] = PlaceOf(files[r])
=============================================================================
