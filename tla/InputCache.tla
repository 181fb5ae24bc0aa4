----------------------------- MODULE InputCache -----------------------------
(***************************************************************************)
(* The on-disk compile cache: InputCache.get and InputCache.set as the     *)
(* worker processes of a compile pool execute them around a kadet          *)
(* component (kapitan/inputs/cache.py, kapitan/inputs/kadet.py).           *)
(*                                                                         *)
(* An entry is two directory names, <hash> and <hash>.lock, that point to  *)
(* inodes.  A name can move (rename) while a process still holds the inode *)
(* open, which is what the interleavings below are about.  An inode's      *)
(* content is two halves: a pickle is whole when both were written by the  *)
(* same dump; anything else does not load.                                 *)
(*                                                                         *)
(* A compile run hands every target to one pool worker and the target's    *)
(* name is part of every key it computes, so within a run each key belongs *)
(* to one worker (owner).  Two runs that share $XDG_CACHE_HOME have no     *)
(* such discipline between them.                                           *)
(***************************************************************************)
EXTENDS Naturals, FiniteSets

CONSTANTS
  Runs,         \* concurrently executing `kapitan compile --cache` invocations
  Procs,        \* the worker processes of all runs
  RunOf,        \* the run a worker belongs to
  Keys,         \* input hashes
  Values,       \* compiled outputs
  Inodes,
  None,         \* no inode, no value, no owner, no key
  LockRetries,  \* lock_retries of get and set; the code's default is 2
  MaxLookups,   \* bound: counted lookups of a run before it takes no more work
  MaxRestarts   \* bound: how often a run is killed or ends and is started again

Halves == {"head", "tail"}

ASSUME CacheAssumption ==
  /\ RunOf \in [Procs -> Runs]
  /\ None \notin Inodes /\ None \notin Values /\ None \notin Procs /\ None \notin Keys
  /\ LockRetries \in Nat \ {0}
  /\ MaxLookups \in Nat
  /\ MaxRestarts \in Nat

VARIABLES
  final,    \* final[k]: the inode <hash> names, or None
  lock,     \* lock[k]: the inode <hash>.lock names, or None
  data,     \* data[i]: what the two halves of inode i hold
  pc,       \* where a worker is in get, the component, or set
  key,      \* the key a worker is at
  handle,   \* the inode a worker has open
  out,      \* output_obj: loaded from the cache, or computed
  try,      \* the loop variable `retry`
  owner,    \* owner[r][k]: the worker of run r that handles the target of key k
  metrics,  \* the CacheMetrics a run's workers share
  restarts

files == <<final, lock, data>>
local == <<key, handle, out, try>>
vars == <<final, lock, data, pc, key, handle, out, try, owner, metrics, restarts>>

Failed == {"mainFailed", "dumpFailed", "tornRead", "badModule", "renameLost"}
Writing == {"writeHead", "writeTail", "rename"}
PCs == {"idle", "getLock", "getOpen", "getLoad", "hit", "compute",
        "setCheck", "setLock", "setOpen"} \cup Writing \cup Failed

Empty == [h \in Halves |-> None]
Pickle(v) == [h \in Halves |-> v]
Whole(i) == \E v \in Values : data[i] = Pickle(v)

Counters == {"hits", "misses", "fills"}
ZeroMetrics == [c \in Counters |-> 0]

TypeOK ==
  /\ final \in [Keys -> Inodes \cup {None}]
  /\ lock \in [Keys -> Inodes \cup {None}]
  /\ data \in [Inodes -> [Halves -> Values \cup {None}]]
  /\ pc \in [Procs -> PCs]
  /\ key \in [Procs -> Keys \cup {None}]
  /\ handle \in [Procs -> Inodes \cup {None}]
  /\ out \in [Procs -> Values \cup {None}]
  /\ try \in [Procs -> Nat]
  /\ owner \in [Runs -> [Keys -> Procs \cup {None}]]
  /\ metrics \in [Runs -> [Counters -> Nat]]
  /\ restarts \in [Runs -> Nat]

Init ==
  /\ final = [k \in Keys |-> None]
  /\ lock = [k \in Keys |-> None]
  /\ data = [i \in Inodes |-> Empty]
  /\ pc = [p \in Procs |-> "idle"]
  /\ key = [p \in Procs |-> None]
  /\ handle = [p \in Procs |-> None]
  /\ out = [p \in Procs |-> None]
  /\ try = [p \in Procs |-> 0]
  /\ owner = [r \in Runs |-> [k \in Keys |-> None]]
  /\ metrics = [r \in Runs |-> ZeroMetrics]
  /\ restarts = [r \in Runs |-> 0]

-----------------------------------------------------------------------------
Goto(p, where) == pc' = [pc EXCEPT ![p] = where]

Count(p, counter) ==
  metrics' = [metrics EXCEPT ![RunOf[p]][counter] = @ + 1]

\* A miss, however it comes about, sends the worker to the component.
Miss(p) ==
  /\ Goto(p, "compute")
  /\ Count(p, "misses")

\* Mutant of Begin: any worker of the run may work on any target's inputs.
BeginAnyWorker(p, k) ==
  LET r == RunOf[p] IN
  /\ pc[p] = "idle"
  /\ metrics[r]["hits"] + metrics[r]["misses"] < MaxLookups
  /\ owner' = [owner EXCEPT ![r][k] = p]
  /\ key' = [key EXCEPT ![p] = k]
  /\ out' = [out EXCEPT ![p] = None]
  /\ try' = [try EXCEPT ![p] = 0]
  /\ Goto(p, "getLock")
  /\ UNCHANGED <<files, handle, metrics, restarts>>

\* A worker reaches an input of a target the pool gave to it.
Begin(p, k) ==
  LET r == RunOf[p] IN
  /\ pc[p] = "idle"
  /\ owner[r][k] \in {None, p}
  /\ metrics[r]["hits"] + metrics[r]["misses"] < MaxLookups
  /\ owner' = [owner EXCEPT ![r][k] = p]
  /\ key' = [key EXCEPT ![p] = k]
  /\ out' = [out EXCEPT ![p] = None]
  /\ try' = [try EXCEPT ![p] = 0]
  /\ Goto(p, "getLock")
  /\ UNCHANGED <<files, handle, metrics, restarts>>

\* get: `if not cached_path_lock.exists()`
GetLock(p) ==
  /\ pc[p] = "getLock"
  /\ \/ /\ lock[key[p]] # None
        /\ Miss(p)
     \/ /\ lock[key[p]] = None
        /\ Goto(p, "getOpen")
        /\ UNCHANGED metrics
  /\ UNCHANGED <<files, local, owner, restarts>>

\* get: open the entry; FileNotFoundError is retried, then it is a miss.
GetOpen(p) ==
  /\ pc[p] = "getOpen"
  /\ \/ /\ final[key[p]] # None
        /\ handle' = [handle EXCEPT ![p] = final[key[p]]]
        /\ Goto(p, "getLoad")
        /\ UNCHANGED <<try, metrics>>
     \/ /\ final[key[p]] = None
        /\ try[p] + 1 < LockRetries
        /\ try' = [try EXCEPT ![p] = @ + 1]
        /\ UNCHANGED <<pc, handle, metrics>>
     \/ /\ final[key[p]] = None
        /\ try[p] + 1 >= LockRetries
        /\ Miss(p)
        /\ UNCHANGED <<try, handle>>
  /\ UNCHANGED <<files, key, out, owner, restarts>>

\* get: unpickle what the open inode holds.  A whole pickle is a hit, unless
\* load_output returns None (a kadet module that is not loaded yet, or a stored
\* None), which is a miss, or raises for any other missing module.  A pickle
\* that is not whole raises.
GetLoad(p) ==
  /\ pc[p] = "getLoad"
  /\ handle' = [handle EXCEPT ![p] = None]
  /\ \/ /\ Whole(handle[p])
        /\ out' = [out EXCEPT ![p] = data[handle[p]]["head"]]
        /\ Goto(p, "hit")
        /\ Count(p, "hits")
     \/ /\ Whole(handle[p])
        /\ Miss(p)
        /\ UNCHANGED out
     \/ /\ Whole(handle[p])
        /\ Goto(p, "badModule")
        /\ UNCHANGED <<out, metrics>>
     \/ /\ ~ Whole(handle[p])
        /\ Goto(p, "tornRead")
        /\ UNCHANGED <<out, metrics>>
  /\ UNCHANGED <<files, key, try, owner, restarts>>

\* The cached output is written to the target's files.
UseHit(p) ==
  /\ pc[p] = "hit"
  /\ Goto(p, "idle")
  /\ UNCHANGED <<files, local, owner, metrics, restarts>>

\* The component's main runs: it returns an output or raises.
Compute(p) ==
  /\ pc[p] = "compute"
  /\ \/ /\ \E v \in Values : out' = [out EXCEPT ![p] = v]
        /\ try' = [try EXCEPT ![p] = 0]
        /\ Goto(p, "setCheck")
     \/ /\ Goto(p, "mainFailed")
        /\ UNCHANGED <<out, try>>
  /\ UNCHANGED <<files, key, handle, owner, metrics, restarts>>

\* Mutant of SetCheck: the check for an existing entry is dropped.
SetCheckDropped(p) ==
  /\ pc[p] = "setCheck"
  /\ Goto(p, "setLock")
  /\ UNCHANGED <<files, local, owner, metrics, restarts>>

\* set: `if cached_path.exists(): return inputs_hash`
SetCheck(p) ==
  /\ pc[p] = "setCheck"
  /\ Goto(p, IF final[key[p]] # None THEN "idle" ELSE "setLock")
  /\ UNCHANGED <<files, local, owner, metrics, restarts>>

\* Mutant of SetLock: the check for a lock file is dropped.
SetLockDropped(p) ==
  /\ pc[p] = "setLock"
  /\ Goto(p, "setOpen")
  /\ UNCHANGED <<files, local, owner, metrics, restarts>>

\* Mutant of SetLock: the loop waits for the lock file to go away.
SetLockWaits(p) ==
  /\ pc[p] = "setLock"
  /\ Goto(p, IF lock[key[p]] = None THEN "setOpen" ELSE "setCheck")
  /\ UNCHANGED <<files, local, owner, metrics, restarts>>

\* set: `if not cached_path_lock.exists()`, else the next round of the loop.
SetLock(p) ==
  /\ pc[p] = "setLock"
  /\ \/ /\ lock[key[p]] = None
        /\ Goto(p, "setOpen")
        /\ UNCHANGED try
     \/ /\ lock[key[p]] # None
        /\ try' = [try EXCEPT ![p] = @ + 1]
        /\ Goto(p, IF try[p] + 1 < LockRetries THEN "setCheck" ELSE "idle")
  /\ UNCHANGED <<files, key, handle, out, owner, metrics, restarts>>

InUse(i) ==
  \/ \E k \in Keys : i \in {final[k], lock[k]}
  \/ \E p \in Procs : handle[p] = i

\* Mutant of SetOpen: the dump goes straight to the entry's final name.
SetOpenInPlace(p) ==
  LET k == key[p] IN
  /\ pc[p] = "setOpen"
  /\ \E i \in Inodes :
       /\ ~ InUse(i)
       /\ final' = [final EXCEPT ![k] = i]
       /\ data' = [data EXCEPT ![i] = Empty]
       /\ handle' = [handle EXCEPT ![p] = i]
  /\ Goto(p, "writeHead")
  /\ UNCHANGED <<lock, key, out, try, owner, metrics, restarts>>

\* set: open(cached_path_lock, "wb") creates the file or truncates the one
\* that has appeared since the check.
SetOpen(p) ==
  LET k == key[p] IN
  /\ pc[p] = "setOpen"
  /\ \E i \in Inodes :
       /\ IF lock[k] # None THEN i = lock[k] ELSE ~ InUse(i)
       /\ lock' = [lock EXCEPT ![k] = i]
       /\ data' = [data EXCEPT ![i] = Empty]
       /\ handle' = [handle EXCEPT ![p] = i]
  /\ Goto(p, "writeHead")
  /\ UNCHANGED <<final, key, out, try, owner, metrics, restarts>>

\* set: dump_output writes the pickle through the open file ...
WriteHalf(p, here, half, next) ==
  /\ pc[p] = here
  /\ data' = [data EXCEPT ![handle[p]][half] = out[p]]
  /\ Goto(p, next)
  /\ UNCHANGED <<final, lock, local, owner, metrics, restarts>>

WriteHead(p) == WriteHalf(p, "writeHead", "head", "writeTail")
WriteTail(p) == WriteHalf(p, "writeTail", "tail", "rename")

\* ... or raises on an object that cannot be pickled; the lock file stays.
DumpFails(p) ==
  /\ pc[p] \in {"writeHead", "writeTail"}
  /\ handle' = [handle EXCEPT ![p] = None]
  /\ Goto(p, "dumpFailed")
  /\ UNCHANGED <<files, key, out, try, owner, metrics, restarts>>

\* set: rename <hash>.lock to <hash>, replacing what <hash> named; the rename
\* raises when another process has already moved the lock file away.
Rename(p) ==
  LET k == key[p] IN
  /\ pc[p] = "rename"
  /\ handle' = [handle EXCEPT ![p] = None]
  /\ \/ /\ lock[k] # None
        /\ final' = [final EXCEPT ![k] = lock[k]]
        /\ lock' = [lock EXCEPT ![k] = None]
        /\ Count(p, "fills")
        /\ Goto(p, "idle")
     \/ /\ lock[k] = None
        /\ Goto(p, "renameLost")
        /\ UNCHANGED <<final, lock, metrics>>
  /\ UNCHANGED <<data, key, out, try, owner, restarts>>

\* An input with continue_on_compile_error set: the worker goes on.
Continue(p) ==
  /\ pc[p] \in Failed
  /\ Goto(p, "idle")
  /\ UNCHANGED <<files, local, owner, metrics, restarts>>

\* The run ends in any way (finished, another target failed and the pool is
\* terminated, killed) wherever its workers are, and is started again.
Restart(r) ==
  LET mine == {p \in Procs : RunOf[p] = r} IN
  /\ restarts[r] < MaxRestarts
  /\ restarts' = [restarts EXCEPT ![r] = @ + 1]
  /\ pc' = [p \in Procs |-> IF p \in mine THEN "idle" ELSE pc[p]]
  /\ key' = [p \in Procs |-> IF p \in mine THEN None ELSE key[p]]
  /\ handle' = [p \in Procs |-> IF p \in mine THEN None ELSE handle[p]]
  /\ out' = [p \in Procs |-> IF p \in mine THEN None ELSE out[p]]
  /\ try' = [p \in Procs |-> IF p \in mine THEN 0 ELSE try[p]]
  /\ owner' = [owner EXCEPT ![r] = [k \in Keys |-> None]]
  /\ metrics' = [metrics EXCEPT ![r] = ZeroMetrics]
  /\ UNCHANGED files

\* Every worker of every run is between inputs, or has reported its error.
Quiet ==
  /\ \A p \in Procs : pc[p] \in {"idle"} \cup Failed
  /\ UNCHANGED vars

Get(p) == GetLock(p) \/ GetOpen(p) \/ GetLoad(p) \/ UseHit(p)

Set(p) ==
  \/ SetCheck(p) \/ SetLock(p) \/ SetOpen(p)
  \/ WriteHead(p) \/ WriteTail(p) \/ DumpFails(p) \/ Rename(p)

Work(p) == Get(p) \/ Compute(p) \/ Set(p)

Next ==
  \/ \E p \in Procs : \/ \E k \in Keys : Begin(p, k)
                      \/ Work(p)
                      \/ Continue(p)
  \/ \E r \in Runs : Restart(r)
  \/ Quiet

Spec == Init /\ [][Next]_vars

\* The operating system schedules every live worker.
FairSpec == Spec /\ \A p \in Procs : WF_vars(Work(p))

-----------------------------------------------------------------------------
(* Properties *)

\* An entry under its final name is a whole pickle: set dumps into the .lock
\* file and only renames it after the dump, whatever is killed in between.
PublishedIsWhole == \A k \in Keys : final[k] # None => Whole(final[k])

\* No get raises on a half-written entry, and no set loses its lock file to
\* another worker before the rename.
NoInterference == \A p \in Procs : pc[p] \notin {"tornRead", "renameLost"}

\* "dont write if already exists" (cache.py, set): the entry of a key is never
\* replaced once it is there.
DontWriteIfExists ==
  [][\A k \in Keys : final[k] # None => final'[k] = final[k]]_final

\* A lock file nobody is writing: its writer was killed or its dump raised.
Orphaned(k) ==
  /\ lock[k] # None
  /\ \A p \in Procs : handle[p] # lock[k]

\* Nothing ever removes such a file: from then on its key is a miss in every
\* run and is never filled, as get and set both back off from it.
OrphanIsForever ==
  [][\A k \in Keys : Orphaned(k) => /\ Orphaned(k)'
                                    /\ final'[k] = final[k]]_vars

\* No lookup waits for a lock: the retries of get and set are bounded, so every
\* worker that starts on an input finishes with it, orphaned lock or not.
LookupsReturn ==
  \A p \in Procs : pc[p] \notin {"idle"} \cup Failed ~> pc[p] \in {"idle"} \cup Failed

\* The files as the write-once map of CacheSpec.
MapOf == [k \in Keys |-> IF final[k] = None THEN None ELSE data[final[k]]["head"]]

ServedOf ==
  [p \in Procs |-> IF pc[p] = "hit" THEN [key |-> key[p], value |-> out[p]] ELSE None]

Abstract == INSTANCE CacheSpec WITH map <- MapOf, served <- ServedOf

\* One run at a time: the files implement a write-once map, so a hit is the
\* output first stored for the key.
ImplementsMap == Abstract!Spec
=============================================================================
