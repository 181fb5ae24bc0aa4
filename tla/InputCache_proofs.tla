-------------------------- MODULE InputCache_proofs --------------------------
(***************************************************************************)
(* Proofs about InputCache for any number of workers, keys, values, inodes *)
(* and retries, when the cache directory is used by one run at a time      *)
(* (SingleRun; TLC refutes the write-once claim without it).               *)
(*                                                                         *)
(* The argument: within a run a key has one owner, so the worker between   *)
(* the lock check and the rename is alone on its key (OwnsKey).  It        *)
(* therefore finds the lock file still absent when it opens it, the file   *)
(* it writes is the one it renames (Handles), nobody else writes that      *)
(* inode (NamesDistinct), and the entry does not exist until it renames    *)
(* (SetState).                                                             *)
(***************************************************************************)
EXTENDS InputCache, TLAPS

SingleRun == \A r, s \in Runs : r = s

Settled == {"idle"} \cup Failed

KeyChosen == \A p \in Procs : pc[p] \notin Settled => key[p] \in Keys

OwnsKey(p) ==
  pc[p] \notin Settled =>
    /\ key[p] \in Keys
    /\ owner[RunOf[p]][key[p]] = p

NamesDistinct ==
  \A j, k \in Keys : lock[k] # None =>
    /\ lock[k] # final[j]
    /\ lock[j] = lock[k] => j = k

Handles(p) ==
  /\ pc[p] \in Writing => handle[p] # None /\ handle[p] = lock[key[p]]
  /\ pc[p] = "getLoad" => handle[p] # None /\ handle[p] = final[key[p]]
  /\ pc[p] \notin Writing \cup {"getLoad"} => handle[p] = None

SetState(p) ==
  /\ pc[p] \in {"setLock", "setOpen"} \cup Writing => final[key[p]] = None
  /\ pc[p] = "setOpen" => lock[key[p]] = None
  /\ pc[p] \in {"hit", "setCheck", "setLock", "setOpen"} \cup Writing => out[p] \in Values
  /\ pc[p] = "writeTail" => data[handle[p]]["head"] = out[p]
  /\ pc[p] = "rename" => data[handle[p]] = Pickle(out[p])

WorkerInv(p) ==
  /\ OwnsKey(p)
  /\ Handles(p)
  /\ SetState(p)
  /\ pc[p] \notin {"tornRead", "renameLost"}

IndInv ==
  /\ TypeOK
  /\ NamesDistinct
  /\ PublishedIsWhole
  /\ \A p \in Procs : WorkerInv(p)

-----------------------------------------------------------------------------
\* Moving a worker and counting an event keep the types of pc and metrics.
LEMMA GotoType ==
  ASSUME TypeOK, NEW p \in Procs, NEW where \in PCs, Goto(p, where)
  PROVE  pc' \in [Procs -> PCs]
  BY DEF TypeOK, Goto

LEMMA CountType ==
  ASSUME TypeOK, NEW p \in Procs, NEW c \in Counters, Count(p, c)
  PROVE  metrics' \in [Runs -> [Counters -> Nat]]
  BY CacheAssumption DEF TypeOK, Count

LEMMA MissType ==
  ASSUME TypeOK, NEW p \in Procs, Miss(p)
  PROVE  pc' \in [Procs -> PCs] /\ metrics' \in [Runs -> [Counters -> Nat]]
  BY GotoType, CountType DEF Miss, PCs, Counters

\* Every variable keeps its type in every step: beyond types, that takes only
\* that a worker in the middle of an input has a key.
LEMMA TypeStep == ASSUME TypeOK, KeyChosen, [Next]_vars PROVE TypeOK'
<1> USE DEF TypeOK, PCs, Failed, Writing
<1>1. ASSUME NEW p \in Procs, NEW k \in Keys, Begin(p, k) PROVE TypeOK'
  BY <1>1, GotoType, CacheAssumption DEF Begin, files
<1>2. ASSUME NEW p \in Procs, GetLock(p) PROVE TypeOK'
  BY <1>2, GotoType, MissType DEF GetLock, files, local
<1>3. ASSUME NEW p \in Procs, GetOpen(p) PROVE TypeOK'
  <2>1. pc' \in [Procs -> PCs]
    BY <1>3, GotoType, MissType DEF GetOpen
  <2>2. metrics' \in [Runs -> [Counters -> Nat]]
    BY <1>3, MissType DEF GetOpen
  <2>3. handle' \in [Procs -> Inodes \cup {None}]
    BY <1>3 DEF GetOpen, KeyChosen, Settled
  <2>4. try' \in [Procs -> Nat]
    BY <1>3 DEF GetOpen
  <2> QED
    BY <1>3, <2>1, <2>2, <2>3, <2>4 DEF GetOpen, files
<1>4. ASSUME NEW p \in Procs, GetLoad(p) PROVE TypeOK'
  <2>1. Whole(handle[p]) => data[handle[p]]["head"] \in Values
    BY DEF Whole, Pickle, Halves
  <2>2. pc' \in [Procs -> PCs] /\ metrics' \in [Runs -> [Counters -> Nat]]
    BY <1>4, GotoType, CountType, MissType DEF GetLoad, Counters
  <2>3. out' \in [Procs -> Values \cup {None}]
    BY <1>4, <2>1 DEF GetLoad
  <2> QED
    BY <1>4, <2>2, <2>3 DEF GetLoad, files
<1>5. ASSUME NEW p \in Procs, UseHit(p) \/ Continue(p) PROVE TypeOK'
  BY <1>5, GotoType DEF UseHit, Continue, files, local
<1>6. ASSUME NEW p \in Procs, Compute(p) PROVE TypeOK'
  <2>1. pc' \in [Procs -> PCs]
    BY <1>6, GotoType DEF Compute
  <2>2. out' \in [Procs -> Values \cup {None}] /\ try' \in [Procs -> Nat]
    BY <1>6 DEF Compute
  <2> QED
    BY <1>6, <2>1, <2>2 DEF Compute, files
<1>7. ASSUME NEW p \in Procs, SetCheck(p) PROVE TypeOK'
  BY <1>7, GotoType DEF SetCheck, files, local
<1>8. ASSUME NEW p \in Procs, SetLock(p) PROVE TypeOK'
  BY <1>8, GotoType DEF SetLock, files
<1>9. ASSUME NEW p \in Procs, SetOpen(p) PROVE TypeOK'
  <2>1. PICK i \in Inodes : /\ lock' = [lock EXCEPT ![key[p]] = i]
                            /\ data' = [data EXCEPT ![i] = Empty]
                            /\ handle' = [handle EXCEPT ![p] = i]
    BY <1>9 DEF SetOpen
  <2> QED
    BY <1>9, <2>1, GotoType DEF SetOpen, Empty
<1>10. ASSUME NEW p \in Procs, WriteHead(p) \/ WriteTail(p) PROVE TypeOK'
  <2>1. data' \in [Inodes -> [Halves -> Values \cup {None}]]
    <3>1. PICK h \in Halves : data' = [data EXCEPT ![handle[p]][h] = out[p]]
      BY <1>10 DEF WriteHead, WriteTail, WriteHalf, Halves
    <3>2. out[p] \in Values \cup {None}
      OBVIOUS
    <3> QED
      BY <3>1, <3>2
  <2> QED
    BY <1>10, <2>1, GotoType DEF WriteHead, WriteTail, WriteHalf, local
<1>11. ASSUME NEW p \in Procs, DumpFails(p) PROVE TypeOK'
  BY <1>11, GotoType DEF DumpFails, files
<1>12. ASSUME NEW p \in Procs, Rename(p) PROVE TypeOK'
  <2>1. pc' \in [Procs -> PCs] /\ metrics' \in [Runs -> [Counters -> Nat]]
    BY <1>12, GotoType, CountType DEF Rename, Counters
  <2>2. final' \in [Keys -> Inodes \cup {None}] /\ lock' \in [Keys -> Inodes \cup {None}]
    BY <1>12 DEF Rename, KeyChosen, Settled
  <2>3. handle' \in [Procs -> Inodes \cup {None}]
    BY <1>12 DEF Rename
  <2> QED
    BY <1>12, <2>1, <2>2, <2>3 DEF Rename
<1>13. ASSUME NEW r \in Runs, Restart(r) PROVE TypeOK'
  BY <1>13 DEF Restart, ZeroMetrics, files
<1>14. CASE Quiet \/ UNCHANGED vars
  BY <1>14 DEF Quiet, vars
<1> QED
  BY <1>1, <1>2, <1>3, <1>4, <1>5, <1>6, <1>7, <1>8, <1>9, <1>10, <1>11, <1>12,
     <1>13, <1>14 DEF Next, Work, Get, Set

\* A worker is given its key by Begin and keeps it until it is settled.
LEMMA KeyStep == ASSUME TypeOK, KeyChosen, [Next]_vars PROVE KeyChosen'
<1> USE DEF TypeOK, KeyChosen, Settled, Failed, Writing, Goto
<1>1. ASSUME NEW p \in Procs, NEW k \in Keys, Begin(p, k) PROVE KeyChosen'
  BY <1>1 DEF Begin
<1>2. ASSUME NEW p \in Procs, Get(p) PROVE KeyChosen'
  BY <1>2 DEF Get, GetLock, GetOpen, GetLoad, UseHit, Miss, local
<1>3. ASSUME NEW p \in Procs, Compute(p) \/ Continue(p) PROVE KeyChosen'
  BY <1>3 DEF Compute, Continue, local
<1>4. ASSUME NEW p \in Procs, Set(p) PROVE KeyChosen'
  <2>1. UNCHANGED key
    BY <1>4 DEF Set, SetCheck, SetLock, SetOpen, WriteHead, WriteTail, WriteHalf,
                DumpFails, Rename, local
  <2>2. pc[p] \notin Settled /\ \A q \in Procs : q # p => pc'[q] = pc[q]
    BY <1>4 DEF Set, SetCheck, SetLock, SetOpen, WriteHead, WriteTail, WriteHalf,
                DumpFails, Rename
  <2> QED
    BY <2>1, <2>2
<1>5. ASSUME NEW r \in Runs, Restart(r) PROVE KeyChosen'
  BY <1>5 DEF Restart
<1>6. CASE Quiet \/ UNCHANGED vars
  BY <1>6 DEF Quiet, vars
<1> QED
  BY <1>1, <1>2, <1>3, <1>4, <1>5, <1>6 DEF Next, Work

\* Type correctness of the cache, for any number of runs.
THEOREM TypeCorrect == Spec => []TypeOK
<1>1. Init => TypeOK /\ KeyChosen
  BY CacheAssumption
     DEF Init, TypeOK, KeyChosen, Settled, PCs, Empty, ZeroMetrics, Halves, Counters
<1>2. TypeOK /\ KeyChosen /\ [Next]_vars => TypeOK' /\ KeyChosen'
  BY TypeStep, KeyStep
<1> QED
  BY <1>1, <1>2, PTL DEF Spec

-----------------------------------------------------------------------------
\* A worker in the middle of an input shares its key with no other such worker.
LEMMA AloneOnKey ==
  ASSUME SingleRun, IndInv, NEW p \in Procs, NEW q \in Procs,
         pc[p] \notin Settled, pc[q] \notin Settled, key[p] = key[q]
  PROVE  p = q
<1>1. RunOf[p] = RunOf[q]
  BY CacheAssumption DEF SingleRun
<1> QED
  BY <1>1 DEF IndInv, WorkerInv, OwnsKey

\* A step of one worker that leaves the files alone disturbs no other worker.
LEMMA OwnStep ==
  ASSUME IndInv, TypeOK', UNCHANGED files, NEW p \in Procs,
         \A q \in Procs \ {p} : /\ pc'[q] = pc[q] /\ key'[q] = key[q]
                                 /\ handle'[q] = handle[q] /\ out'[q] = out[q],
         \A q \in Procs \ {p} : pc[q] \notin Settled =>
           owner'[RunOf[q]][key[q]] = owner[RunOf[q]][key[q]],
         WorkerInv(p)'
  PROVE  IndInv'
<1>1. NamesDistinct' /\ PublishedIsWhole'
  BY DEF IndInv, NamesDistinct, PublishedIsWhole, Whole, files
<1>2. ASSUME NEW q \in Procs \ {p} PROVE WorkerInv(q)'
  <2>1. WorkerInv(q)
    BY <1>2 DEF IndInv
  <2>2. OwnsKey(q)'
    BY <1>2, <2>1 DEF WorkerInv, OwnsKey
  <2>3. Handles(q)' /\ SetState(q)' /\ pc'[q] \notin {"tornRead", "renameLost"}
    BY <1>2, <2>1 DEF WorkerInv, Handles, SetState, files, Pickle
  <2> QED
    BY <2>2, <2>3 DEF WorkerInv
<1> QED
  BY <1>1, <1>2 DEF IndInv

LEMMA InvStep ==
  ASSUME SingleRun, IndInv, [Next]_vars
  PROVE  IndInv'
<1>0. TypeOK'
  BY TypeStep DEF IndInv, KeyChosen, WorkerInv, OwnsKey
<1> USE DEF Settled, Failed, Writing
<1>1. ASSUME NEW p \in Procs, NEW k \in Keys, Begin(p, k) PROVE IndInv'
  <2>1. WorkerInv(p)'
    <3>1. pc'[p] = "getLock" /\ key'[p] = k /\ handle'[p] = handle[p] /\ pc[p] = "idle"
      BY <1>1 DEF Begin, Goto, IndInv, TypeOK
    <3>2. owner'[RunOf[p]][k] = p
      BY <1>1, CacheAssumption DEF Begin, IndInv, TypeOK
    <3>3. handle[p] = None
      BY <3>1 DEF IndInv, WorkerInv, Handles
    <3> QED
      BY <3>1, <3>2, <3>3 DEF WorkerInv, OwnsKey, Handles, SetState
  <2>2. \A q \in Procs \ {p} : /\ pc'[q] = pc[q] /\ key'[q] = key[q]
                                /\ handle'[q] = handle[q] /\ out'[q] = out[q]
    BY <1>1 DEF Begin, Goto, IndInv, TypeOK
  <2>3. \A q \in Procs \ {p} : pc[q] \notin Settled =>
          owner'[RunOf[q]][key[q]] = owner[RunOf[q]][key[q]]
    BY <1>1, CacheAssumption DEF Begin, IndInv, TypeOK, WorkerInv, OwnsKey
  <2> QED
    BY <1>0, <1>1, <2>1, <2>2, <2>3, OwnStep DEF Begin
<1>2. ASSUME NEW p \in Procs, GetLock(p) PROVE IndInv'
  <2>1. WorkerInv(p)'
    <3>1. pc'[p] \in {"compute", "getOpen"} /\ pc[p] = "getLock"
      BY <1>2 DEF GetLock, Miss, Goto, IndInv, TypeOK
    <3>2. UNCHANGED <<key, handle, owner>>
      BY <1>2 DEF GetLock, local
    <3> QED
      BY <3>1, <3>2 DEF IndInv, WorkerInv, OwnsKey, Handles, SetState
  <2>2. \A q \in Procs \ {p} : /\ pc'[q] = pc[q] /\ key'[q] = key[q]
                                /\ handle'[q] = handle[q] /\ out'[q] = out[q]
    BY <1>2 DEF GetLock, Miss, Goto, local, IndInv, TypeOK
  <2> QED
    BY <1>0, <1>2, <2>1, <2>2, OwnStep DEF GetLock
<1>3. ASSUME NEW p \in Procs, GetOpen(p) PROVE IndInv'
  <2>1. WorkerInv(p)'
    BY <1>3 DEF GetOpen, Miss, Goto, files, local, IndInv, TypeOK, WorkerInv, OwnsKey,
                 Handles, SetState
  <2>2. \A q \in Procs \ {p} : /\ pc'[q] = pc[q] /\ key'[q] = key[q]
                                /\ handle'[q] = handle[q] /\ out'[q] = out[q]
    BY <1>3 DEF GetOpen, Miss, Goto, local, IndInv, TypeOK
  <2> QED
    BY <1>0, <1>3, <2>1, <2>2, OwnStep DEF GetOpen
<1>4. ASSUME NEW p \in Procs, GetLoad(p) PROVE IndInv'
  <2>0. Whole(handle[p]) /\ data[handle[p]]["head"] \in Values
    <3>1. key[p] \in Keys /\ final[key[p]] # None /\ handle[p] = final[key[p]]
      BY <1>4 DEF GetLoad, IndInv, WorkerInv, OwnsKey, Handles
    <3>2. PICK v \in Values : data[handle[p]] = Pickle(v)
      BY <3>1 DEF IndInv, PublishedIsWhole, Whole
    <3> QED
      BY <3>2 DEF Whole, Pickle, Halves
  <2>1. WorkerInv(p)'
    <3>1. /\ pc[p] = "getLoad" /\ handle'[p] = None
          /\ \/ pc'[p] = "hit" /\ out'[p] = data[handle[p]]["head"]
             \/ pc'[p] \in {"compute", "badModule"}
          /\ UNCHANGED <<final, lock, data, key, owner>>
      BY <1>4, <2>0 DEF GetLoad, Miss, Goto, files, IndInv, TypeOK
    <3>2. OwnsKey(p) /\ Handles(p)
      BY DEF IndInv, WorkerInv
    <3>3. PICK v \in Values : data[handle[p]] = Pickle(v)
      BY <2>0 DEF Whole
    <3>4. data[handle[p]]["head"] \in Values
      BY <3>3 DEF Pickle, Halves
    <3>5. OwnsKey(p)'
      BY <3>1, <3>2, <3>4 DEF OwnsKey
    <3>6. Handles(p)'
      BY <3>1, <3>2, <3>4 DEF Handles
    <3>7. SetState(p)'
      BY <3>1, <3>2, <3>4 DEF SetState
    <3> QED
      BY <3>1, <3>2, <3>4, <3>5, <3>6, <3>7 DEF WorkerInv
  <2>2. \A q \in Procs \ {p} : /\ pc'[q] = pc[q] /\ key'[q] = key[q]
                                /\ handle'[q] = handle[q] /\ out'[q] = out[q]
    BY <1>4 DEF GetLoad, Miss, Goto, local, IndInv, TypeOK
  <2> QED
    BY <1>0, <1>4, <2>1, <2>2, OwnStep DEF GetLoad
<1>5. ASSUME NEW p \in Procs, UseHit(p) PROVE IndInv'
  <2>1. WorkerInv(p)'
    BY <1>5 DEF UseHit, Goto, files, local, IndInv, TypeOK, WorkerInv, OwnsKey,
                 Handles, SetState
  <2>2. \A q \in Procs \ {p} : /\ pc'[q] = pc[q] /\ key'[q] = key[q]
                                /\ handle'[q] = handle[q] /\ out'[q] = out[q]
    BY <1>5 DEF UseHit, Goto, local, IndInv, TypeOK
  <2> QED
    BY <1>0, <1>5, <2>1, <2>2, OwnStep DEF UseHit
<1>6. ASSUME NEW p \in Procs, Compute(p) PROVE IndInv'
  <2>1. WorkerInv(p)'
    BY <1>6 DEF Compute, Goto, files, local, IndInv, TypeOK, WorkerInv, OwnsKey,
                 Handles, SetState
  <2>2. \A q \in Procs \ {p} : /\ pc'[q] = pc[q] /\ key'[q] = key[q]
                                /\ handle'[q] = handle[q] /\ out'[q] = out[q]
    BY <1>6 DEF Compute, Goto, local, IndInv, TypeOK
  <2> QED
    BY <1>0, <1>6, <2>1, <2>2, OwnStep DEF Compute
<1>7. ASSUME NEW p \in Procs, SetCheck(p) PROVE IndInv'
  <2>1. WorkerInv(p)'
    BY <1>7 DEF SetCheck, Goto, files, local, IndInv, TypeOK, WorkerInv, OwnsKey,
                 Handles, SetState
  <2>2. \A q \in Procs \ {p} : /\ pc'[q] = pc[q] /\ key'[q] = key[q]
                                /\ handle'[q] = handle[q] /\ out'[q] = out[q]
    BY <1>7 DEF SetCheck, Goto, local, IndInv, TypeOK
  <2> QED
    BY <1>0, <1>7, <2>1, <2>2, OwnStep DEF SetCheck
<1>8. ASSUME NEW p \in Procs, SetLock(p) PROVE IndInv'
  <2>1. WorkerInv(p)'
    <3>1. /\ pc[p] = "setLock"
          /\ \/ pc'[p] = "setOpen" /\ lock[key[p]] = None
             \/ pc'[p] \in {"setCheck", "idle"}
          /\ UNCHANGED <<final, lock, data, key, handle, out, owner>>
      BY <1>8 DEF SetLock, Goto, files, IndInv, TypeOK
    <3>2. OwnsKey(p) /\ Handles(p) /\ SetState(p)
      BY DEF IndInv, WorkerInv
    <3>3. OwnsKey(p)'
      BY <3>1, <3>2 DEF OwnsKey
    <3>4. Handles(p)'
      BY <3>1, <3>2 DEF Handles
    <3>5. SetState(p)'
      BY <3>1, <3>2 DEF SetState
    <3> QED
      BY <3>1, <3>2, <3>3, <3>4, <3>5 DEF WorkerInv
  <2>2. \A q \in Procs \ {p} : /\ pc'[q] = pc[q] /\ key'[q] = key[q]
                                /\ handle'[q] = handle[q] /\ out'[q] = out[q]
    BY <1>8 DEF SetLock, Goto, local, IndInv, TypeOK
  <2> QED
    BY <1>0, <1>8, <2>1, <2>2, OwnStep DEF SetLock
<1>9. ASSUME NEW p \in Procs, SetOpen(p) PROVE IndInv'
  <2>1. /\ pc[p] = "setOpen" /\ key[p] \in Keys /\ lock[key[p]] = None
        /\ final[key[p]] = None /\ out[p] \in Values
    BY <1>9 DEF SetOpen, IndInv, WorkerInv, OwnsKey, SetState
  <2>2. PICK i \in Inodes : /\ ~ InUse(i)
                            /\ lock' = [lock EXCEPT ![key[p]] = i]
                            /\ data' = [data EXCEPT ![i] = Empty]
                            /\ handle' = [handle EXCEPT ![p] = i]
    BY <1>9, <2>1 DEF SetOpen
  <2>3. i # None
    BY CacheAssumption
  <2>4. /\ pc' = [pc EXCEPT ![p] = "writeHead"]
        /\ UNCHANGED <<final, key, out, owner>>
    BY <1>9 DEF SetOpen, Goto
  <2>5. NamesDistinct'
    BY <2>1, <2>2, <2>3, <2>4 DEF IndInv, TypeOK, NamesDistinct, InUse
  <2>6. PublishedIsWhole'
    <3>1. \A k \in Keys : final[k] # None => data'[final[k]] = data[final[k]]
      BY <2>2 DEF IndInv, TypeOK, InUse
    <3> QED
      BY <2>4, <3>1 DEF IndInv, PublishedIsWhole, Whole
  <2>7. WorkerInv(p)'
    <3>1. /\ pc'[p] = "writeHead" /\ handle'[p] = i /\ lock'[key[p]] = i
          /\ key'[p] = key[p] /\ out'[p] = out[p] /\ owner' = owner
          /\ final'[key[p]] = None
      BY <2>1, <2>2, <2>4 DEF IndInv, TypeOK
    <3>2. owner[RunOf[p]][key[p]] = p
      BY <1>9 DEF SetOpen, IndInv, WorkerInv, OwnsKey, Settled, Failed
    <3>3. OwnsKey(p)'
      BY <2>1, <3>1, <3>2 DEF OwnsKey
    <3>4. Handles(p)'
      BY <2>3, <3>1 DEF Handles, Writing
    <3>5. SetState(p)'
      BY <2>1, <3>1 DEF SetState, Writing
    <3> QED
      BY <3>1, <3>3, <3>4, <3>5 DEF WorkerInv
  <2>8. ASSUME NEW q \in Procs \ {p} PROVE WorkerInv(q)'
    <3>1. WorkerInv(q)
      BY DEF IndInv
    <3>2. /\ pc'[q] = pc[q] /\ handle'[q] = handle[q] /\ handle[q] # i
          /\ UNCHANGED <<final, key, out, owner>>
      BY <2>2, <2>4 DEF IndInv, TypeOK, InUse
    <3>3. pc[q] \notin Settled => lock'[key[q]] = lock[key[q]]
      <4>1. pc[q] \notin Settled => key[q] # key[p]
        BY <2>1, AloneOnKey
      <4> QED
        BY <2>2, <4>1, <3>1 DEF IndInv, TypeOK, WorkerInv, OwnsKey
    <3>4. handle[q] # None => data'[handle[q]] = data[handle[q]]
      BY <2>2, <3>2 DEF IndInv, TypeOK
    <3> QED
      BY <3>1, <3>2, <3>3, <3>4 DEF WorkerInv, OwnsKey, Handles, SetState, Pickle
  <2> QED
    BY <1>0, <2>5, <2>6, <2>7, <2>8 DEF IndInv
<1>10. ASSUME NEW p \in Procs, WriteHead(p) \/ WriteTail(p) PROVE IndInv'
  <2>1. /\ pc[p] \in Writing /\ key[p] \in Keys /\ out[p] \in Values
        /\ handle[p] # None /\ handle[p] = lock[key[p]] /\ handle[p] \in Inodes
    <3>1. pc[p] \in Writing
      BY <1>10 DEF WriteHead, WriteTail, WriteHalf
    <3>2. OwnsKey(p) /\ Handles(p) /\ SetState(p)
      BY DEF IndInv, WorkerInv
    <3>3. key[p] \in Keys
      BY <3>1, <3>2 DEF OwnsKey
    <3>4. out[p] \in Values /\ handle[p] # None /\ handle[p] = lock[key[p]]
      BY <3>1, <3>2 DEF Handles, SetState
    <3>5. handle[p] \in Inodes
      BY <3>4 DEF IndInv, TypeOK
    <3> QED
      BY <3>1, <3>3, <3>4, <3>5
  <2>2. \A i \in Inodes : i # handle[p] => data'[i] = data[i]
    BY <1>10, <2>1 DEF WriteHead, WriteTail, WriteHalf, IndInv, TypeOK
  <2>3. UNCHANGED <<final, lock, key, handle, out, owner>>
    BY <1>10 DEF WriteHead, WriteTail, WriteHalf, local
  <2>4. NamesDistinct'
    BY <2>3 DEF IndInv, NamesDistinct
  <2>5. PublishedIsWhole'
    <3>1. \A k \in Keys : final[k] # None => data'[final[k]] = data[final[k]]
      BY <2>1, <2>2 DEF IndInv, NamesDistinct, TypeOK
    <3> QED
      BY <2>3, <3>1 DEF IndInv, PublishedIsWhole, Whole
  <2>6. ASSUME WriteHead(p) PROVE WorkerInv(p)'
    <3>1. /\ data' = [data EXCEPT ![handle[p]]["head"] = out[p]]
          /\ pc' = [pc EXCEPT ![p] = "writeTail"] /\ pc[p] = "writeHead"
      BY <2>6 DEF WriteHead, WriteHalf, Goto
    <3>2. data'[handle[p]]["head"] = out[p]
      BY <2>1, <3>1 DEF IndInv, TypeOK, Halves
    <3>3. pc'[p] = "writeTail"
      BY <3>1 DEF IndInv, TypeOK
    <3>4. OwnsKey(p) /\ Handles(p) /\ SetState(p)
      BY DEF IndInv, WorkerInv
    <3>5. OwnsKey(p)'
      BY <2>1, <2>3, <3>1, <3>2, <3>3, <3>4 DEF OwnsKey
    <3>6. Handles(p)'
      BY <2>1, <2>3, <3>1, <3>2, <3>3, <3>4 DEF Handles
    <3>7. SetState(p)'
      BY <2>1, <2>3, <3>1, <3>2, <3>3, <3>4 DEF SetState
    <3> QED
      BY <2>1, <2>3, <3>1, <3>2, <3>3, <3>4, <3>5, <3>6, <3>7 DEF WorkerInv
  <2>7. ASSUME WriteTail(p) PROVE WorkerInv(p)'
    <3>1. /\ data' = [data EXCEPT ![handle[p]]["tail"] = out[p]]
          /\ pc' = [pc EXCEPT ![p] = "rename"] /\ pc[p] = "writeTail"
      BY <2>7 DEF WriteTail, WriteHalf, Goto
    <3>2. data[handle[p]]["head"] = out[p]
      BY <3>1 DEF IndInv, WorkerInv, SetState
    <3>3. data'[handle[p]] = Pickle(out[p])
      BY <2>1, <3>1, <3>2 DEF IndInv, TypeOK, Pickle, Halves
    <3>4. data'[handle'[p]] = Pickle(out[p])'
      BY <2>3, <3>3 DEF Pickle
    <3>5. pc'[p] = "rename"
      BY <3>1 DEF IndInv, TypeOK
    <3>6. OwnsKey(p) /\ Handles(p) /\ SetState(p)
      BY DEF IndInv, WorkerInv
    <3>7. OwnsKey(p)'
      BY <2>1, <2>3, <3>1, <3>4, <3>5, <3>6 DEF OwnsKey
    <3>8. Handles(p)'
      BY <2>1, <2>3, <3>1, <3>4, <3>5, <3>6 DEF Handles
    <3>9. SetState(p)'
      BY <2>1, <2>3, <3>1, <3>4, <3>5, <3>6 DEF SetState
    <3> QED
      BY <2>1, <2>3, <3>1, <3>4, <3>5, <3>6, <3>7, <3>8, <3>9 DEF WorkerInv
  <2>8. ASSUME NEW q \in Procs \ {p} PROVE WorkerInv(q)'
    <3>1. WorkerInv(q)
      BY DEF IndInv
    <3>2. pc'[q] = pc[q]
      BY <1>10 DEF WriteHead, WriteTail, WriteHalf, Goto, IndInv, TypeOK
    <3>3. pc[q] \in Writing => handle[q] # handle[p] /\ handle[q] \in Inodes
      <4>1. pc[q] \in Writing => key[q] # key[p]
        BY <2>1, AloneOnKey
      <4>2. pc[q] \in Writing => key[q] \in Keys /\ handle[q] = lock[key[q]] /\ handle[q] # None
        BY <3>1 DEF WorkerInv, OwnsKey, Handles
      <4> QED
        BY <2>1, <4>1, <4>2 DEF IndInv, NamesDistinct, TypeOK
    <3>4. pc[q] \in Writing => data'[handle[q]] = data[handle[q]]
      BY <2>2, <3>3
    <3> QED
      BY <2>3, <3>1, <3>2, <3>4 DEF WorkerInv, OwnsKey, Handles, SetState, Pickle
  <2> QED
    BY <1>0, <1>10, <2>4, <2>5, <2>6, <2>7, <2>8 DEF IndInv
<1>11. ASSUME NEW p \in Procs, DumpFails(p) PROVE IndInv'
  <2>1. WorkerInv(p)'
    BY <1>11 DEF DumpFails, Goto, files, local, IndInv, TypeOK, WorkerInv, OwnsKey,
                 Handles, SetState
  <2>2. \A q \in Procs \ {p} : /\ pc'[q] = pc[q] /\ key'[q] = key[q]
                                /\ handle'[q] = handle[q] /\ out'[q] = out[q]
    BY <1>11 DEF DumpFails, Goto, local, IndInv, TypeOK
  <2> QED
    BY <1>0, <1>11, <2>1, <2>2, OwnStep DEF DumpFails
<1>12. ASSUME NEW p \in Procs, Rename(p) PROVE IndInv'
  <2>1. /\ pc[p] = "rename" /\ key[p] \in Keys /\ out[p] \in Values
        /\ handle[p] # None /\ handle[p] = lock[key[p]]
        /\ data[lock[key[p]]] = Pickle(out[p])
    BY <1>12 DEF Rename, IndInv, WorkerInv, OwnsKey, Handles, SetState
  <2>2. /\ final' = [final EXCEPT ![key[p]] = lock[key[p]]]
        /\ lock' = [lock EXCEPT ![key[p]] = None]
        /\ pc' = [pc EXCEPT ![p] = "idle"]
        /\ handle' = [handle EXCEPT ![p] = None]
        /\ UNCHANGED <<data, key, out, owner>>
    BY <1>12, <2>1 DEF Rename, Goto
  <2>3. NamesDistinct'
    BY <2>1, <2>2 DEF IndInv, TypeOK, NamesDistinct
  <2>4. PublishedIsWhole'
    BY <2>1, <2>2 DEF IndInv, TypeOK, PublishedIsWhole, Whole
  <2>5. WorkerInv(p)'
    BY <2>2 DEF IndInv, TypeOK, WorkerInv, OwnsKey, Handles, SetState
  <2>6. ASSUME NEW q \in Procs \ {p} PROVE WorkerInv(q)'
    <3>1. WorkerInv(q)
      BY DEF IndInv
    <3>2. pc'[q] = pc[q] /\ handle'[q] = handle[q]
      BY <2>2 DEF IndInv, TypeOK
    <3>3. pc[q] \notin Settled => /\ lock'[key[q]] = lock[key[q]]
                                 /\ final'[key[q]] = final[key[q]]
      <4>1. pc[q] \notin Settled => key[q] # key[p]
        BY <2>1, AloneOnKey
      <4> QED
        BY <2>2, <4>1, <3>1 DEF IndInv, TypeOK, WorkerInv, OwnsKey
    <3> QED
      BY <2>2, <3>1, <3>2, <3>3 DEF WorkerInv, OwnsKey, Handles, SetState, Pickle
  <2> QED
    BY <1>0, <2>3, <2>4, <2>5, <2>6 DEF IndInv
<1>13. ASSUME NEW r \in Runs, Restart(r) PROVE IndInv'
  <2>1. \A p \in Procs : pc'[p] = "idle" /\ handle'[p] = None
    BY <1>13, CacheAssumption DEF Restart, SingleRun
  <2>2. \A p \in Procs : WorkerInv(p)'
    BY <2>1 DEF WorkerInv, OwnsKey, Handles, SetState
  <2>3. NamesDistinct' /\ PublishedIsWhole'
    BY <1>13 DEF Restart, files, IndInv, NamesDistinct, PublishedIsWhole, Whole
  <2> QED
    BY <1>0, <2>2, <2>3 DEF IndInv
<1>14. ASSUME NEW p \in Procs, Continue(p) PROVE IndInv'
  <2>1. WorkerInv(p)'
    BY <1>14 DEF Continue, Goto, files, local, IndInv, TypeOK, WorkerInv, OwnsKey,
                 Handles, SetState
  <2>2. \A q \in Procs \ {p} : /\ pc'[q] = pc[q] /\ key'[q] = key[q]
                                /\ handle'[q] = handle[q] /\ out'[q] = out[q]
    BY <1>14 DEF Continue, Goto, local, IndInv, TypeOK
  <2> QED
    BY <1>0, <1>14, <2>1, <2>2, OwnStep DEF Continue
<1>15. CASE Quiet \/ UNCHANGED vars
  BY <1>0, <1>15 DEF Quiet, vars, IndInv, WorkerInv, OwnsKey, NamesDistinct, Handles,
                     SetState, PublishedIsWhole, Whole, Pickle
<1> QED
  BY <1>1, <1>2, <1>3, <1>4, <1>5, <1>6, <1>7, <1>8, <1>9, <1>10, <1>11, <1>12,
     <1>13, <1>14, <1>15 DEF Next, Work, Get, Set

LEMMA InvInit == Init => IndInv
<1> SUFFICES ASSUME Init PROVE IndInv
  OBVIOUS
<1>1. TypeOK
  BY CacheAssumption DEF Init, TypeOK, PCs, Empty, ZeroMetrics, Halves, Counters
<1> QED
  BY <1>1 DEF Init, IndInv, WorkerInv, OwnsKey, NamesDistinct, Handles, SetState,
              PublishedIsWhole, Settled, Writing

\* The inductive invariant holds throughout a single run and its restarts.
THEOREM Invariance == ASSUME SingleRun PROVE Spec => []IndInv
<1>1. IndInv /\ [Next]_vars => IndInv'
  BY InvStep
<1> QED
  BY <1>1, InvInit, PTL DEF Spec

\* One run at a time: what lies under an entry's final name is a whole pickle,
\* wherever workers were killed before.
THEOREM EntriesAreWhole == ASSUME SingleRun PROVE Spec => []PublishedIsWhole
<1>1. IndInv => PublishedIsWhole
  BY DEF IndInv
<1> QED
  BY <1>1, Invariance, PTL

\* One run at a time: no worker of the pool disturbs another's get or set.
THEOREM WorkersDoNotInterfere == ASSUME SingleRun PROVE Spec => []NoInterference
<1>1. IndInv => NoInterference
  BY DEF IndInv, NoInterference, WorkerInv
<1> QED
  BY <1>1, Invariance, PTL

-----------------------------------------------------------------------------
\* A step either leaves every entry alone or renames a lock file to an entry
\* that did not exist.
LEMMA EntryStep ==
  ASSUME SingleRun, IndInv, [Next]_vars
  PROVE  \/ UNCHANGED final
         \/ \E p \in Procs : /\ Rename(p) /\ key[p] \in Keys /\ final[key[p]] = None
                            /\ handle[p] = lock[key[p]] /\ lock[key[p]] # None
<1>1. ASSUME NEW p \in Procs, Rename(p)
      PROVE  /\ key[p] \in Keys /\ final[key[p]] = None
             /\ handle[p] = lock[key[p]] /\ lock[key[p]] # None
  BY <1>1 DEF Rename, IndInv, WorkerInv, OwnsKey, SetState, Handles, Settled, Failed, Writing
<1>2. ASSUME NEW p \in Procs, Work(p), ~ Rename(p) PROVE UNCHANGED final
  BY <1>2 DEF Work, Get, GetLock, GetOpen, GetLoad, UseHit, Compute, Set, SetCheck, SetLock,
              SetOpen, WriteHead, WriteTail, WriteHalf, DumpFails, files
<1>3. CASE UNCHANGED vars \/ Quiet
  BY <1>3 DEF vars, Quiet
<1>4. ASSUME NEW r \in Runs, Restart(r) PROVE UNCHANGED final
  BY <1>4 DEF Restart, files
<1>5. ASSUME NEW p \in Procs, Continue(p) \/ \E k \in Keys : Begin(p, k) PROVE UNCHANGED final
  BY <1>5 DEF Continue, Begin, files
<1> QED
  BY <1>1, <1>2, <1>3, <1>4, <1>5 DEF Next

\* One run at a time, set keeps its word: an entry is never written again.
THEOREM NeverRewritten == ASSUME SingleRun PROVE Spec => DontWriteIfExists
<1>1. ASSUME IndInv, [Next]_vars
      PROVE  [\A k \in Keys : final[k] # None => final'[k] = final[k]]_final
  <2>1. CASE UNCHANGED final
    BY <2>1
  <2>2. ASSUME NEW p \in Procs, Rename(p), final[key[p]] = None
        PROVE  \A k \in Keys : final[k] # None => final'[k] = final[k]
    BY <1>1, <2>2 DEF Rename, IndInv, TypeOK
  <2> QED
    BY <1>1, <2>1, <2>2, EntryStep
<1> QED
  BY <1>1, Invariance, PTL DEF Spec, DontWriteIfExists

\* A lock file that lost its writer keeps its name and gets no new writer, and
\* its key gets no entry.
LEMMA OrphanStep ==
  ASSUME SingleRun, IndInv, [Next]_vars, NEW k \in Keys, Orphaned(k)
  PROVE  Orphaned(k)' /\ final'[k] = final[k]
<1> USE DEF Settled, Failed, Writing
<1>1. ASSUME NEW p \in Procs, Work(p) PROVE Orphaned(k)' /\ final'[k] = final[k]
  <2>1. CASE GetLock(p) \/ GetLoad(p) \/ UseHit(p) \/ Compute(p) \/ SetCheck(p) \/ SetLock(p)
             \/ DumpFails(p) \/ WriteHead(p) \/ WriteTail(p)
    BY <2>1 DEF GetLock, GetLoad, UseHit, Compute, SetCheck, SetLock, DumpFails, WriteHead,
                WriteTail, WriteHalf, files, local, IndInv, TypeOK, Orphaned
  <2>2. CASE GetOpen(p)
    <3>1. key[p] \in Keys
      BY <2>2 DEF GetOpen, IndInv, WorkerInv, OwnsKey
    <3>2. lock[k] # None /\ lock[k] # final[key[p]]
      BY <3>1 DEF Orphaned, IndInv, NamesDistinct
    <3> QED
      BY <2>2, <3>2 DEF GetOpen, files, IndInv, TypeOK, Orphaned
  <2>3. CASE SetOpen(p)
    <3>1. key[p] \in Keys /\ lock[key[p]] = None /\ key[p] # k
      BY <2>3 DEF SetOpen, IndInv, WorkerInv, OwnsKey, SetState, Orphaned
    <3>2. PICK i \in Inodes : /\ ~ InUse(i)
                              /\ lock' = [lock EXCEPT ![key[p]] = i]
                              /\ handle' = [handle EXCEPT ![p] = i]
                              /\ final' = final
      BY <2>3, <3>1 DEF SetOpen
    <3> QED
      BY <3>1, <3>2 DEF IndInv, TypeOK, Orphaned, InUse
  <2>4. CASE Rename(p)
    <3>1. key[p] # k
      BY <2>4 DEF Rename, IndInv, WorkerInv, Handles, Orphaned
    <3> QED
      BY <2>4, <3>1 DEF Rename, IndInv, TypeOK, Orphaned
  <2> QED
    BY <1>1, <2>1, <2>2, <2>3, <2>4 DEF Work, Get, Set
<1>2. ASSUME NEW p \in Procs, Continue(p) \/ \E j \in Keys : Begin(p, j)
      PROVE  Orphaned(k)' /\ final'[k] = final[k]
  BY <1>2 DEF Continue, Begin, files, local, Orphaned
<1>3. ASSUME NEW r \in Runs, Restart(r) PROVE Orphaned(k)' /\ final'[k] = final[k]
  BY <1>3, CacheAssumption DEF Restart, files, IndInv, TypeOK, Orphaned
<1>4. CASE UNCHANGED vars \/ Quiet
  BY <1>4 DEF vars, Quiet, Orphaned
<1> QED
  BY <1>1, <1>2, <1>3, <1>4 DEF Next

\* One run at a time: a lock file whose writer was killed or failed blocks its
\* key in this and every later run.
THEOREM OrphanStays == ASSUME SingleRun PROVE Spec => OrphanIsForever
<1>1. ASSUME IndInv, [Next]_vars
      PROVE  [\A k \in Keys : Orphaned(k) => /\ Orphaned(k)'
                                             /\ final'[k] = final[k]]_vars
  BY <1>1, OrphanStep
<1> QED
  BY <1>1, Invariance, PTL DEF Spec, OrphanIsForever

-----------------------------------------------------------------------------
\* A step that neither touches the entries and their content nor serves or
\* releases a hit is a stutter of the map.
LEMMA MapUnchanged ==
  ASSUME UNCHANGED final, \A k \in Keys : final[k] # None => data'[final[k]] = data[final[k]]
  PROVE  MapOf' = MapOf
  BY DEF MapOf

LEMMA RefinementStep ==
  ASSUME SingleRun, IndInv, [Next]_vars
  PROVE  [Abstract!Next]_(Abstract!vars)
<1> USE DEF Settled, Failed, Writing
<1>0. TypeOK' /\ TypeOK
  BY InvStep DEF IndInv
<1>1. ASSUME NEW p \in Procs, GetLoad(p) PROVE [Abstract!Next]_(Abstract!vars)
  <2>1. MapOf' = MapOf
    BY <1>1, MapUnchanged DEF GetLoad, files
  <2>2. CASE pc'[p] = "hit"
    <3>1. /\ key[p] \in Keys /\ final[key[p]] # None /\ handle[p] = final[key[p]]
          /\ out' = [out EXCEPT ![p] = data[handle[p]]["head"]]
          /\ pc' = [pc EXCEPT ![p] = "hit"] /\ UNCHANGED key
      <4>1. pc[p] = "getLoad" /\ out' = [out EXCEPT ![p] = data[handle[p]]["head"]]
            /\ pc' = [pc EXCEPT ![p] = "hit"] /\ UNCHANGED key
        BY <1>0, <1>1, <2>2 DEF GetLoad, Goto, Miss, TypeOK
      <4>2. OwnsKey(p) /\ Handles(p)
        BY DEF IndInv, WorkerInv
      <4> QED
        BY <4>1, <4>2 DEF OwnsKey, Handles
    <3>2. data[final[key[p]]]["head"] \in Values
      <4>1. PICK v \in Values : data[final[key[p]]] = Pickle(v)
        BY <3>1 DEF IndInv, PublishedIsWhole, Whole
      <4> QED
        BY <4>1 DEF Pickle, Halves
    <3>3. MapOf[key[p]] = data[final[key[p]]]["head"] /\ MapOf[key[p]] # None
      BY <3>1, <3>2, CacheAssumption DEF MapOf
    <3>4. ServedOf' = [ServedOf EXCEPT ![p] = [key |-> key[p], value |-> MapOf[key[p]]]]
      BY <1>0, <3>1, <3>3 DEF ServedOf, TypeOK
    <3> QED
      BY <2>1, <3>1, <3>3, <3>4 DEF Abstract!Next, Abstract!Serve
  <2>3. CASE pc'[p] # "hit"
    <3>1. ServedOf' = ServedOf
      BY <1>0, <1>1, <2>3 DEF GetLoad, Goto, Miss, ServedOf, TypeOK
    <3> QED
      BY <2>1, <3>1 DEF Abstract!vars
  <2> QED
    BY <2>2, <2>3
<1>2. ASSUME NEW p \in Procs, UseHit(p) PROVE [Abstract!Next]_(Abstract!vars)
  <2>1. MapOf' = MapOf
    BY <1>2, MapUnchanged DEF UseHit, files
  <2>2. ServedOf' = [q \in Procs |-> IF q \in {p} THEN None ELSE ServedOf[q]]
    BY <1>0, <1>2 DEF UseHit, Goto, local, ServedOf, TypeOK
  <2> QED
    BY <2>1, <2>2 DEF Abstract!Next, Abstract!Forget
<1>3. ASSUME NEW p \in Procs, Rename(p) PROVE [Abstract!Next]_(Abstract!vars)
  <2>1. /\ key[p] \in Keys /\ final[key[p]] = None
        /\ handle[p] = lock[key[p]] /\ lock[key[p]] # None
        /\ out[p] \in Values /\ data[lock[key[p]]] = Pickle(out[p])
    BY <1>3 DEF Rename, IndInv, WorkerInv, OwnsKey, SetState, Handles
  <2>2. /\ final' = [final EXCEPT ![key[p]] = lock[key[p]]]
        /\ pc' = [pc EXCEPT ![p] = "idle"] /\ pc[p] = "rename"
        /\ UNCHANGED <<data, key, out>>
    BY <1>3, <2>1 DEF Rename, Goto
  <2>3. data[lock[key[p]]]["head"] = out[p]
    BY <2>1 DEF Pickle, Halves
  <2>4. MapOf[key[p]] = None /\ MapOf' = [MapOf EXCEPT ![key[p]] = out[p]]
    BY <1>0, <2>1, <2>2, <2>3 DEF MapOf, TypeOK
  <2>5. ServedOf' = ServedOf
    BY <1>0, <2>2 DEF ServedOf, TypeOK
  <2> QED
    BY <2>1, <2>4, <2>5 DEF Abstract!Next, Abstract!Fill
<1>4. ASSUME NEW r \in Runs, Restart(r) PROVE [Abstract!Next]_(Abstract!vars)
  <2>1. MapOf' = MapOf
    BY <1>4, MapUnchanged DEF Restart, files
  <2>2. ServedOf' = [q \in Procs |-> IF q \in Procs THEN None ELSE ServedOf[q]]
    BY <1>4, CacheAssumption DEF Restart, SingleRun, ServedOf
  <2> QED
    BY <2>1, <2>2 DEF Abstract!Next, Abstract!Forget
<1>5. ASSUME NEW p \in Procs, SetOpen(p) \/ WriteHead(p) \/ WriteTail(p)
      PROVE  [Abstract!Next]_(Abstract!vars)
  <2>1. UNCHANGED <<final, key, out>> /\ pc'[p] # "hit" /\ pc[p] # "hit"
        /\ \A q \in Procs : q # p => pc'[q] = pc[q]
    BY <1>0, <1>5 DEF SetOpen, WriteHead, WriteTail, WriteHalf, Goto, local, TypeOK
  <2>2. ServedOf' = ServedOf
    BY <2>1 DEF ServedOf
  <2>3. \A k \in Keys : final[k] # None => data'[final[k]] = data[final[k]]
    <3>1. CASE SetOpen(p)
      <4>1. lock[key[p]] = None
        BY <3>1 DEF SetOpen, IndInv, WorkerInv, SetState
      <4>2. PICK i \in Inodes : ~ InUse(i) /\ data' = [data EXCEPT ![i] = Empty]
        BY <3>1, <4>1 DEF SetOpen
      <4> QED
        BY <1>0, <4>2 DEF InUse, TypeOK
    <3>2. CASE WriteHead(p) \/ WriteTail(p)
      <4>1. pc[p] \in Writing
        BY <3>2 DEF WriteHead, WriteTail, WriteHalf
      <4>2. handle[p] = lock[key[p]] /\ key[p] \in Keys /\ handle[p] # None
        BY <4>1 DEF IndInv, WorkerInv, OwnsKey, Handles
      <4>3. \A i \in Inodes : i # handle[p] => data'[i] = data[i]
        BY <1>0, <3>2 DEF WriteHead, WriteTail, WriteHalf, TypeOK
      <4>4. \A k \in Keys : final[k] # handle[p]
        BY <4>2 DEF IndInv, NamesDistinct
      <4> QED
        BY <1>0, <4>3, <4>4 DEF TypeOK
    <3> QED
      BY <1>5, <3>1, <3>2
  <2> QED
    BY <2>1, <2>2, <2>3, MapUnchanged DEF Abstract!vars
<1>6. ASSUME NEW p \in Procs,
             \/ GetLock(p) \/ GetOpen(p) \/ Compute(p) \/ SetCheck(p) \/ SetLock(p)
             \/ DumpFails(p) \/ Continue(p) \/ \E k \in Keys : Begin(p, k)
      PROVE  [Abstract!Next]_(Abstract!vars)
  <2>1. /\ UNCHANGED files
        /\ pc[p] # "hit" /\ pc'[p] # "hit"
        /\ \A q \in Procs : q # p => pc'[q] = pc[q] /\ key'[q] = key[q] /\ out'[q] = out[q]
    <3>1. CASE GetLock(p)
      BY <1>0, <3>1 DEF GetLock, Miss, local, Goto, TypeOK, files
    <3>2. CASE GetOpen(p)
      BY <1>0, <3>2 DEF GetOpen, Miss, Goto, TypeOK, files
    <3>3. CASE Compute(p)
      BY <1>0, <3>3 DEF Compute, Goto, TypeOK, files
    <3>4. CASE SetCheck(p)
      BY <1>0, <3>4 DEF SetCheck, local, Goto, TypeOK, files
    <3>5. CASE SetLock(p)
      BY <1>0, <3>5 DEF SetLock, Goto, TypeOK, files
    <3>6. CASE DumpFails(p)
      BY <1>0, <3>6 DEF DumpFails, local, Goto, TypeOK, files
    <3>7. CASE Continue(p)
      BY <1>0, <3>7 DEF Continue, local, Goto, TypeOK, files
    <3>8. ASSUME NEW k \in Keys, Begin(p, k)
          PROVE  /\ UNCHANGED files
                 /\ pc[p] # "hit" /\ pc'[p] # "hit"
                 /\ \A q \in Procs : q # p =>
                      pc'[q] = pc[q] /\ key'[q] = key[q] /\ out'[q] = out[q]
      BY <1>0, <3>8 DEF Begin, Goto, TypeOK, files
    <3> QED
      BY <1>6, <3>1, <3>2, <3>3, <3>4, <3>5, <3>6, <3>7, <3>8
  <2>3. ServedOf' = ServedOf
    BY <2>1 DEF ServedOf
  <2> QED
    BY <2>1, <2>3, MapUnchanged DEF Abstract!vars, files
<1>7. CASE UNCHANGED vars \/ Quiet
  BY <1>7 DEF vars, Quiet, Abstract!vars, MapOf, ServedOf
<1> QED
  BY <1>1, <1>2, <1>3, <1>4, <1>5, <1>6, <1>7 DEF Next, Work, Get, Set

\* One run at a time: get and set over lock files implement the write-once map.
THEOREM Refinement == ASSUME SingleRun PROVE Spec => ImplementsMap
<1>1. Init => Abstract!Init
  BY DEF Init, Abstract!Init, MapOf, ServedOf
<1>2. IndInv /\ [Next]_vars => [Abstract!Next]_(Abstract!vars)
  BY RefinementStep
<1> QED
  BY <1>1, <1>2, Invariance, PTL DEF Spec, ImplementsMap, Abstract!Spec
=============================================================================
