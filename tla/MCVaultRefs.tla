---------------------------- MODULE MCVaultRefs ----------------------------
(* Two targets whose references share a path of the vault and one ref file. *)
EXTENDS VaultRefs, TLC

CONSTANTS t1, t2, r1, r2, m1, m2, p1, k1, k2

At(r, mount, key) == [ref |-> r, mount |-> mount, path |-> p1, key |-> key]
Param1 == [mount |-> m1, engine |-> "kv-v2"]

\* One target makes two refs, the other shares the second of them, or names
\* the place of the first, or another mount.
MCTagLists ==
  (t1 :> {<<At(r1, None, k1), At(r2, None, k2)>>, <<At(r1, None, k2)>>})
  @@ (t2 :> {<<At(r2, None, k2)>>, <<At(r2, m2, k1)>>})
MCParams ==
  (t1 :> {Param1}) @@ (t2 :> {Param1, [Param1 EXCEPT !.engine = "kv"], [Param1 EXCEPT !.mount = m2]})

\* One target whose tag names another mount than the parameters.
OtherMountTagLists == (t1 :> {<<At(r1, m2, k1)>>})
OneParams == (t1 :> {Param1})
=============================================================================
