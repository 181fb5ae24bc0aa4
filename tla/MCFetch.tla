------------------------------- MODULE MCFetch -------------------------------
(* An instance of Fetch: target t1 has a git repository at a tag (with      *)
(* force_fetch) and at its default branch, and another repository, whose    *)
(* HEAD is detached, at a tag (with force_fetch too). Target t2 has that    *)
(* repository without a ref, the first one at another revision for t1's     *)
(* path, a download and a chart.                                            *)
EXTENDS Fetch

CONSTANTS t1, t2, tag, main, lib, any, late, page, chart, repo, loose, web, helm,
          p1, p2, p3, v1, v2

ItemOwner == [i \in Items |-> IF i \in {tag, main, lib} THEN t1 ELSE t2]
ItemSource == [i \in Items |-> IF i \in {tag, main, late} THEN repo
                               ELSE IF i \in {lib, any} THEN loose
                               ELSE IF i = chart THEN helm ELSE web]
ItemPath == [i \in Items |-> IF i \in {tag, late} THEN p1
                             ELSE IF i \in {main, page, any} THEN p2 ELSE p3]
ItemRef == [i \in Items |-> IF i \in {tag, lib} THEN v2 ELSE None]
SourceHead == [s \in Sources |-> v1]
SourceKind == [s \in Sources |-> IF s \in {repo, loose} THEN "git"
                                 ELSE IF s = helm THEN "helm" ELSE "http"]
SourceUri == [s \in Sources |-> s]
=============================================================================
