SPECIFICATION Spec
CONSTANTS
  t1 = t1
  t2 = t2
  tag = tag
  main = main
  lib = lib
  any = any
  late = late
  page = page
  chart = chart
  repo = repo
  loose = loose
  web = web
  helm = helm
  p1 = p1
  p2 = p2
  p3 = p3
  v1 = v1
  v2 = v2
  None = None
  Absent = Absent
  Empty = Empty
  Local = Local
  Targets = {t1, t2}
  Items = {tag, main, lib, any, late, page, chart}
  Owner <- ItemOwner
  Forced = {tag, lib}
  Sources = {repo, loose, web, helm}
  Source <- ItemSource
  Uri <- SourceUri
  Kind <- SourceKind
  Paths = {p1, p2, p3}
  Path <- ItemPath
  Ignored = {page}
  Refs = {v1, v2}
  Ref <- ItemRef
  Head <- SourceHead
  Detached = {loose}
INVARIANT RightRevision
INVARIANT StoredAtPath
PROPERTY OverwritesAreForced
