\* Stores that do not overlap a removal, and one call on a disk image at a time.
SPECIFICATION StoresSpec
CONSTANTS
  VMThreads = {u1, u2, u3}
  VMs = {vm1, vm2}
  VMOverlap = FALSE
  Threads = {t1, t2}
  Pods = {pod1}
  Names = {c1, c2}
  Maps = {m1, m2}
  Nil = Nil
  ContainerOverlap = FALSE
  DiskCalls = {p1}
  MaxBlocks = 3
  SparseBlock = 2
  MaxTime = 1
  Concurrent = FALSE
  ExactSize = TRUE
  Blocks = 3
  MaxWrites = 2
  Volumes = {"v1", "v2"}
  MountMaps = {"cm1", "cm2"}
  MaxMounts = 2
  MaxProjected = 2
  ConfigMaps = {"cm1"}
  Secrets = {"s1", "s2"}
  MaxVolumes = 2
  MaxSources = 2
  MaxRefs = 2
  Automounts = {TRUE}
  MaxInterfaces = 2
  MaxAddrs = 2
INVARIANTS
  CounterFollows RemovedOnce FreshDigestIsTrue ResultDescribesArchive
     AddressIsPreferred
PROPERTIES  InfosAreKept   ValidatedIsGenuine
CHECK_DEADLOCK FALSE
