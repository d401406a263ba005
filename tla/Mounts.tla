-------------------------------- MODULE Mounts --------------------------------
(***************************************************************************)
(* CreateContainerMounts of internal/volumes/mounts.go: for each volume      *)
(* mount of a container it makes the directory on the host and, for a        *)
(* projected volume, writes its files; each directory and file is one step,  *)
(* and may fail.  A path is <<volume>> or <<volume, file>>.                  *)
(***************************************************************************)
EXTENDS Lists

CONSTANTS
  Volumes,     \* names a mount may use
  MountMaps,   \* names a source may use
  MaxMounts, MaxProjected

ASSUME MountsAssumption == {MaxMounts, MaxProjected} \subseteq Nat

VARIABLES
  volumeMounts,   \* the names of the container's mounts
  volumeKind,           \* the kind of volume each name stands for in the pod
  projected,        \* the sources of its projected volumes
  extracted,     \* the config maps that were extracted for the pod
  nextMount, nextSource,   \* the mount, and the source of it, that is next
  mounts,         \* the result
  paths,          \* the directories and files made
  mountPC

mountVars == <<volumeMounts, volumeKind, projected, extracted, nextMount, nextSource, mounts, paths, mountPC>>
mountInputs == <<volumeMounts, volumeKind, projected, extracted>>

MountInit ==
  /\ volumeMounts = <<>> /\ volumeKind = <<>> /\ projected = <<>> /\ extracted = {}
  /\ nextMount = 1 /\ nextSource = 1 /\ mounts = <<>> /\ paths = {} /\ mountPC = "idle"

CreateContainerMounts ==
  /\ mountPC = "idle" /\ mountPC' = "mounting"
  /\ volumeMounts' \in ListsUpTo(Volumes, MaxMounts)
  /\ volumeKind' \in [Volumes -> {"none", "hostPath", "emptyDir", "projected", "other"}]
  /\ projected' \in ListsUpTo(MountMaps \cup {"token", "namespace", "fieldRef"}, MaxProjected)
  /\ extracted' \in SUBSET MountMaps
  /\ UNCHANGED <<nextMount, nextSource, mounts, paths>>

Volume == volumeMounts[nextMount]

Mounted(name) == mounts' = Append(mounts, name) /\ nextMount' = nextMount + 1 /\ nextSource' = 1

MountFails ==
  /\ mountPC \in {"mounting", "projecting"} /\ nextMount <= Len(volumeMounts) /\ mountPC' = "failed"
  /\ UNCHANGED <<mountInputs, nextMount, nextSource, mounts, paths>>

\* findPodVolumeSpec finds nothing, or a kind of volume that is not supported.
Skips ==
  /\ mountPC = "mounting" /\ nextMount <= Len(volumeMounts) /\ volumeKind[Volume] \in {"none", "other"}
  /\ nextMount' = nextMount + 1
  /\ UNCHANGED <<mountInputs, nextSource, mounts, paths, mountPC>>

\* MkdirAll on the host's path, or on the volume's path in the pod's root.
MakesDirectory ==
  /\ mountPC = "mounting" /\ nextMount <= Len(volumeMounts) /\ volumeKind[Volume] \notin {"none", "other"}
  /\ paths' = paths \cup {<<Volume>>}
  /\ IF volumeKind[Volume] = "projected" THEN mountPC' = "projecting" /\ UNCHANGED <<nextMount, nextSource, mounts>>
     ELSE Mounted(Volume) /\ UNCHANGED mountPC
  /\ UNCHANGED mountInputs

\* A plausible slip: a config map that was not extracted is passed over.
AnyConfigMap(s) == s \in MountMaps

Extracted(s) == s \in extracted

Unprovided == {"fieldRef"} \cup (MountMaps \ extracted)

\* The next source: the token, the items of a config map, or the namespace,
\* the only field that is supported.
WritesSource ==
  /\ mountPC = "projecting" /\ nextSource <= Len(projected)
  /\ LET s == projected[nextSource] IN
     /\ s \in MountMaps => Extracted(s)
     /\ paths' = paths \cup IF s \in Unprovided THEN {} ELSE {<<Volume, s>>}
  /\ nextSource' = nextSource + 1
  /\ UNCHANGED <<mountInputs, nextMount, mounts, mountPC>>

ProjectionEnds ==
  /\ mountPC = "projecting" /\ nextSource > Len(projected)
  /\ Mounted(Volume) /\ mountPC' = "mounting"
  /\ UNCHANGED <<mountInputs, paths>>

MountsReturn ==
  /\ mountPC = "mounting" /\ nextMount > Len(volumeMounts) /\ mountPC' = "returned"
  /\ UNCHANGED <<mountInputs, nextMount, nextSource, mounts, paths>>

MountNext ==
  \/ CreateContainerMounts
  \/ Skips \/ MakesDirectory \/ WritesSource \/ ProjectionEnds \/ MountsReturn \/ MountFails

MountSpec == MountInit /\ [][MountNext]_mountVars

-----------------------------------------------------------------------------
\* What the pod has no volume for, or not one of these kinds, is not mounted.
SupportedAt(i) == volumeKind[volumeMounts[i]] \notin {"none", "other"}

\* The sequence t consists of what s has at the positions P, in their order.
Selects(t, s, P) ==
  \E at \in [1..Len(t) -> P] :
    /\ \A i, j \in 1..Len(t) : i < j => at[i] < at[j]
    /\ \A p \in P : \E i \in 1..Len(t) : at[i] = p
    /\ \A i \in 1..Len(t) : t[i] = s[at[i]]

\* The result lists the container's mounts in their order, all those and only
\* those whose volume the pod has and whose kind is supported; each of them
\* exists on the host, and a projected one has all its files: a source that
\* cannot be provided fails the call, and no partly written volume is mounted.
MountsAreComplete ==
  /\ mountPC = "returned" => Selects(mounts, volumeMounts, {i \in DOMAIN volumeMounts : SupportedAt(i)})
  /\ \A i \in DOMAIN mounts :
       /\ <<mounts[i]>> \in paths
       /\ volumeKind[mounts[i]] = "projected" =>
            \A s \in Range(projected) \ {"fieldRef"} : <<mounts[i], s>> \in paths

=============================================================================
