------------------------------- MODULE MCStores -------------------------------
(***************************************************************************)
(* The parts that keep or put together data, in one model: the tables of     *)
(* machines and containers, disk images and their archives, the mounts and   *)
(* the credentials of a pod, and the description of the node.  They share    *)
(* no variable, so a step of one part is a stuttering step of every other,   *)
(* and it is enough to let one part act while the others rest in their       *)
(* initial states.                                                          *)
(***************************************************************************)
EXTENDS VMData, ContainerData, DiskImage, Compression, Mounts, PodCredentials, NodeSetup

storesVars == <<vmVars, containerVars, diskVars, compressVars, mountVars, credentialVars, setupVars>>

Parts == {"vm", "container", "disk", "compression", "mounts", "credentials", "node"}

Rests(part) ==
  CASE part = "vm" -> VMDataInit
    [] part = "container" -> ContainerInit
    [] part = "disk" -> DiskInit
    [] part = "compression" -> CompressInit
    [] part = "mounts" -> MountInit
    [] part = "credentials" -> CredentialInit
    [] part = "node" -> SetupInit

OnlyActive(part) == \A other \in Parts \ {part} : Rests(other)

StoresInit ==
  /\ VMDataInit /\ ContainerInit /\ DiskInit /\ CompressInit
  /\ MountInit /\ CredentialInit /\ SetupInit

StoresNext ==
  \/ /\ OnlyActive("vm") /\ VMDataNext
     /\ UNCHANGED <<containerVars, diskVars, compressVars, mountVars, credentialVars, setupVars>>
  \/ /\ OnlyActive("container") /\ ContainerNext
     /\ UNCHANGED <<vmVars, diskVars, compressVars, mountVars, credentialVars, setupVars>>
  \/ /\ OnlyActive("disk") /\ DiskNext
     /\ UNCHANGED <<vmVars, containerVars, compressVars, mountVars, credentialVars, setupVars>>
  \/ /\ OnlyActive("compression") /\ CompressNext
     /\ UNCHANGED <<vmVars, containerVars, diskVars, mountVars, credentialVars, setupVars>>
  \/ /\ OnlyActive("mounts") /\ MountNext
     /\ UNCHANGED <<vmVars, containerVars, diskVars, compressVars, credentialVars, setupVars>>
  \/ /\ OnlyActive("credentials") /\ CredentialNext
     /\ UNCHANGED <<vmVars, containerVars, diskVars, compressVars, mountVars, setupVars>>
  \/ /\ OnlyActive("node") /\ SetupNext
     /\ UNCHANGED <<vmVars, containerVars, diskVars, compressVars, mountVars, credentialVars>>

StoresSpec == StoresInit /\ [][StoresNext]_storesVars

=============================================================================
