---------------------------- MODULE PodCredentials ----------------------------
(***************************************************************************)
(* What MacOSExecProvider.CreatePod collects before it starts a pod: the     *)
(* config map and the token of its projected volumes (pod_credentials.go),   *)
(* and the credentials of its image pull secrets (image_pull_credentials.go, *)
(* pkg/resource/registry_credentials.go).  Each request to the API server    *)
(* is one step and may fail.                                                 *)
(***************************************************************************)
EXTENDS Lists

CONSTANTS
  ConfigMaps, Secrets,   \* names
  MaxVolumes, MaxSources, MaxRefs,
  Automounts             \* the values AutomountServiceAccountToken may have

ASSUME CredentialsAssumption ==
  /\ {MaxVolumes, MaxSources, MaxRefs} \subseteq Nat
  /\ Automounts \subseteq BOOLEAN
  /\ "none" \notin ConfigMaps   \* it stands for the nil pointer

VARIABLES
  pod,          \* volumes (sequences of projection sources), pull secrets, ...
  account,      \* the pull secrets of the pod's service account
  held,         \* whether each secret holds a login for the pod's image
  credentialPC,
  configMaps, serviceAccountToken,
  secretRefs,   \* the secrets still to be fetched
  keyring       \* the secrets fetched

credentialVars == <<pod, account, held, credentialPC, configMaps, serviceAccountToken, secretRefs, keyring>>

Sources == ConfigMaps \cup {"token", "downward"}

CredentialInit ==
  /\ pod = [volumes |-> <<>>, pullSecrets |-> <<>>, automount |-> TRUE]
  /\ account = <<>> /\ held = [name \in Secrets |-> FALSE] /\ credentialPC = "idle"
  /\ configMaps = {} /\ serviceAccountToken = FALSE /\ secretRefs = <<>> /\ keyring = <<>>

\* for _, x := range s, where Step is the body and start what it begins with.
Loop(Step(_, _), start, s) ==
  LET after[i \in DOMAIN s] == Step(IF i = 1 THEN start ELSE after[i - 1], s[i])
  IN IF s = <<>> THEN start ELSE after[Len(s)]

CredentialsFail == credentialPC' = "failed" /\ UNCHANGED <<configMaps, serviceAccountToken, secretRefs, keyring>>

\* CreatePod is called.
CreateBegins ==
  /\ credentialPC = "idle" /\ credentialPC' = "projections"
  /\ pod' \in [volumes : ListsUpTo(ListsUpTo(Sources, MaxSources), MaxVolumes),
               pullSecrets : ListsUpTo(Secrets, MaxRefs), automount : Automounts]
  /\ account' \in ListsUpTo(Secrets, MaxRefs)
  /\ held' \in [Secrets -> BOOLEAN]
  /\ UNCHANGED <<configMaps, serviceAccountToken, secretRefs, keyring>>

-----------------------------------------------------------------------------
(* findProjections: the inner loop is left once both have been found.      *)

\* A plausible slip: it is left once either has been found.
EitherFound(svcProj, cmProj) == svcProj \/ cmProj # "none"

BothFound(svcProj, cmProj) == svcProj /\ cmProj # "none"

NothingFound == [svcProj |-> FALSE, cmProj |-> "none", left |-> FALSE]

ScanSource(found, source) ==
  LET svcProj == found.svcProj \/ source = "token"
      cmProj == IF source \in ConfigMaps THEN source ELSE found.cmProj
  IN IF found.left THEN found
     ELSE [svcProj |-> svcProj, cmProj |-> cmProj, left |-> BothFound(svcProj, cmProj)]

ScanVolume(found, volume) == Loop(ScanSource, [found EXCEPT !.left = FALSE], volume)

FindProjections(volumes) == Loop(ScanVolume, NothingFound, volumes)

Projections == FindProjections(pod.volumes)

\* extractPodCredentials with populateConfigMaps: Get the config map, if any.
PopulateConfigMaps ==
  /\ credentialPC = "projections"
  /\ \/ /\ configMaps' = IF pod.automount /\ Projections.cmProj # "none" THEN {Projections.cmProj} ELSE {}
        /\ credentialPC' = IF pod.automount /\ Projections.svcProj THEN "token" ELSE "account"
        /\ UNCHANGED <<serviceAccountToken, secretRefs, keyring>>
     \/ pod.automount /\ Projections.cmProj # "none" /\ CredentialsFail
  /\ UNCHANGED <<pod, account, held>>

CreateServiceAccountToken ==
  /\ credentialPC = "token"
  /\ \/ serviceAccountToken' = TRUE /\ credentialPC' = "account" /\ UNCHANGED <<configMaps, secretRefs, keyring>>
     \/ CredentialsFail
  /\ UNCHANGED <<pod, account, held>>

-----------------------------------------------------------------------------
(* resolveImagePullCredentials.                                            *)

\* A plausible slip: the service account's secrets come first.
AccountFirst(ofPod, ofAccount) == ofAccount \o ofPod

AllRefs(ofPod, ofAccount) == ofPod \o ofAccount

\* The map of names seen is shared by both loops.
AddUnseen(refs, name) == IF name \in Range(refs) THEN refs ELSE Append(refs, name)

Unique(names) == Loop(AddUnseen, <<>>, names)

GetServiceAccount ==
  /\ credentialPC = "account"
  /\ \/ /\ secretRefs' = Unique(AllRefs(pod.pullSecrets, account))
        /\ credentialPC' = "secrets" /\ UNCHANGED <<configMaps, serviceAccountToken, keyring>>
     \/ CredentialsFail
  /\ UNCHANGED <<pod, account, held>>

\* Get, parseImagePullSecret and parseDockerConfigJSON, keyring.Add.
GetSecret ==
  /\ credentialPC = "secrets" /\ secretRefs # <<>>
  /\ \/ /\ keyring' = Append(keyring, Head(secretRefs)) /\ secretRefs' = Tail(secretRefs)
        /\ UNCHANGED <<credentialPC, configMaps, serviceAccountToken>>
     \/ CredentialsFail
  /\ UNCHANGED <<pod, account, held>>

\* Everything is there: runtimeClient.CreatePod.
Resolved ==
  /\ credentialPC = "secrets" /\ secretRefs = <<>> /\ credentialPC' = "started"
  /\ UNCHANGED <<pod, account, held, configMaps, serviceAccountToken, secretRefs, keyring>>

\* ForImage: the first credentials of the keyring that are not empty.  A secret
\* with none for the image, or with empty ones, is passed over.
FirstHeld(refs) == FirstIndex(refs, LAMBDA name : held[name])

ForImage == IF FirstHeld(keyring) = 0 THEN "none" ELSE keyring[FirstHeld(keyring)]

CredentialNext ==
  \/ CreateBegins \/ PopulateConfigMaps \/ CreateServiceAccountToken
  \/ GetServiceAccount \/ GetSecret \/ Resolved

CredentialSpec == CredentialInit /\ [][CredentialNext]_credentialVars

-----------------------------------------------------------------------------
Projected == UNION {Range(volume) : volume \in Range(pod.volumes)}

\* The credentials for the pod's image are those of a secret of the pod
\* whenever one has them, and else those of its service account: the first
\* that is named.
PodSecretsComeFirst ==
  credentialPC = "started" =>
    ForImage = IF FirstHeld(pod.pullSecrets) # 0 THEN pod.pullSecrets[FirstHeld(pod.pullSecrets)]
               ELSE IF FirstHeld(account) # 0 THEN account[FirstHeld(account)] ELSE "none"

\* A pod is started only with all it needs: the token and all config maps of
\* its projected volumes, and the pull secrets of the pod and of its service
\* account, each of them once.  It holds for pods with one config map and
\* automounting; otherwise config maps, or the token, are missing.
CredentialsSuffice ==
  credentialPC = "started" =>
    /\ Projected \cap ConfigMaps \subseteq configMaps
    /\ "token" \in Projected => serviceAccountToken
    /\ Range(keyring) = Range(pod.pullSecrets) \cup Range(account)
    /\ IsInjective(keyring)

=============================================================================
