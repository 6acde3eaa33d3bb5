------------------------------ MODULE MC_Stores ------------------------------
(***************************************************************************)
(* Seven parts that do not touch each other, checked in one run: the       *)
(* initial state chooses which of them moves and the others stay as they   *)
(* began.  The state graph is the disjoint union of theirs.                *)
(***************************************************************************)
EXTENDS SecretStore, StateStore, CookieJar, ConfigStore, VfsMounts, DockerVfsRun

VARIABLE part  \* the part that moves

CONSTANTS k1, a

MCPath == {<<"a">>, <<"a", "d">>, <<"a", "d", "f">>, <<"a", "g">>}
MCNamed == MCPath \ {<<"a", "g">>}
MCTarget == <<"a">>
MCOnDisk == [p \in MCPath |-> IF p = <<"a">> THEN None ELSE IF p = <<"a", "d">> THEN Folder ELSE a]

vaults == inVaultVars
stores == inStoreVars
jars == inJarVars
configs == inConfigs

StoresInit ==
  /\ part \in {"secrets", "state", "cookies", "configs", "mount", "git", "docker"}
  /\ SecretInit /\ (part # "secrets" => currentKey = k1)
  /\ StateInit /\ JarInit /\ ConfigInit /\ MountInit /\ GitInit /\ RunInit

StoresNext ==
  /\ UNCHANGED part
  /\ \/ part = "secrets" /\ SecretNext /\ UNCHANGED <<stores, jars, configs, treeVars, inMount, inGit, inRun>>
     \/ part = "state" /\ StateNext /\ UNCHANGED <<vaults, jars, configs, treeVars, inMount, inGit, inRun>>
     \/ part = "cookies" /\ JarNext /\ UNCHANGED <<vaults, stores, configs, treeVars, inMount, inGit, inRun>>
     \/ part = "configs" /\ ConfigNext /\ UNCHANGED <<vaults, stores, jars, treeVars, inMount, inGit, inRun>>
     \/ part = "mount" /\ MountNext /\ UNCHANGED <<now, vaults, stores, jars, configs, inGit, inRun>>
     \/ part = "git" /\ GitNext /\ UNCHANGED <<now, vaults, stores, jars, configs, inMount, inRun>>
     \/ part = "docker" /\ RunNext /\ UNCHANGED <<now, vaults, stores, jars, configs, inMount, inGit>>

storesVars == <<part, now, vaults, stores, jars, configs, treeVars, inMount, inGit, inRun>>

StoresSpec == StoresInit /\ [][StoresNext]_storesVars
-----------------------------------------------------------------------------
\* Every part keeps to its types.
StoresTypeOK ==
  /\ SecretTypeOK /\ StateTypeOK /\ JarTypeOK /\ ConfigTypeOK
  /\ MountTypeOK /\ GitTypeOK /\ RunTypeOK

\* What a transfer into the VFS is to bring is there when the transfer is done,
\* whatever the session did meanwhile: the tree of a disk, the files of a
\* repository, the work of a container; and what is there can be listed.
TransfersArrive ==
  MountedUnlessChanged /\ GitResultIsTrue /\ ContainersWorkArrives /\ ListedUnlessMisused

\* Calls that overlap lose nothing silently: no cookie of another answer, no first
\* date of a configuration unless saves overlapped, and no file of the session to a
\* container that did not touch it.
OverlapsLoseNothing == NoCookieLost /\ SavedAtLostOnlyByOverlap /\ ReadBackKeepsOthers
=============================================================================
