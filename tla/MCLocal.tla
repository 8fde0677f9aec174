------------------------------- MODULE MCLocal -------------------------------
(***************************************************************************)
(* The four components that keep something on this computer, for TLC: the  *)
(* bookmarks, the images, the saved secrets and the single-instance guard. *)
(* They share no state, so a behaviour is one of any of them (its scene)   *)
(* with the others left in their first state; interleaving them would only *)
(* multiply their states.                                                  *)
(***************************************************************************)
EXTENDS BookmarkStore, CoverCache, SecureStore, SingleInstance

VARIABLE scene

bookmarksRest == saved = [h \in Hosts |-> NoMarks] /\ host = CHOOSE h \in Hosts : TRUE
coversRest    == files = {} /\ origin = CHOOSE s \in Origins : TRUE
secretsRest   == disk.keyFile = NoKey
instanceRest  == carries = {}

Init ==
    /\ scene \in {"bookmarks", "covers", "secrets", "launches"}
    /\ BookmarkInit /\ (scene # "bookmarks" => bookmarksRest)
    /\ CoverInit    /\ (scene # "covers"    => coversRest)
    /\ SecretInit   /\ (scene # "secrets"   => secretsRest)
    /\ InstanceInit /\ (scene # "launches"  => instanceRest)

Bookmarking == scene = "bookmarks" /\ BookmarkNext /\ UNCHANGED <<scene, coverVars, secretVars, instanceVars>>
Covering    == scene = "covers"    /\ CoverNext    /\ UNCHANGED <<scene, bookmarkVars, secretVars, instanceVars>>
Keeping     == scene = "secrets"   /\ SecretNext   /\ UNCHANGED <<scene, bookmarkVars, coverVars, instanceVars>>
Launching   == scene = "launches"  /\ InstanceNext /\ UNCHANGED <<scene, bookmarkVars, coverVars, secretVars>>

Next == Bookmarking \/ Covering \/ Keeping \/ Launching

Spec == Init /\ [][Next]_<<scene, bookmarkVars, coverVars, secretVars, instanceVars>>

\* The state of each component keeps its types.
LocalTypeOK == BookmarkTypeOK /\ CoverTypeOK /\ SecretTypeOK /\ InstanceTypeOK
=============================================================================
