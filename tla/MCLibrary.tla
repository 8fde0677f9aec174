------------------------------ MODULE MCLibrary ------------------------------
(***************************************************************************)
(* Instances of Library for TLC: two servers, one with two libraries.      *)
(***************************************************************************)
EXTENDS Library, TLC

CONSTANTS S, T, fiction, science, toRead, book1, book2, all, series, q, p

\* S may come to list its libraries without the one last used; T has none yet.
MCLibrariesOf == S :> {<<fiction, science>>, <<fiction>>} @@ T :> {<<>>}
MCPlaylistsOf == fiction :> <<toRead>> @@ science :> <<>>
MCEntriesOf   == toRead :> <<[item |-> book2, book |-> FALSE], [item |-> book1, book |-> TRUE],
                             [item |-> book2, book |-> TRUE]>>
MCPagesOf     == [lib \in Libraries |-> all :> (IF lib = fiction THEN 2 ELSE 0) @@ series :> 1]
MCUsersProgress == {[begun |-> {}, finished |-> {}], [begun |-> {book2}, finished |-> {book1}]}
=============================================================================
