---------------------------- MODULE MCPlayQueue ----------------------------
(***************************************************************************)
(* A card with three tracks in two folders, and a library list over them.  *)
(***************************************************************************)
EXTENDS PlayQueue

CONSTANTS a, b, c

MCTracks == {a, b, c}
MCAddable == {a}
MCLists == {<<>>, <<a, b>>, <<b, c>>}
MCGiven == {<<b, c>>}
MCFolders == {<<a, b>>, <<c>>}
MCNextFolder == (<<a, b>> :> <<c>>) @@ (<<c>> :> <<a, b>>)
MCPrevFolder == MCNextFolder
=============================================================================
