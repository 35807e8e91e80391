--------------------------- MODULE MCFileWatcher ---------------------------
(* Directories of which one is below another, and, for Windows, one apart  *)
(* from them; Siblings are two of which the name of one begins with the    *)
(* name of the other. The events have one action, two, and none.           *)
EXTENDS FileWatcher

MCDirs == {<<"a">>, <<"a", "b">>}
MCEventFlags == {{"Modified"}, {"Created", "Removed", "IsDir"}, {"IsFile"}}

MCWinPaths == {<<"a">>, <<"a", "/", "b">>, <<"c">>}
Siblings == {<<"a">>, <<"a", "b">>}
=============================================================================
