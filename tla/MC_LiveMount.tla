---------------------------- MODULE MC_LiveMount ----------------------------
(***************************************************************************)
(* LiveMount with a file d/f to edit, a directory e it can be moved to     *)
(* whose file e/f an ignore pattern matches, a file o outside the mount,   *)
(* and a few calls in all of the agent, the user and the handle's holder.  *)
(***************************************************************************)
EXTENDS LiveMount

CONSTANTS a, b

MCPath == {<<"d">>, <<"d", "f">>, <<"e">>, <<"e", "f">>, <<"o">>}
MCFolders == {<<"d">>, <<"e">>}
MCIgnored == {<<"e", "f">>}
MCOutside == {<<"o">>}
=============================================================================
