------------------------------- MODULE MCFatx --------------------------------
(***************************************************************************)
(* Instances of Fatx: two files, and a directory with a file, on five      *)
(* clusters with two bytes and two dirents each, the root's one included.  *)
(***************************************************************************)
EXTENDS Fatx

APaths == {<<"a">>, <<"b">>, <<"d">>, <<"d", "x">>}
ADirs == {<<"d">>}
ASizes == {2, 4}
AUses == {{"large", "restart"}, {"remove", "restart"}, {"truncate", "append", "restart"},
          {"empty", "append", "truncate"}, {"large", "fault"}, {"kill", "restart"},
          {"sync", "restart"}, {"extend", "large"}, {"resize", "truncate"}}
=============================================================================
