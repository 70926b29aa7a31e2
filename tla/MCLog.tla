-------------------------------- MODULE MCLog --------------------------------
(***************************************************************************)
(* Log.tla from an empty log, and from logs where a block of two lines is  *)
(* about to repeat, or seems to be if the hashes of "b" and "c" collide.   *)
(***************************************************************************)
EXTENDS Log

Before == {<<>>, <<"a", "b", "a", "b">>, <<"a", "b", "a", "c">>}
=============================================================================
