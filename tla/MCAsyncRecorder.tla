-------------------------- MODULE MCAsyncRecorder --------------------------
(***************************************************************************)
(* The recorder of one device whose rows have two columns, over two days,  *)
(* with a queue of two places.                                             *)
(***************************************************************************)
EXTENDS AsyncRecorder
=============================================================================
