--------------------------- MODULE MCWebDatabase ---------------------------
(***************************************************************************)
(* Two handles of one origin in one script context.  On d1 script starts a *)
(* reader and a writer with callbacks, which queue behind each other; on   *)
(* d2 a reader without callbacks, which shares the origin's lock with the  *)
(* other reader and contends with the writer for it.                       *)
(***************************************************************************)
EXTENDS WebDatabaseProperties

CONSTANTS d1, d2, r1, r2, w1

MCDbOf == (r1 :> d1) @@ (w1 :> d1) @@ (r2 :> d2)
=============================================================================
