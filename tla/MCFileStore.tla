---------------------------- MODULE MCFileStore -----------------------------
(***************************************************************************)
(* FileStore with bytes of two values, so that sizes up to 3 need both of  *)
(* their bytes, and messages whose bytes look like sizes.                  *)
(***************************************************************************)
EXTENDS FileStore

MCMessages == {<<>>, <<1>>, <<0, 1, 0>>}

=============================================================================
