--------------------------- MODULE MCPassportSync ---------------------------
(* Small instances of PassportSync: the reader is one earning short of      *)
(* level 2.                                                                  *)
EXTENDS PassportSync, TLC
=============================================================================
