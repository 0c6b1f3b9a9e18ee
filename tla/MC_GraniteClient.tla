--------------------------- MODULE MC_GraniteClient ---------------------------
(* Two callers, so that the two names of the accuracy model are in use at  *)
(* once, and a third call after one of them returned.                      *)
EXTENDS GraniteClient
=============================================================================
