--------------------------- MODULE MCSentryReactor ---------------------------
(* SentryReactor for TLC: two subscribers, an id that has a decoder and one  *)
(* that has none, a broadcast channel of one place.                          *)
EXTENDS SentryReactor
=============================================================================
