----------------------------- MODULE MCPathProbe -----------------------------
(* PathProbe with the two default backup suffixes. *)
EXTENDS PathProbe

MCSuffixes == <<".bak", ".orig">>
=============================================================================
