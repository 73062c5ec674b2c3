----------------------------- MODULE FrameParts -----------------------------
(***************************************************************************)
(* Frames are functions from names to texts, put together from single      *)
(* entries.  The two operators are those module TLC has by these names,    *)
(* defined here because the provers do not look into TLC's.                *)
(***************************************************************************)

name :> text == [n \in {name} |-> text]

(* The entries of f, and those of g whose names f has not. *)
f @@ g == [n \in DOMAIN f \cup DOMAIN g |-> IF n \in DOMAIN f THEN f[n] ELSE g[n]]
=============================================================================
