------------------------------ MODULE MCIngest ------------------------------
(* An instance of Ingest for TLC: two feeds on pages of one source, the    *)
(* older fails every time and the newer is added later; a page whose       *)
(* article the database refuses; a group.                                  *)
EXTENDS Ingest, TLC

CONSTANTS a, m, g

MCType == 1 :> "rss" @@ 2 :> "rss" @@ 3 :> "html" @@ 4 :> "telegram_group"
MCHome == a :> 2 @@ m :> 3 @@ g :> 4
=============================================================================
