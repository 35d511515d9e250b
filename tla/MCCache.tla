------------------------------ MODULE MCCache ------------------------------
(* TLC instances of Cache: direct mapped, set-associative, fully           *)
(* associative and too associative caches of up to four blocks.            *)
EXTENDS Cache
=============================================================================
