---------------------------- MODULE MC_PclBlacklist ----------------------------
(* Configuration files over two path characters and one separator.         *)
EXTENDS PclBlacklist
====
