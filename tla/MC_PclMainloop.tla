---------------------------- MODULE MC_PclMainloop ----------------------------
(* The mockup's main loop with a poll array of 4 entries: the eventfd and  *)
(* room for three watch entries, so that toggles fill it.                  *)
EXTENDS PclMainloop
====
