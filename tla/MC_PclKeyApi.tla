---------------------------- MODULE MC_PclKeyApi ----------------------------
(* Instances of PclKeyApi for TLC: a shared key that notifications may be   *)
(* registered on, a local key, and a file resource that the key functions  *)
(* refuse.                                                                  *)
EXTENDS PclKeyApi

CONSTANTS t1, t2, rShared, rLocal, rFile

OneThread == {t1}
TwoThreads == {t1, t2}

MCRes == {rShared, rLocal, rFile}
MCConfig ==
    [r \in MCRes |->
        CASE r = rShared -> [type |-> "key", storage |-> "shared", permission |-> "rw"]
          [] r = rLocal  -> [type |-> "key", storage |-> "local", permission |-> "ro"]
          [] r = rFile   -> [type |-> "file", storage |-> "local", permission |-> "rw"]]
====
