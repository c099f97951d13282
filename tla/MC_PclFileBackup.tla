-------------------------- MODULE MC_PclFileBackup --------------------------
(* Two versions of a file's content; CRC values are small integers.        *)
EXTENDS PclFileBackup

CONSTANTS d1, d2

MCData == {d1, d2}

MCCrc == [c \in {d1, d2, Torn} |-> IF c = d1 THEN 1 ELSE IF c = d2 THEN 2 ELSE 3]
=============================================================================
