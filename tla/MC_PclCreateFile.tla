--------------------------- MODULE MC_PclCreateFile ---------------------------
(* pclCreateFile with one name byte, both delimiters, paths of up to 8     *)
(* bytes, a path buffer of 8 and a token array of 4: 3 segments are valid  *)
(* and run the mkdir loop once, 4 reach the limit.  (MaxPathLen and        *)
(* DbPathMaxLen are given in PclCreateFile.cfg.)                           *)
(* "/a" exists as a directory and "/aa" as  *)
(* a regular file; "/aaa" does not exist.                                  *)
EXTENDS PclCreateFile

MCNameChars == {"a"}
MCDelims == {"/", "\n"}
MCInitDirs == {<< <<"a">> >>}
MCInitFiles == {<< <<"a", "a">> >>}
====
