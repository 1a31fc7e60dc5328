------------------------------ MODULE MCSftpNames ------------------------------
(* Instances of SftpNames for TLC. *)
EXTENDS SftpNames, TLC

\* The programs are alike, and so are the paths.
Symmetry == Permutations(Clients) \cup Permutations(Paths)

\* A mode; a mode and half a pair; a whole pair and half of the other; everything.
MCChanges == {{"st_mode"}, {"st_mode", "st_uid"}, {"st_uid", "st_gid", "st_mtime"}, Keys}
=============================================================================
