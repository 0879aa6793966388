----------------------------- MODULE MCStoreScan -----------------------------
(* Small instances of StoreScan for TLC. *)
EXTENDS StoreScan

ScanLengths == {0, 1, 18, 33}
ScanDecoys  == {0, 5, 20}

\* Shorter than the data, about as long, too long for the file.
OtherParts == {7, 30, 70}
=============================================================================
