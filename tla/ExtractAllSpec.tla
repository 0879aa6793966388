--------------------------- MODULE ExtractAllSpec ---------------------------
(***************************************************************************)
(* What zipy_extract_all promises its caller about the entries of an       *)
(* archive, whatever number of threads does the work (src/zip.c):          *)
(*                                                                         *)
(*   - an entry is completed at most once;                                 *)
(*   - the first failure is the one that is reported;                      *)
(*   - the call returns OK only when every entry has been completed;       *)
(*   - once it has returned, nothing is worked on any more.                *)
(***************************************************************************)
EXTENDS Integers

CONSTANTS
  Entries,     \* the entries of the archive
  Failures     \* the negative zipy_zip_result_t codes a call can return

VARIABLES
  finished,    \* the entries that were completed
  result,      \* "OK" or the first failure
  returned     \* the call has returned to its caller

vars == << finished, result, returned >>

Init ==
  /\ finished = {}
  /\ result   = "OK"
  /\ returned = FALSE

Complete(e) ==
  /\ ~returned
  /\ e \notin finished
  /\ finished' = finished \union {e}
  /\ UNCHANGED << result, returned >>

Fail(r) ==
  /\ ~returned
  /\ result = "OK"
  /\ result' = r
  /\ UNCHANGED << finished, returned >>

Return ==
  /\ ~returned
  /\ result = "OK" => finished = Entries
  /\ returned' = TRUE
  /\ UNCHANGED << finished, result >>

Next ==
  \/ \E e \in Entries : Complete(e)
  \/ \E r \in Failures : Fail(r)
  \/ Return

Spec == Init /\ [][Next]_vars
=============================================================================
