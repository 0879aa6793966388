-------------------------- MODULE MCSaveConflicts --------------------------
(* A directory d with two files in it, d/x and d/y, and a file z beside it. *)
EXTENDS SaveConflicts

Tree == [p \in {"d", "dx", "dy", "z"} |-> IF p \in {"dx", "dy"} THEN "d" ELSE "root"]

File(p) == [name |-> p, dir |-> FALSE]
Folders(p) == [name |-> p, dir |-> TRUE]

Items == { File(p) : p \in {"d", "dx", "dy"} } \union { Folders(p) : p \in {"d", "dx"} }

\* Two entries of every kind, and three that meet in one directory.
AnyTwo == { << a, b >> : a \in Items, b \in Items }
Meeting == { << File("dx"), File("dy"), b >> : b \in Items \union {File("z")} }
             \union { << File("dx"), File("d"), File("dy") >> }
Archives == AnyTwo \union Meeting

\* The same file twice.
Twice == { << File("dx"), File("dx") >> }
=============================================================================
