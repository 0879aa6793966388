---------------------------- MODULE MCStreamWalk ----------------------------
(* Small instances of StreamWalk for TLC. *)
EXTENDS StreamWalk

Entry(kind, desc, bytes) == [kind |-> kind, desc |-> desc, bytes |-> bytes]

SomeEntries ==
  { Entry("dir", "none", FALSE), Entry("dir", "sized", TRUE),
    Entry("store", "none", TRUE), Entry("store", "none", FALSE),
    Entry("store", "sized", TRUE),
    Entry("store", "unsized", TRUE), Entry("store", "unsized", FALSE),
    Entry("deflate", "unsized", TRUE), Entry("other", "none", TRUE) }

\* What an entry leaves behind shows in the next one, of any kind that has data.
Followers ==
  { Entry("store", "none", TRUE), Entry("store", "sized", TRUE),
    Entry("store", "unsized", TRUE), Entry("deflate", "unsized", TRUE),
    Entry("other", "sized", TRUE), Entry("other", "unsized", TRUE) }

\* No entry, any one, and any one before another.
UpToTwo == { << >> } \union { << e >> : e \in SomeEntries }
             \union { << e, f >> : e \in SomeEntries, f \in Followers }

AllPolicies == {"overwrite", "skip", "fail", "save"}

OneSized     == { << Entry("store", "none", TRUE) >> }
TwoUnsized   == { << Entry("store", "unsized", TRUE), Entry("store", "none", TRUE) >> }
Overwrite    == {"overwrite"}

=============================================================================
