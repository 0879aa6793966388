--------------------------- MODULE MCExtractPool ---------------------------
(* Small instances of ExtractPool for TLC, with what comes before
   the pool: the archive is opened, and the threads are counted. *)
EXTENDS ExtractPool, JobCount, OpenDirectory

\* A file that fills a batch, two small ones that share one, an empty
\* directory, and a file that starts a batch of its own.
MCSize      == << 2, 1, 0, 1 >>
SizeOf      == [e \in 0 .. 3 |-> MCSize[e + 1]]
OneSkipped  == {1}
OneDir      == {2}

\* Listings of up to three entries, with sizes on both sides of every limit.
Kinds == [dir : {FALSE}, encrypted : {FALSE}, deflate : BOOLEAN, size : {1, 4, 15}, packed : {1}]
           \union [dir : {FALSE}, encrypted : {TRUE}, deflate : {FALSE}, size : {0, 2}, packed : {15}]
           \union [dir : {TRUE}, encrypted : {FALSE}, deflate : {FALSE}, size : {15}, packed : {0}]
UpToThree == UNION { [1 .. n -> Kinds] : n \in 0 .. 3 }

\* Numbers below, at and beyond the limits; as many entries as need ZIP64.
Member(name, size, packed, offset) ==
  [name |-> name, size |-> size, packed |-> packed, offset |-> offset]
Members(name) == { Member(name, s, p, o) : s \in {0, Max64}, p \in {1, Max32}, o \in {1, Max32} }
SomeListings == { << >> } \union { << a >> : a \in Members("a") }
  \union { << a, Member("b", Max32, 1, 2) >> : a \in Members("a") }
  \union { << Member("a", 0, 1, 0), Member("b", 0, Max32, 1), Member("c", 1, 1, o) >> : o \in {2, Max32} }

\* Comments of every length, and one that holds an end record of its own.
Decoy(n) == << [sign |-> "end", disk |-> 0, cdDisk |-> 0, entriesDisk |-> 0, entries |-> 0,
               size |-> 0, offset |-> 0, comment |-> n] >>
SomeComments == { Fillers(n) : n \in 0 .. Max16 }
  \union { Decoy(0) \o Fillers(2), Fillers(1) \o Decoy(2) \o Fillers(1) }

Limits == {0, 1, 2, Max16, Max32, Max64}

\* The number of threads is settled when the pool starts, and then it is the one
\* that is meant, whoever computed it (zipy_extract_all, adaptive_jobs).
AtStart == phase = "start" /\ started = 0
ThreadsAgreeAtStart == AtStart => ThreadsAgree

\* The entries are what zipy_open has listed, from a mapped file or not.
WrittenOpens   == AtStart => WrittenIsOpened /\ TruncatedIsRefused
MappedOpensToo == AtStart => MappedIsRead
=============================================================================
