---------------------------- MODULE MCAtomicParts ----------------------------
(* Small instances of AtomicParts for TLC. *)
EXTENDS AtomicParts

\* a/x and a/y share a directory, z is beside it; another run left q.part.
Tree == [ zipy |-> "target", parts |-> "zipy", a |-> "parts",
          x_part |-> "a", y_part |-> "a", z_part |-> "parts", q_part |-> "parts" ]
TreeNodes == DOMAIN Tree

PartsXYZ == [e \in 1 .. 3 |-> << "x_part", "y_part", "z_part" >>[e]]
DestsXYZ == [e \in 1 .. 3 |-> << "x", "y", "z" >>[e]]
AnyCall  == [extractAll : BOOLEAN, rootZipy : BOOLEAN]
EachCall == [extractAll : {FALSE}, rootZipy : {FALSE}]
LeftOver == {"q_part", "x_part"}
=============================================================================
