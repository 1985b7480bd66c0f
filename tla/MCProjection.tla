---------------------------- MODULE MCProjection ----------------------------
(* Instances of Projection for TLC. *)
EXTENDS Projection, TLC

Sym == Permutations(Proc)

AnyRequest == [action : {"render"}, approves : BOOLEAN, dry : BOOLEAN] \cup
              [action : {"status"}, approves : {FALSE}, dry : {FALSE}] \cup
              [action : {"repair"}, approves : BOOLEAN, dry : {FALSE}]
=============================================================================
