---------------------------- MODULE MCDeclarative ----------------------------
(* A NodeId and a RelativeNodeId; the namespace has one of two indexes.    *)
EXTENDS Declarative

CONSTANTS direct, relative, i1

MCDirectIds == {direct}
MCRelativeIds == {relative}
MCIndexes == {i1}
=============================================================================
