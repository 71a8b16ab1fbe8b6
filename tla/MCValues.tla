------------------------------- MODULE MCValues -------------------------------
(* One or two values of each kind: the null, empty, short and long strings,  *)
(* both sides of the limits of each form of a node id, and an array that     *)
(* fails at its second element.  Arrays of up to three dimensions, with      *)
(* lengths whose product is below, at and above the limits.                  *)
EXTENDS BinaryDataEncoding, MultiDimensionalArray, TLC

CONSTANTS x, y

MCSymmetry == Permutations({x, y})

In(type, v) == [type |-> type, value |-> v]

Uuid == [i \in 1 .. 16 |-> i]

Id(ns, type, id) == [ns |-> ns, type |-> type, id |-> id]

NodeIds ==
  {Id(0, "i", 255), Id(0, "i", 256), Id(1, "i", 255), Id(255, "i", 65535), Id(256, "i", 1),
   Id(2, "i", 65536), Id(2, "s", <<65>>), Id(2, "g", Uuid), Id(2, "b", <<7, 8>>),
   Id(2, "b", <<7>>), Id(0, "g", NullUuid), BadId}

Text == <<<<101, 110>>, <<72, 105>>>>

MCInputs ==
  {In("NodeId", n) : n \in NodeIds}
    \cup {In("QString", s) : s \in {Null, <<>>, <<65>>}}
    \cup {In("QByteArray", s) : s \in {Null, <<>>, <<65>>, <<0, 255>>}}
    \cup {In("QDateTime", d) : d \in {Far, -5, 70000}}
    \cup {In("bool", TRUE), In("qint32", -2),
          In("QUuid", Uuid), In("UaStatusCode", 65536), In("QOpcUaRange", <<1, 300>>),
          In("QOpcUaXValue", <<2, 3>>), In("QOpcUaComplexNumber", <<1, 2>>),
          In("QOpcUaQualifiedName", <<40000, <<65>>>>),
          In("QOpcUaLocalizedText", <<Null, <<72>>>>),
          In("QOpcUaEUInformation", <<<<85>>, 5, Text, Text>>),
          In("QOpcUaAxisInformation", <<<<85>>, 5, Text, Text, 0, 9, Text, 1, <<4, 6>>>>),
          In("QOpcUaExtensionObject",
             [typeId |-> Id(0, "i", 886), encoding |-> 1, body |-> <<1, 2, 3>>]),
          In("QOpcUaExtensionObject", [typeId |-> Id(0, "i", 7), encoding |-> 0, body |-> Null]),
          In("QOpcUaExpandedNodeId",
             [nodeId |-> Id(1, "i", 5), namespaceUri |-> <<117>>, serverIndex |-> 9]),
          In("QOpcUaExpandedNodeId",
             [nodeId |-> BadId, namespaceUri |-> Null, serverIndex |-> 0]),
          In("QOpcUaArgument", <<<<65>>, Id(0, "i", 12), -1, <<2>>, Text>>),
          In("QOpcUaArgument", <<<<65>>, BadId, -1, <<>>, Text>>),
          In("QOpcUaApplicationRecordDataType",
             <<Id(1, "g", Uuid), <<117>>, 1, <<Text>>, <<112>>, <<<<100>>, <<101>>>>, <<>>>>),
          In("QList NodeId", <<Id(0, "i", 1), Id(3, "i", 2)>>),
          In("QList NodeId", <<Id(0, "i", 1), BadId>>),
          In("QList NodeId", <<Id(2, "b", <<7, 8>>), Id(2, "s", <<65>>)>>),
          In("qint64", -70000)}

-----------------------------------------------------------------------------
(* The buffer and the array share nothing: each is explored on its own.    *)
MCInit == Init /\ ArrayInit

MCNext ==
  \/ Next /\ DefaultArray /\ UNCHANGED arrayVars
  \/ ArrayNext /\ data = <<>> /\ ~cut /\ UNCHANGED vars

MCSpec == MCInit /\ [][MCNext]_<<vars, arrayVars>>
=============================================================================
