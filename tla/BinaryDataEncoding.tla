-------------------------- MODULE BinaryDataEncoding --------------------------
(***************************************************************************)
(* QOpcUaBinaryDataEncoding: a buffer to which encode() appends and from   *)
(* which decode() reads at the current offset.                             *)
(*                                                                         *)
(* Bytes are 0 .. 255 and every width is the code's: a number is an        *)
(* integer of its width, a float or a double stands for its bits.  A       *)
(* string is its UTF-8 bytes, or Null.  A node id string is what           *)
(* nodeIdStringSplit() makes of it, or BadId.  A structure is the sequence *)
(* of its fields.                                                          *)
(***************************************************************************)
EXTENDS Integers, Sequences, FiniteSets

CONSTANTS
  Null,      \* a null QString or QByteArray, and what is not there
  BadId,     \* a string that is not a node id
  Far,       \* a date in 9999 or later
  Inputs,    \* what an application encodes: [type, value]
  MaxItems,  \* bound: values encoded into one buffer
  MaxTorn    \* bound: arrays that fail, and calls that truncate the buffer

ASSUME BoundsAssumption == {MaxItems, MaxTorn} \subseteq Nat

VARIABLES
  data,    \* *m_data
  offset,  \* m_offset
  items,   \* the values encoded so far: [type, value, from, to]
  torn,    \* how often an encodeArray() has failed or the buffer was truncated
  cut,     \* the buffer is a prefix of what was encoded
  last     \* the last call of decode()

vars == <<data, offset, items, torn, cut, last>>

NothingYet == [type |-> "none", from |-> 0, ok |-> FALSE, value |-> Null, to |-> 0]

Init ==
  /\ data = <<>>
  /\ offset = 0
  /\ items = {}
  /\ torn = 0
  /\ cut = FALSE
  /\ last = NothingYet

-----------------------------------------------------------------------------
(* The types.                                                              *)

sizeof ==
  [bool |-> 1, quint8 |-> 1, quint16 |-> 2, qint32 |-> 4, quint32 |-> 4, float |-> 4,
   UaStatusCode |-> 4, qint64 |-> 8, double |-> 8]

Fields ==
  [QOpcUaQualifiedName |-> <<"quint16", "QString">>,
   QOpcUaEUInformation |-> <<"QString", "qint32", "QOpcUaLocalizedText", "QOpcUaLocalizedText">>,
   QOpcUaRange |-> <<"double", "double">>,
   QOpcUaComplexNumber |-> <<"float", "float">>,
   QOpcUaDoubleComplexNumber |-> <<"double", "double">>,
   QOpcUaXValue |-> <<"double", "float">>,
   QOpcUaAxisInformation |->
     <<"QString", "qint32", "QOpcUaLocalizedText", "QOpcUaLocalizedText", "double", "double",
       "QOpcUaLocalizedText", "quint32", "QList double">>,
   QOpcUaArgument |-> <<"QString", "NodeId", "qint32", "QList quint32", "QOpcUaLocalizedText">>,
   QOpcUaApplicationRecordDataType |->
     <<"NodeId", "QString", "quint32", "QList QOpcUaLocalizedText", "QString", "QList QString",
       "QList QString">>]

ElementOf ==
  [list \in {"QList double", "QList quint32", "QList QString", "QList QOpcUaLocalizedText",
             "QList NodeId"} |->
    CASE list = "QList double"              -> "double"
      [] list = "QList quint32"             -> "quint32"
      [] list = "QList QString"             -> "QString"
      [] list = "QList QOpcUaLocalizedText" -> "QOpcUaLocalizedText"
      [] list = "QList NodeId"              -> "NodeId"]

Byte == 0 .. 255

Signed == {"qint32", "qint64"}

-----------------------------------------------------------------------------
(* encode(): whether it succeeds, and the bytes that it has appended.      *)

Good(bytes) == [ok |-> TRUE, bytes |-> bytes]

Bad(bytes) == [ok |-> FALSE, bytes |-> bytes]

(* One call after the other, up to the first that fails. *)
Then(first, second) ==
  IF first.ok THEN [ok |-> second.ok, bytes |-> first.bytes \o second.bytes] ELSE first

Chain(first, calls) ==
  LET upTo[i \in 0 .. Len(calls)] == IF i = 0 THEN first ELSE Then(upTo[i - 1], calls[i])
  IN upTo[Len(calls)]

(* Into a buffer of its own, appended when all is well. *)
Atomically(e) == IF e.ok THEN e ELSE Bad(<<>>)

(* v without its i lowest bytes. *)
Shifted(v, i) ==
  LET shift[j \in 0 .. 8] == IF j = 0 THEN v ELSE shift[j - 1] \div 256
  IN shift[i]

qToLittleEndian(v, n) == [i \in 1 .. n |-> Shifted(v, i - 1) % 256]

EncodeNumber(type, v) == Good(qToLittleEndian(v, sizeof[type]))

EncodeBool(b) == Good(<<IF b THEN 1 ELSE 0>>)

LengthOf(s) == IF s = Null THEN 0 ELSE Len(s)

(* The length, -1 for a null string, and the bytes. *)
EncodeQString(s) ==
  IF s = Null THEN EncodeNumber("qint32", -1)
  ELSE Then(EncodeNumber("qint32", Len(s)), Good(s))

(* `if (src.size() > 1)': a single byte is not appended. *)
EncodeQByteArray(s) ==
  IF s = Null THEN EncodeNumber("qint32", -1)
  ELSE Then(EncodeNumber("qint32", Len(s)), Good(IF Len(s) > 1 THEN s ELSE <<>>))

EncodeQUuid(u) == Good(u)

(* A part that is left out when it is empty. *)
EncodeOptional(s) == IF LengthOf(s) # 0 THEN EncodeQString(s) ELSE Good(<<>>)

EncodeLocalizedText(t) ==
  LET mask == (IF LengthOf(t[1]) # 0 THEN 1 ELSE 0) + (IF LengthOf(t[2]) # 0 THEN 2 ELSE 0)
  IN Then(EncodeNumber("quint8", mask), Then(EncodeOptional(t[1]), EncodeOptional(t[2])))

NullUuid == [i \in 1 .. 16 |-> 0]

MutEncodingType(n) ==
  CASE n.type = "i" /\ n.id <= 255                     -> 0
    [] n.type = "i" /\ n.id > 255 /\ n.id <= 65535     -> 1
    [] n.type = "i" /\ n.id > 65535                    -> 2
    [] n.type = "s" -> 3
    [] n.type = "g" -> 4
    [] n.type = "b" -> 5

(* encodingType 0 has no namespace index, 1 has one byte of it. *)
EncodingType(n) ==
  CASE n.type = "i" /\ n.id <= 255 /\ n.ns = 0                          -> 0
    [] n.type = "i" /\ n.id <= 65535 /\ n.ns <= 255 /\ ~(n.id <= 255 /\ n.ns = 0) -> 1
    [] n.type = "i" /\ ~(n.id <= 65535 /\ n.ns <= 255)                  -> 2
    [] n.type = "s" -> 3
    [] n.type = "g" -> 4
    [] n.type = "b" -> 5

EncodeNamespaceIndex(t, ns) ==
  CASE t = 0 -> Good(<<>>)
    [] t = 1 -> EncodeNumber("quint8", ns)
    [] t > 1 -> EncodeNumber("quint16", ns)

EncodeIdentifier(t, id) ==
  CASE t = 0 -> EncodeNumber("quint8", id)
    [] t = 1 -> EncodeNumber("quint16", id)
    [] t = 2 -> EncodeNumber("quint32", id)
    [] t = 3 -> EncodeQString(id)
    [] t = 4 -> EncodeQUuid(id)
    [] t = 5 -> EncodeQByteArray(id)

IsRefused(n) ==
  \/ n = BadId
  \/ n.type = "g" /\ n.id = NullUuid
  \/ n.type \in {"s", "b"} /\ LengthOf(n.id) = 0

EncodeNodeId(n) ==
  LET t == EncodingType(n)
  IN IF IsRefused(n) THEN Bad(<<>>)
     ELSE Then(EncodeNumber("quint8", t),
               Then(EncodeNamespaceIndex(t, n.ns), EncodeIdentifier(t, n.id)))

(* Flags in the first byte. *)
UriFlag == 128

ServerFlag == 64

EncodeServerIndex(index) == IF index # 0 THEN EncodeNumber("quint32", index) ELSE Good(<<>>)

EncodeExpandedNodeId(x) ==
  LET id == EncodeNodeId(x.nodeId)
      mask == (IF LengthOf(x.namespaceUri) # 0 THEN UriFlag ELSE 0)
              + (IF x.serverIndex # 0 THEN ServerFlag ELSE 0)
  IN IF ~id.ok THEN Bad(<<>>)
     ELSE Then(Good([id.bytes EXCEPT ![1] = @ + mask]),
               Then(EncodeOptional(x.namespaceUri), EncodeServerIndex(x.serverIndex)))

MaxInt64 == [i \in 1 .. 8 |-> IF i = 8 THEN 127 ELSE 255]

(* Milliseconds since 1601, in ticks of 100 ns. *)
EncodeQDateTime(ms) ==
  CASE ms = Far              -> Good(MaxInt64)
    [] ms # Far /\ ms <= 0   -> EncodeNumber("qint64", 0)
    [] ms # Far /\ ms > 0    -> EncodeNumber("qint64", 10000 * ms)

EncodeBody(encoding, body) == IF encoding = 0 THEN Good(<<>>) ELSE EncodeQByteArray(body)

EncodeExtensionObject(x) ==
  Then(EncodeNodeId(x.typeId),
       Then(EncodeNumber("quint8", x.encoding), EncodeBody(x.encoding, x.body)))

EncodeField(type, v) ==
  CASE type \in DOMAIN sizeof \ {"bool"} -> EncodeNumber(type, v)
    [] type = "bool"                  -> EncodeBool(v)
    [] type = "QString"               -> EncodeQString(v)
    [] type = "QByteArray"            -> EncodeQByteArray(v)
    [] type = "QUuid"                 -> EncodeQUuid(v)
    [] type = "QDateTime"             -> EncodeQDateTime(v)
    [] type = "NodeId"                -> EncodeNodeId(v)
    [] type = "QOpcUaExpandedNodeId"  -> EncodeExpandedNodeId(v)
    [] type = "QOpcUaLocalizedText"   -> EncodeLocalizedText(v)
    [] type = "QOpcUaExtensionObject" -> EncodeExtensionObject(v)

encodeArray(type, s) ==
  Chain(EncodeNumber("qint32", Len(s)), [i \in DOMAIN s |-> EncodeField(type, s[i])])

EncodeAny(type, v) ==
  IF type \in DOMAIN ElementOf THEN encodeArray(ElementOf[type], v) ELSE EncodeField(type, v)

EncodeStructure(type, v) ==
  Chain(Good(<<>>), [i \in DOMAIN v |-> EncodeAny(Fields[type][i], v[i])])

encode(type, v) ==
  CASE type = "QOpcUaArgument"                      -> Atomically(EncodeStructure(type, v))
    [] type \in DOMAIN Fields \ {"QOpcUaArgument"}  -> EncodeStructure(type, v)
    [] type \notin DOMAIN Fields                    -> EncodeAny(type, v)

-----------------------------------------------------------------------------
(* decode() of `data' at position p: success, the value, the new offset.   *)

Got(v, p) == [ok |-> TRUE, value |-> v, to |-> p]

(* The offset stays behind what was read before the failure. *)
Failed(p) == [ok |-> FALSE, value |-> Null, to |-> p]

(* The next step after one that succeeded. *)
OnSuccess(r, next(_)) == IF r.ok THEN next(r) ELSE r

enoughData(p, n) == Len(data) - p >= n

Bytes(p, n) == SubSeq(data, p + 1, p + n)

(* The bytes from the i-th on as a number. *)
qFromLittleEndian(b, signed) ==
  LET n == Len(b)
      above[i \in 1 .. n + 1] ==
        IF i <= n THEN b[i] + 256 * above[i + 1]
        ELSE IF signed /\ b[n] > 127 THEN -1 ELSE 0
  IN above[1]

DecodeNumber(type, p) ==
  LET n == sizeof[type]
  IN IF enoughData(p, n) THEN Got(qFromLittleEndian(Bytes(p, n), type \in Signed), p + n)
     ELSE Failed(p)

DecodeBool(p) == IF enoughData(p, 1) THEN Got(data[p + 1] # 0, p + 1) ELSE Failed(p)

(* The bytes that a length announces. *)
Announced(length, p) ==
  CASE length > 0 /\ enoughData(p, length) -> Got(Bytes(p, length), p + length)
    [] length = 0                          -> Got(<<>>, p)
    [] length = -1                         -> Got(Null, p)
    [] length < -1 \/ (length > 0 /\ ~enoughData(p, length)) -> Failed(p)

(* A length that cannot be decoded is 0, and an empty string is a success. *)
DecodeQString(p) ==
  LET r == DecodeNumber("qint32", p)
  IN Announced(IF r.ok THEN r.value ELSE 0, r.to)

MutDecodeQByteArray(p) == DecodeQString(p)

DecodeQByteArray(p) ==
  OnSuccess(DecodeNumber("qint32", p), LAMBDA r : Announced(r.value, r.to))

DecodeQUuid(p) == IF enoughData(p, 16) THEN Got(Bytes(p, 16), p + 16) ELSE Failed(p)

HasFlag(flags, bit) == (flags \div bit) % 2 = 1

(* A part that a flag announces. *)
DecodeOptional(flags, bit, p) == IF HasFlag(flags, bit) THEN DecodeQString(p) ELSE Got(Null, p)

DecodeLocalizedText(p) ==
  OnSuccess(DecodeNumber("quint8", p), LAMBDA mask :
    OnSuccess(DecodeOptional(mask.value, 1, mask.to), LAMBDA locale :
      OnSuccess(DecodeOptional(mask.value, 2, locale.to), LAMBDA text :
        Got(<<locale.value, text.value>>, text.to))))

IdentifierTypes == <<"i", "i", "i", "s", "g", "b">>

DecodeNamespaceIndex(t, p) ==
  CASE t = 0 -> Got(0, p)
    [] t = 1 -> DecodeNumber("quint8", p)
    [] t > 1 -> DecodeNumber("quint16", p)

DecodeIdentifier(t, p) ==
  CASE t = 0 -> DecodeNumber("quint8", p)
    [] t = 1 -> DecodeNumber("quint16", p)
    [] t = 2 -> DecodeNumber("quint32", p)
    [] t = 3 -> DecodeQString(p)
    [] t = 4 -> DecodeQUuid(p)
    [] t = 5 -> DecodeQByteArray(p)
    [] t > 5 -> Failed(p)

(* The flags of an expanded node id are removed from the first byte. *)
WithoutFlags(first) == first % 64

DecodeNodeId(p) ==
  OnSuccess(DecodeNumber("quint8", p), LAMBDA first :
    OnSuccess(DecodeNamespaceIndex(WithoutFlags(first.value), first.to), LAMBDA index :
      OnSuccess(DecodeIdentifier(WithoutFlags(first.value), index.to), LAMBDA identifier :
        Got([ns |-> index.value, type |-> IdentifierTypes[WithoutFlags(first.value) + 1],
             id |-> identifier.value], identifier.to))))

DecodeServerIndex(flags, p) ==
  IF HasFlag(flags, ServerFlag) THEN DecodeNumber("quint32", p) ELSE Got(0, p)

DecodeExpandedNodeId(p) ==
  IF ~enoughData(p, 1) THEN Failed(p)
  ELSE OnSuccess(DecodeNodeId(p), LAMBDA id :
         OnSuccess(DecodeOptional(data[p + 1], UriFlag, id.to), LAMBDA uri :
           OnSuccess(DecodeServerIndex(data[p + 1], uri.to), LAMBDA server :
             Got([nodeId |-> id.value, namespaceUri |-> uri.value, serverIndex |-> server.value],
                 server.to))))

(* 0 and the largest value are no date. *)
DateOf(ticks) == IF ticks = 0 THEN Null ELSE ticks \div 10000

DecodeQDateTime(p) ==
  IF enoughData(p, 8) /\ Bytes(p, 8) = MaxInt64 THEN Got(Null, p + 8)
  ELSE OnSuccess(DecodeNumber("qint64", p), LAMBDA r : Got(DateOf(r.value), r.to))

DecodeBody(encoding, p) ==
  CASE encoding = 0          -> Got(Null, p)
    [] encoding \in {1, 2}   -> DecodeQByteArray(p)
    [] encoding > 2          -> Failed(p)

DecodeExtensionObject(p) ==
  OnSuccess(DecodeNodeId(p), LAMBDA id :
    OnSuccess(DecodeNumber("quint8", id.to), LAMBDA encoding :
      OnSuccess(DecodeBody(encoding.value, encoding.to), LAMBDA body :
        Got([typeId |-> id.value, encoding |-> encoding.value, body |-> body.value], body.to))))

DecodeField(type, p) ==
  CASE type \in DOMAIN sizeof \ {"bool"} -> DecodeNumber(type, p)
    [] type = "bool"                  -> DecodeBool(p)
    [] type = "QString"               -> DecodeQString(p)
    [] type = "QByteArray"            -> DecodeQByteArray(p)
    [] type = "QUuid"                 -> DecodeQUuid(p)
    [] type = "QDateTime"             -> DecodeQDateTime(p)
    [] type = "NodeId"                -> DecodeNodeId(p)
    [] type = "QOpcUaExpandedNodeId"  -> DecodeExpandedNodeId(p)
    [] type = "QOpcUaLocalizedText"   -> DecodeLocalizedText(p)
    [] type = "QOpcUaExtensionObject" -> DecodeExtensionObject(p)

(* The value of r, a sequence, with that of the next call appended. *)
AndThen(r, next) == IF next.ok THEN Got(Append(r.value, next.value), next.to) ELSE next

(* Calls one after the other, up to the first that fails; calls[i][q] is   *)
(* the i-th at position q.                                                 *)
InTurn(calls, p) ==
  LET upTo[i \in 0 .. Len(calls)] ==
        IF i = 0 THEN Got(<<>>, p)
        ELSE OnSuccess(upTo[i - 1], LAMBDA r : AndThen(r, calls[i][r.to]))
  IN upTo[Len(calls)]

decodeArray(type, p) ==
  OnSuccess(DecodeNumber("qint32", p), LAMBDA size :
    InTurn([i \in 1 .. size.value |-> [q \in 0 .. Len(data) |-> DecodeField(type, q)]], size.to))

DecodeAny(type, p) ==
  IF type \in DOMAIN ElementOf THEN decodeArray(ElementOf[type], p) ELSE DecodeField(type, p)

DecodeStructure(type, p) ==
  InTurn([i \in DOMAIN Fields[type] |-> [q \in 0 .. Len(data) |-> DecodeAny(Fields[type][i], q)]],
         p)

decode(type, p) ==
  IF type \in DOMAIN Fields THEN DecodeStructure(type, p) ELSE DecodeAny(type, p)

-----------------------------------------------------------------------------
(* What an application can encode: integers of the width of their type, no *)
(* more bytes than a length can tell, structures with all of their fields. *)

HasWidth(type, v) ==
  /\ v \in Int
  /\ IF type \in Signed THEN Shifted(v, sizeof[type] - 1) \in -128 .. 127
     ELSE Shifted(v, sizeof[type]) = 0

IsByteString(s) == s = Null \/ (s \in Seq(Byte) /\ HasWidth("qint32", Len(s)))

IsUuid(u) == u \in [1 .. 16 -> Byte]

IsNodeId(n) ==
  \/ n = BadId
  \/ /\ n = [ns |-> n.ns, type |-> n.type, id |-> n.id]
     /\ HasWidth("quint16", n.ns)
     /\ \/ n.type = "i" /\ HasWidth("quint32", n.id)
        \/ n.type = "g" /\ IsUuid(n.id)
        \/ n.type \in {"s", "b"} /\ IsByteString(n.id)

IsField(type, v) ==
  CASE type \in DOMAIN sizeof \ {"bool"} -> HasWidth(type, v)
    [] type = "bool"                     -> v \in BOOLEAN
    [] type \in {"QString", "QByteArray"} -> IsByteString(v)
    [] type = "QUuid"                    -> IsUuid(v)
    [] type = "QDateTime"                ->
         v = Far \/ (v \in Int /\ (v > 0 => HasWidth("qint64", 10000 * v)))
    [] type = "NodeId"                   -> IsNodeId(v)
    [] type = "QOpcUaExpandedNodeId"     ->
         /\ v = [nodeId |-> v.nodeId, namespaceUri |-> v.namespaceUri, serverIndex |-> v.serverIndex]
         /\ IsNodeId(v.nodeId) /\ IsByteString(v.namespaceUri) /\ HasWidth("quint32", v.serverIndex)
    [] type = "QOpcUaLocalizedText"      ->
         v = <<v[1], v[2]>> /\ IsByteString(v[1]) /\ IsByteString(v[2])
    [] type = "QOpcUaExtensionObject"    ->
         /\ v = [typeId |-> v.typeId, encoding |-> v.encoding, body |-> v.body]
         /\ IsNodeId(v.typeId) /\ v.encoding \in 0 .. 2 /\ IsByteString(v.body)
    [] OTHER -> FALSE

(* P for a value, or for each of the elements of an array. *)
ForElements(P(_, _), type, v) ==
  IF type \in DOMAIN ElementOf THEN \A i \in DOMAIN v : P(ElementOf[type], v[i]) ELSE P(type, v)

(* P for each of the values that a value is made of. *)
ForParts(P(_, _), type, v) ==
  IF type \in DOMAIN Fields THEN \A i \in DOMAIN v : ForElements(P, Fields[type][i], v[i])
  ELSE ForElements(P, type, v)

IsSequence(v) == Len(v) \in Nat /\ v = [i \in 1 .. Len(v) |-> v[i]]

IsElements(type, v) ==
  type \in DOMAIN ElementOf => IsSequence(v) /\ HasWidth("qint32", Len(v))

Encodable(type, v) ==
  /\ IF type \in DOMAIN Fields
     THEN /\ IsSequence(v)
          /\ Len(v) = Len(Fields[type])
          /\ \A i \in DOMAIN v : IsElements(Fields[type][i], v[i])
     ELSE IsElements(type, v)
  /\ ForParts(IsField, type, v)

ASSUME InputsAssumption == \A input \in Inputs : Encodable(input.type, input.value)

-----------------------------------------------------------------------------
(* The operations.                                                         *)

(* encode<T>(), encodeArray<T>(). *)
Encode(input) ==
  LET e == encode(input.type, input.value)
  IN /\ Cardinality(items) < MaxItems
     /\ ~cut
     /\ data' = data \o e.bytes
     /\ items' = IF e.ok THEN items \cup {[type |-> input.type, value |-> input.value,
                                           from |-> Len(data), to |-> Len(data')]}
                 ELSE items
     /\ torn' = IF ~e.ok /\ input.type \in DOMAIN ElementOf THEN torn + 1 ELSE torn
     /\ torn' <= MaxTorn
     /\ last' = NothingYet
     /\ UNCHANGED <<offset, cut>>

(* The offset and the result after a call for `it'. *)
Return(it, r) ==
  /\ offset' = r.to
  /\ last' = [type |-> it.type, from |-> offset, ok |-> r.ok, value |-> r.value, to |-> r.to]

(* decode<T>(), decodeArray<T>() by a reader that knows what comes next. *)
Decode(it) ==
  /\ it.from = offset
  /\ Return(it, decode(it.type, offset))
  /\ UNCHANGED <<data, items, torn, cut>>

(* setOffset() to the end of an item, or back to the start. *)
SetOffset(o) ==
  /\ offset # o
  /\ offset' = o
  /\ UNCHANGED <<data, items, torn, cut, last>>

(* Keeps one byte behind the offset. *)
truncateBufferToOffset ==
  /\ offset < Len(data) - 1
  /\ ~cut
  /\ data' = SubSeq(data, 1, offset + 1)
  /\ items' = {it \in items : it.to <= offset + 1}
  /\ torn < MaxTorn
  /\ torn' = torn + 1
  /\ last' = NothingYet
  /\ UNCHANGED <<offset, cut>>

(* External: a body that breaks off in its first value. *)
CutShort(n) ==
  /\ Cardinality(items) = 1
  /\ ~cut
  /\ cut' = TRUE
  /\ data' = SubSeq(data, 1, n)
  /\ items' = {it \in items : it.from <= n}
  /\ offset' = 0
  /\ last' = NothingYet
  /\ UNCHANGED torn

Ends == {o \in {0} \cup {it.to : it \in items} : o <= Len(data)}

Next ==
  \/ \E input \in Inputs : Encode(input)
  \/ \E it \in items : Decode(it)
  \/ \E o \in Ends : SetOffset(o)
  \/ truncateBufferToOffset
  \/ \E n \in 0 .. Len(data) - 1 : CutShort(n)

Spec == Init /\ [][Next]_vars

-----------------------------------------------------------------------------
(* Properties.                                                             *)

(* The buffer holds bytes, and the items are inputs at positions in it.    *)
TypeOK ==
  /\ data \in Seq(Byte)
  /\ offset \in Nat
  /\ torn \in 0 .. MaxTorn /\ cut \in BOOLEAN
  /\ \A it \in items :
       /\ \E input \in Inputs : it.type = input.type /\ it.value = input.value
       /\ it.from \in Nat /\ it.to \in Nat

(* A part that is empty is not encoded, and read as null. *)
Visible(s) == IF LengthOf(s) = 0 THEN Null ELSE s

(* The value that a reader is to see: a date outside of the range of the   *)
(* encoding is no date, an object without a body has none.                 *)
ExpectedField(type, v) ==
  CASE type = "QDateTime"             -> IF v = Far \/ v <= 0 THEN Null ELSE v
    [] type = "QOpcUaLocalizedText"   -> <<Visible(v[1]), Visible(v[2])>>
    [] type = "QOpcUaExpandedNodeId"  -> [v EXCEPT !.namespaceUri = Visible(@)]
    [] type = "QOpcUaExtensionObject" -> [v EXCEPT !.body = IF v.encoding = 0 THEN Null ELSE @]
    [] OTHER                          -> v

ExpectedElements(type, v) ==
  IF type \in DOMAIN ElementOf THEN [i \in DOMAIN v |-> ExpectedField(ElementOf[type], v[i])]
  ELSE ExpectedField(type, v)

Expected(type, v) ==
  IF type \in DOMAIN Fields THEN [i \in DOMAIN v |-> ExpectedElements(Fields[type][i], v[i])]
  ELSE ExpectedElements(type, v)

(* A ByteString of one byte is encoded without it. *)
KeepsId(n) == n.type = "b" => Len(n.id) # 1

KeepsBytes(type, v) ==
  CASE type = "QByteArray"            -> LengthOf(v) # 1
    [] type = "NodeId"                -> KeepsId(v)
    [] type = "QOpcUaExpandedNodeId"  -> KeepsId(v.nodeId)
    [] type = "QOpcUaExtensionObject" -> KeepsId(v.typeId) /\ (v.encoding # 0 => LengthOf(v.body) # 1)
    [] OTHER                          -> TRUE

Keeps(type, v) == ForParts(KeepsBytes, type, v)

(* What was encoded is decoded as the same value, by a read that ends      *)
(* where the next value begins, for every type, every form of a node id    *)
(* and every value without a ByteString of one byte.                       *)
RoundTrip ==
  \A it \in items :
    /\ last.type = it.type /\ last.from = it.from /\ it.to <= Len(data)
    /\ Keeps(it.type, it.value)
    => last.ok /\ last.value = Expected(it.type, it.value) /\ last.to = it.to

(* No QString is part of the encoding. *)
NoQString(type, v) ==
  CASE type = "QString"               -> FALSE
    [] type = "NodeId"                -> v.type # "s"
    [] type = "QOpcUaExpandedNodeId"  -> v.nodeId.type # "s" /\ LengthOf(v.namespaceUri) = 0
    [] type = "QOpcUaLocalizedText"   -> LengthOf(v[1]) = 0 /\ LengthOf(v[2]) = 0
    [] type = "QOpcUaExtensionObject" -> v.typeId.type # "s"
    [] OTHER                          -> TRUE

Strict(type, v) == ForParts(NoQString, type, v) /\ Keeps(type, v)

(* A value that breaks off in the middle is refused, unless it contains a  *)
(* QString, of which a cut length is taken for an empty one, or a          *)
(* ByteString of one byte.  No read goes past the end of the buffer.       *)
CutIsRefused ==
  /\ offset <= Len(data)
  /\ \A it \in items :
       /\ cut /\ last.type = it.type /\ last.from = it.from /\ it.to > Len(data)
       /\ Strict(it.type, it.value)
       => ~last.ok
=============================================================================
