-------------------------------- MODULE Packet --------------------------------
(***************************************************************************)
(* PacketSerialiser and PacketDeserialiser: a packet is a TLVChunk whose   *)
(* value is a sequence of TLVChunks, its fields.                           *)
(*                                                                         *)
(* A buffer is a sequence of units.  The two members of a TLVChunk's       *)
(* header are one unit each; the sizes of the types of fields are          *)
(* parameters.  A field is a record with its type and its value, a         *)
(* sequence of units.  Sizes do not wrap: size_t is taken to be wide       *)
(* enough for the sum of a header and a value_length.                      *)
(***************************************************************************)
EXTENDS Naturals, Sequences

CONSTANTS DwordSize, WcharSize, GuidSize

ASSUME PacketAssumption == {DwordSize, WcharSize, GuidSize} \subseteq Nat \ {0}

HeaderSize == 2

\* FIELD_TYPE_NULL ... FIELD_TYPE_GUID
FieldType == [null |-> 0, dword |-> 1, data |-> 2, wstring |-> 3, guid |-> 4]

\* The lengths a value of each kind may have.
HasSize(kind, n) ==
    CASE kind = "null" -> n = 0
      [] kind = "dword" -> n = DwordSize
      [] kind = "data" -> n >= 0
      [] kind = "wstring" -> n % WcharSize = 0
      [] kind = "guid" -> n = GuidSize

-------------------------------------------------------------------------------
\* PacketSerialiser

NewPacket(type) == <<type, 0>>

\* What the append_xxx() have in common.
AppendField(sbuf, type, value) ==
    [sbuf \o <<type, Len(value)>> \o value EXCEPT ![2] = @ + HeaderSize + Len(value)]

\* The packet of the given fields.
Serialise(type, fields) ==
    LET Sbuf[i \in 0..Len(fields)] ==
            IF i = 0 THEN NewPacket(type) ELSE AppendField(Sbuf[i - 1], fields[i].type, fields[i].value)
    IN  Sbuf[Len(fields)]

-------------------------------------------------------------------------------
\* PacketDeserialiser

Throw(error) == [error |-> error, type |-> 0, fields |-> <<>>]

\* Fault: does not look at the value's length.
BeyondHeader(buffer, at, n) == n < HeaderSize

\* The chunk at offset at has its header or its value beyond the n units from there on.
Beyond(buffer, at, n) == n < HeaderSize \/ n < HeaderSize + buffer[at + 2]

\* The fields up to offset end.
FieldsOf(buffer, end) ==
    LET Walk[at \in 0..end] ==
            IF at = end THEN Throw("none")
            ELSE IF Beyond(buffer, at, end - at) THEN Throw("Malformed")
            ELSE LET size == buffer[at + 2]
                     first == at + HeaderSize
                     rest == Walk[first + size]
                     field == [type |-> buffer[at + 1], value |-> SubSeq(buffer, first + 1, first + size)]
                 IN  IF rest.error # "none" THEN rest ELSE [rest EXCEPT !.fields = <<field>> \o @]
    IN  Walk[HeaderSize]

\* The constructor.
Deserialise(buffer) ==
    IF Beyond(buffer, 0, Len(buffer)) THEN Throw("Incomplete")
    ELSE [FieldsOf(buffer, HeaderSize + buffer[2]) EXCEPT !.type = buffer[1]]

Got(error, value) == [error |-> error, value |-> value]

\* get_dword(), get_data(), get_wstring() and get_guid(); index counts from 0.
Get(pd, index, kind) ==
    IF Len(pd.fields) <= index THEN Got("MissingField", <<>>)
    ELSE IF pd.fields[index + 1].type # FieldType[kind] THEN Got("TypeMismatch", <<>>)
    ELSE IF ~HasSize(kind, Len(pd.fields[index + 1].value)) THEN Got("Malformed", <<>>)
    ELSE Got("none", pd.fields[index + 1].value)

-------------------------------------------------------------------------------
\* The buffer begins with the packet of these fields.
Begins(buffer, type, fields) ==
    LET packet == Serialise(type, fields)
    IN  Len(packet) <= Len(buffer) /\ packet = SubSeq(buffer, 1, Len(packet))

\* The deserialiser undoes the serialiser: it accepts a buffer exactly if the buffer begins with
\* the packet of some fields, and then has those; a buffer that ends before its packet does is
\* Incomplete, any other is Malformed.
InverseOn(buffers, fieldSeqs) ==
    \A buffer \in buffers :
        LET pd == Deserialise(buffer)
            whole == Len(buffer) >= HeaderSize /\ buffer[2] <= Len(buffer) - HeaderSize
        IN  IF pd.error = "none"
            THEN whole /\ pd.type = buffer[1] /\ Begins(buffer, pd.type, pd.fields)
            ELSE /\ pd.error = IF whole THEN "Malformed" ELSE "Incomplete"
                 /\ whole => \A fields \in fieldSeqs : ~Begins(buffer, buffer[1], fields)
==============================================================================
