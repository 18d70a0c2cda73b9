------------------------------ MODULE MCReceive ------------------------------
(* Instance of Receive for TLC.                                              *)
EXTENDS Receive, SequencesExt

Field(kind, value) == [type |-> FieldType[kind], value |-> value]
MESSAGE == 6
CONNECT_PEER_FAIL == 12
GROUP_CREATE == 16
SmallLayouts ==
    (CONNECT_PEER_FAIL :> <<"dword">>) @@ (MESSAGE :> <<"dword", "data", "dword">>) @@
    (GROUP_CREATE :> <<"dword", "wstring", "data">>)

Good(type, fields) ==
    [units |-> Serialise(type, fields), bad |-> FALSE,
     means |-> <<[type |-> type, values |-> [i \in DOMAIN fields |-> fields[i].value]]>>]
Refused(type, fields) == [units |-> Serialise(type, fields), bad |-> FALSE, means |-> <<>>]
Bad(units) == [units |-> units, bad |-> TRUE, means |-> <<>>]

\* A small packet, two of the largest size, and ones no handler takes.
Fail(code) == Good(CONNECT_PEER_FAIL, <<Field("dword", <<code>>)>>)
Message == Good(MESSAGE, <<Field("dword", <<1>>), Field("data", <<5>>), Field("dword", <<0>>)>>)
Group == Good(GROUP_CREATE, <<Field("dword", <<3>>), Field("wstring", <<8, 9>>), Field("data", <<>>)>>)
Odd == Refused(GROUP_CREATE, <<Field("dword", <<3>>), Field("wstring", <<8>>)>>)
Unknown == Refused(99, <<>>)
Lacking == Refused(CONNECT_PEER_FAIL, <<>>)
\* Too large by one unit; a field that is longer than its packet; half the header of a field.
Large == Bad(<<MESSAGE, 10, 2, 8, 1, 1, 1, 1, 1, 1, 1, 1>>)
Long == Bad(<<CONNECT_PEER_FAIL, 3, 1, 2, 1>>)
Half == Bad(<<MESSAGE, 1, 1>>)

\* The stream of these packets.
StreamOf(items) ==
    LET UnitsOf(k) == FlattenSeq([i \in 1..k |-> items[i].units])
    IN  [units |-> UnitsOf(Len(items)),
         packets |-> [k \in DOMAIN items |->
             [upto |-> Len(UnitsOf(k)), means |-> items[k].means, bad |-> items[k].bad]]]

SmallStreams ==
    {StreamOf(s) : s \in
        {<<Fail(0), Message>>, <<Unknown, Large>>, <<Odd, Long>>, <<Group, Half>>, <<Fail(2), Lacking, Fail(3)>>}}

Units == 0..3
SmallSamples == {<<7>> \o s : s \in BoundedSeq(Units, 5)} \cup {<<>>}
SmallFields == {[type |-> t, value |-> v] : t \in Units, v \in BoundedSeq(Units, 2)}
SmallFieldSeqs == {<<>>} \cup {<<f>> : f \in SmallFields} \cup
    {<<f, g>> : f, g \in {h \in SmallFields : h.value = <<>>}}
==============================================================================
