----------------------------- MODULE MCCanReplay -----------------------------
(* A database of four messages with two-bit bytes, three to a payload: the *)
(* value, the four-valued counter, the checksum.  Thresholds 3 and 6; 7 is *)
(* an unknown identifier.  Logs of up to three frames, also from negative  *)
(* times on.                                                               *)
EXTENDS CanReplay

MCStod == "0" :> 0 @@ "1" :> 1 @@ "2" :> 2 @@ "4" :> 4
MCStoul == [id \in {<<"0x1">>, <<"0x2">>, <<"0x3">>, <<"0x4">>} |->
               CASE id = <<"0x1">> -> 1 [] id = <<"0x2">> -> 2 [] id = <<"0x3">> -> 3
                 [] id = <<"0x4">> -> 4]
MCStoi == <<"1">> :> 1
MCRank == MCStoul @@ <<"1">> :> 5

Quoted(symbol) == <<"quote", symbol, "quote">>
Object(pairs) ==
    <<"{">> \o FlattenSeq([i \in DOMAIN pairs |->
                  (IF i = 1 THEN <<>> ELSE <<",">>)
                  \o Quoted(pairs[i][1]) \o <<":">> \o pairs[i][2]])
    \o <<"}">>
Signal(start, length, more) ==
    Object(<<<<"start_bit", <<start>>>>, <<"length", <<length>>>>>> \o more)
Message(name, period, order, signals) ==
    Object(<<<<"name", Quoted(name)>>, <<"period_ms", <<period>>>>,
             <<"byte_order", Quoted(order)>>, <<"signals", Object(signals)>>>>)

MCDbcText ==
    Object(<<
      <<"0x1", Message("EngineData", "1", "intel",
          <<<<"rpm", Signal("0", "2", <<>>)>>, <<"counter", Signal("2", "2", <<>>)>>,
            <<"checksum", Signal("4", "2", <<>>)>>>>)>>,
      <<"0x2", Message("SteeringData", "2", "motorola",
          <<<<"steering_angle", Signal("0", "4", <<<<"signed", <<"t", "r", "u", "e">>>>>>)>>,
            <<"checksum", Signal("4", "2", <<>>)>>>>)>>,
      <<"0x3", Message("VehicleSpeed", "2", "intel",
          <<<<"gear", Signal("0", "2", <<<<"enum", Object(<<<<"1", Quoted("D1")>>>>)>>>>)>>>>)>>,
      <<"0x4", Message("BrakeStatus", "2", "intel",
          <<<<"brake_pressed", Signal("1", "1", <<>>)>>>>)>>>>)

\* The lines of a record.  Numbers are one digit, and an identifier is written 0x1.
Record(ts, id, bytes) ==
    <<[long |-> ts, hex |-> ts, bytes |-> <<ts>>],
      [long |-> 0, hex |-> id, bytes |-> <<id>>],
      [long |-> bytes[1], hex |-> bytes[1], bytes |-> bytes]>>

\* Message 1 with counters that wrap (3 then 0), that jump, and that go on although four
\* frames were lost (0 at time 0, 1 at time 5); message 2 with a good and a bad checksum;
\* a gear that has no name, short payloads, the unknown 7 with a word and a payload that
\* are too long.
MCTraffic ==
    {Record(0, 1, <<1, 0, 1>>), Record(0, 1, <<1, 3, 2>>), Record(4, 1, <<1, 0, 1>>),
     Record(5, 1, <<1, 1, 0>>), Record(0, 2, <<3, 2, 1>>), Record(7, 2, <<2, 1, 0>>),
     Record(3, 3, <<1>>)}
MCRecords ==
    MCTraffic \cup {Record(4, 3, <<2>>), Record(4, 4, <<2>>), Record(8, 7, <<5, 0, 0, 1>>)}

\* The file of some records: each followed by a blank line, the last one cut short or not.
FileOf(records) == FlattenSeq([i \in DOMAIN records |-> records[i] \o <<Blank>>])
MCFiles ==
    {FileOf(records) : records \in BoundedSeq(MCTraffic, 3) \cup BoundedSeq(MCRecords, 2)}
    \cup {<<Blank>> \o FileOf(<<r>>) \o <<Blank>> \o SubSeq(r, 1, n) :
              r \in MCRecords, n \in 1 .. 2}
    \cup {FileOf(<<Record(-6, 1, <<1, 0, 1>>), Record(-1, 1, <<1, 1, 0>>),
                   Record(late, 1, <<1, 2, 3>>)>>) : late \in {0, 4}}

\* A record in the middle lacks a line.
MCGappedFiles ==
    {FileOf(<<r>>) \o Remove(r, r[n]) \o <<Blank>> \o FileOf(<<s, s>>) :
        r, s \in {Record(0, 1, <<1, 0, 1>>), Record(3, 1, <<1, 1, 0>>)}, n \in 1 .. 3}
=============================================================================
