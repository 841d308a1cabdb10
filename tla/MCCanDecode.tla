----------------------------- MODULE MCCanDecode -----------------------------
(* Documents with one or two messages of one signal: every subset of the   *)
(* keys, doubled keys, aliases of an identifier, values of the wrong type, *)
(* several layouts; and every small signal in both byte orders.            *)
EXTENDS CanDecode

Digits == <<"0", "1", "2", "3", "4", "5", "6", "7">>

MCNumerals == Range(Digits) \cup {"0.25", "-2", "-"}
MCStod == [d \in Range(Digits) |-> 4 * ((CHOOSE i \in 1 .. 8 : Digits[i] = d) - 1)]
          @@ "0.25" :> 1 @@ "-2" :> -8
MCStoul == Str("0x1") :> 1 @@ Str("1") :> 1 @@ Str("0x2") :> 2
MCStoi == Str("0") :> 0 @@ Str("1") :> 1
MCRank == Str("0") :> 1 @@ Str("0x1") :> 2 @@ Str("0x2") :> 3 @@ Str("1") :> 4

\* Writing a document: `gap` comes before every key, colon, comma and brace.
Quoted(symbol) == <<"quote", symbol, "quote">>
Member(key, value, gap) == gap \o Quoted(key) \o gap \o <<":">> \o gap \o value
Object(members, gap) ==
    <<"{">> \o FlattenSeq([i \in DOMAIN members |->
                  IF i = 1 THEN members[i] ELSE gap \o <<",">> \o members[i]])
    \o gap \o <<"}">>
WithKeys(all, keys) == SelectSeq(all, LAMBDA m : m[1] \in keys)
Written(pairs, gap) == Object([i \in DOMAIN pairs |-> Member(pairs[i][1], pairs[i][2], gap)], gap)

SignalKeys == <<<<"start_bit", <<"1">>>>, <<"length", <<"3">>>>, <<"scale", <<"0.25">>>>,
                <<"offset", <<"-2">>>>, <<"signed", <<"t", "r", "u", "e">>>>,
                <<"enum", Object(<<Member("1", Quoted("D1"), <<>>)>>, <<>>)>>>>
MessageKeys(order, signals) ==
    <<<<"name", Quoted("EngineData")>>, <<"period_ms", <<"5">>>>, <<"byte_order", Quoted(order)>>,
      <<"signals", signals>>>>

\* The signal and the message that a set of keys describes.
Signal(keys) ==
    [start_bit |-> 1, length |-> 3,
     scale |-> IF "scale" \in keys THEN 1 ELSE 4,
     offset |-> IF "offset" \in keys THEN -8 ELSE 0,
     is_signed |-> "signed" \in keys,
     enum_values |-> IF "enum" \in keys THEN 1 :> Str("D1") ELSE <<>>]
Message(order, signals) ==
    [name |-> Str("EngineData"), period_ms |-> 5, byte_order |-> order, signals |-> signals]
Database(messages) == [ok |-> TRUE, messages |-> messages]

AllSignalKeys == {SignalKeys[i][1] : i \in DOMAIN SignalKeys}
AllMessageKeys == {"name", "period_ms", "byte_order", "signals"}
Signals(name, keys, gap) == Written(<<<<name, Written(WithKeys(SignalKeys, keys), gap)>>>>, gap)

\* One message, any keys left out, in two layouts.
Subsets ==
    {[text |-> Written(<<<<"0x1",
                  Written(WithKeys(MessageKeys("intel", Signals("rpm", sigKeys, gap)), msgKeys),
                          gap)>>>>, gap),
      database |-> IF {"start_bit", "length"} \subseteq sigKeys /\ msgKeys = AllMessageKeys
                   THEN Database(1 :> Message("Intel", Str("rpm") :> Signal(sigKeys)))
                   ELSE NoDatabase] :
        gap \in {<<>>, <<"space", "space">>},
        sigKeys \in {k \in SUBSET AllSignalKeys :
                        Cardinality(k) >= 2 /\ ("enum" \in k => "scale" \in k)},
        msgKeys \in {AllMessageKeys \ drop : drop \in {{}, {"name"}, {"signals"}}}}

\* A document given by its members at the top.
Top(pairs, database) == [text |-> Written(pairs, <<>>), database |-> database]
Plain(order) == Written(MessageKeys(order, Signals("rpm", AllSignalKeys, <<>>)), <<>>)
PlainMessage(order) == Message(order, Str("rpm") :> Signal(AllSignalKeys))
Instead(key, value) ==
    [i \in DOMAIN MessageKeys("intel", <<"{", "}">>) |->
        LET pair == MessageKeys("intel", <<"{", "}">>)[i]
        IN  IF pair[1] = key THEN <<key, value>> ELSE pair]
Bare == Message("Intel", <<>>)

Oddities ==
    { \* "0x1" and "1" are the same identifier: the later key stays.
      Top(<<<<"1", Plain("motorola")>>, <<"0x1", Plain("intel")>>, <<"0x2", Plain("other")>>>>,
          Database(1 :> PlainMessage("Motorola") @@ 2 :> PlainMessage("Intel"))),
      \* The same key twice: the first stays.
      Top(<<<<"0x1", Plain("intel")>>, <<"0x1", Plain("motorola")>>>>,
          Database(1 :> PlainMessage("Intel"))),
      \* A key that is not a number, a numeral stod rejects, an array.
      Top(<<<<"EngineData", Plain("intel")>>>>, NoDatabase),
      Top(<<<<"0x1", Written(Instead("period_ms", <<"-">>), <<>>)>>>>, NoDatabase),
      Top(<<<<"0x1", Written(Instead("signals", <<"[", "]">>), <<>>)>>>>, NoDatabase),
      \* A value of the wrong type is read as the default of its kind.
      Top(<<<<"0x1", Written(Instead("period_ms", Quoted("5")), <<>>)>>>>,
          Database(1 :> [Bare EXCEPT !.period_ms = 0])),
      Top(<<<<"0x1", Written(Instead("signals", <<"n", "u", "l", "l">>), <<>>)>>>>,
          Database(1 :> Bare)),
      \* Any four symbols from an n on are null, the braces that close the text too.
      Top(<<<<"0x1", Written(Instead("signals", <<"n", "o", "n", "e">>), <<>>)>>>>,
          Database(1 :> Bare)),
      Top(<<<<"0x1", Written(Instead("signals", <<"n">>), <<>>)>>>>, NoDatabase),
      \* Escapes, and an empty database.
      Top(<<<<"0x1", Written(Instead("name",
                <<"quote", "a", "backslash", "quote", "backslash", "n", "quote">>), <<>>)>>>>,
          Database(1 :> [Bare EXCEPT !.name = <<"a", "quote", "newline">>])),
      Top(<<>>, Database(<<>>)) }

\* Every small signal, in both byte orders, up to one bit past the payload.
Layouts ==
    {Top(<<<<"0x1", Written(MessageKeys(IF order = "Intel" THEN "intel" ELSE "motorola",
              Written(<<<<"rpm", Written(<<<<"start_bit", <<Digits[start + 1]>>>>,
                                          <<"length", <<Digits[length + 1]>>>>,
                                          <<"signed", IF signed THEN <<"t", "r", "u", "e">>
                                                      ELSE <<"f", "a", "l", "s", "e">>>>>>,
                                         <<>>)>>>>, <<>>)), <<>>)>>>>,
         Database(1 :> Message(order, Str("rpm") :>
            [start_bit |-> start, length |-> length, scale |-> 4, offset |-> 0,
             is_signed |-> signed, enum_values |-> <<>>]))) :
        start \in 0 .. 7, length \in 0 .. 7, order \in {"Intel", "Motorola"}, signed \in BOOLEAN}

MCDocuments == Subsets \cup Oddities \cup Layouts
=============================================================================
