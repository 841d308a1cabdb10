----------------------------- MODULE DbcDatabase -----------------------------
(***************************************************************************)
(* The signal database of task 3, read from a JSON text (class             *)
(* DbcDatabase).  Strings are sequences of symbols, as in JsonValue; the   *)
(* unit of a signal is stored and never read, and is left out.             *)
(***************************************************************************)
EXTENDS JsonValue

CONSTANTS
    stoul,      \* the value of the keys that std::stoul(key, nullptr, 16) accepts
    stoi,       \* the value of the keys that std::stoi accepts
    rank        \* the place of each of these keys in the order of std::string

ASSUME KeyAssumption ==
    /\ \A k \in DOMAIN stoul : stoul[k] \in Nat
    /\ \A k \in DOMAIN stoi : stoi[k] \in Int
    /\ DOMAIN stoul \cup DOMAIN stoi \subseteq DOMAIN rank

\* A std::map after map[k] = new[k] for every k of new, and after map[key] = value.
PutAll(map, new) ==
    [k \in DOMAIN new \cup DOMAIN map |-> IF k \in DOMAIN new THEN new[k] ELSE map[k]]
Put(map, key, value) == PutAll(map, [k \in {key} |-> value])

Str(symbol) == <<symbol>>

\* members() is ordered by key, so that of several keys with the same number the last
\* one in that order is the one that stays in the map: KeyOf(...)[n] for number n.
KeyOf(members, number) ==
    [n \in {number[k] : k \in DOMAIN members} |->
        LET keys == {k \in DOMAIN members : number[k] = n}
        IN  CHOOSE k \in keys : \A j \in keys : rank[j] <= rank[k]]

\* The keys read with at(), which throws on a missing one, and with has().
SignalReadable(v) ==
    /\ has(v, Str("start_bit")) /\ has(v, Str("length"))
    /\ has(v, Str("enum")) =>
          DOMAIN v.object[Str("enum")].object \subseteq DOMAIN stoi

MessageReadable(v) ==
    /\ has(v, Str("name")) /\ has(v, Str("period_ms"))
    /\ has(v, Str("byte_order")) /\ has(v, Str("signals"))
    /\ \A s \in DOMAIN v.object[Str("signals")].object :
          SignalReadable(v.object[Str("signals")].object[s])

Get(v, key, default) == IF has(v, Str(key)) THEN v.object[Str(key)] ELSE default

SignalDef(v) ==
    LET enum == Get(v, "enum", Null).object
        key == KeyOf(enum, stoi)
    IN  [start_bit |-> asLong(Get(v, "start_bit", Null)),
         length    |-> asLong(Get(v, "length", Null)),
         scale     |-> Get(v, "scale", makeNumber(Unit)).number,
         offset    |-> Get(v, "offset", Null).number,
         is_signed |-> Get(v, "signed", Null).bool,
         enum_values |-> [n \in DOMAIN key |-> enum[key[n]].string]]

ByteOrder(s) == IF s = Str("motorola") THEN "Motorola" ELSE "Intel"

MessageDef(v) ==
    [name       |-> Get(v, "name", Null).string,
     period_ms  |-> asLong(Get(v, "period_ms", Null)),
     byte_order |-> ByteOrder(Get(v, "byte_order", Null).string),
     signals    |-> [s \in DOMAIN Get(v, "signals", Null).object |->
                        SignalDef(Get(v, "signals", Null).object[s])]]

\* The database is ok, or an exception was thrown.
loadFromJsonFile(text) ==
    LET root == parse(text)
        members == root.value.object
        key == KeyOf(members, stoul)
    IN  IF /\ root.ok /\ root.value.type = "Object"
           /\ \A k \in DOMAIN members : k \in DOMAIN stoul /\ MessageReadable(members[k])
        THEN [ok |-> TRUE, messages |-> [id \in DOMAIN key |-> MessageDef(members[key[id]])]]
        ELSE [ok |-> FALSE, messages |-> <<>>]

findSignal(msg, symbol) == Str(symbol) \in DOMAIN msg.signals
=============================================================================
