------------------------------ MODULE CanDecode ------------------------------
(***************************************************************************)
(* Loading the signal database from its file and decoding payloads with    *)
(* it, as main() of task 3 does.  The file may have been cut short when it *)
(* was written.                                                            *)
(***************************************************************************)
EXTENDS DbcDatabase, SignalCodec

CONSTANT
    Documents     \* records [text, database]: a whole text, and the database that
                  \* the document it was written from describes (NoDatabase if it
                  \* lacks something that is required)

VARIABLES
    document,     \* the document that was written
    cut,          \* how many symbols of its text are in the file
    db,           \* the outcome of loadFromJsonFile, once it is "loaded"
    phase,
    payload,      \* the last payload decoded
    decoded       \* decoded[id][signal]: its raw and its physical value

vars == <<document, cut, db, phase, payload, decoded>>

NoDatabase == [ok |-> FALSE, messages |-> <<>>]

Init ==
    /\ document \in Documents
    /\ cut \in 0 .. Len(document.text)
    /\ db = NoDatabase
    /\ phase = "start"
    /\ payload = <<>>
    /\ decoded = <<>>

LoadDatabase ==
    /\ phase = "start"
    /\ db' = loadFromJsonFile(SubSeq(document.text, 1, cut))
    /\ phase' = IF db'.ok THEN "loaded" ELSE "failed"
    /\ UNCHANGED <<document, cut, payload, decoded>>

Decode ==
    /\ phase = "loaded"
    /\ payload' \in FramePayload
    /\ decoded' =
          [id \in DOMAIN db.messages |->
              LET msg == db.messages[id]
              IN  [s \in DOMAIN msg.signals |->
                     [raw |-> extractRaw(payload', msg.signals[s], msg.byte_order),
                      physical |-> decodePhysical(payload', msg.signals[s], msg.byte_order)]]]
    /\ phase' = "decoded"
    /\ UNCHANGED <<document, cut, db>>

Stop == phase \in {"failed", "decoded"} /\ UNCHANGED vars

Next == LoadDatabase \/ Decode \/ Stop

Spec == Init /\ [][Next]_vars

-----------------------------------------------------------------------------
(* Properties.                                                             *)

\* A whole file gives the database its document describes, whatever the layout: the
\* value of the first of two equal keys, defaults for what is left out, the last of
\* two messages whose keys are the same identifier; a document without a required
\* key is refused ("Missing JSON key").
DatabaseMatchesDocument ==
    phase # "start" /\ cut = Len(document.text) => db = document.database

\* A file that was cut short anywhere, inside a string, a literal or between two
\* messages, is refused: no partial database is ever used.
TruncatedIsRefused ==
    phase # "start" /\ cut < Len(document.text) => ~db.ok

\* Every decoded value is the slice of the payload that the document's start_bit,
\* length and byte_order name (signal_codec.hpp:17), read as a signed or unsigned
\* number, scaled and shifted; a signal that reaches past the payload keeps the bits
\* that are inside.
DecodedIsBitField ==
    phase = "decoded" =>
        \A id \in DOMAIN document.database.messages :
            LET msg == document.database.messages[id]
            IN  \A s \in DOMAIN msg.signals :
                    LET sig == msg.signals[s]
                    IN  /\ decoded[id][s].raw = BitField(payload, sig, msg.byte_order)
                        /\ decoded[id][s].physical =
                              FieldValue(payload, sig, msg.byte_order) * sig.scale + sig.offset
=============================================================================
