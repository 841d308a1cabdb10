------------------------------ MODULE SensorCsv ------------------------------
(***************************************************************************)
(* Reading a sensor's CSV log (class CsvReader and the build...Events      *)
(* functions of task 2).  A file is NoFile or a sequence of lines; a line  *)
(* is the sequence of the texts between its commas: the number a text      *)
(* converts to, or Word (any other text), Empty, or CarriageReturn (a text *)
(* that is only that character).                                           *)
(***************************************************************************)
EXTENDS Integers, Sequences, Selection

CONSTANTS NoFile, Word, Empty, CarriageReturn

Texts == Int \cup {Word, Empty, CarriageReturn}
Lines == Seq(Texts) \ {<<>>}

ASSUME TextsAssumption == \A text \in {Word, Empty, CarriageReturn} : text \notin Int

StripForgotten(line) == line
Strip(line) ==
    IF line[Len(line)] = CarriageReturn THEN [line EXCEPT ![Len(line)] = Empty] ELSE line

\* std::getline finds no field after the last comma.
Split(line) == IF line[Len(line)] = Empty THEN SubSeq(line, 1, Len(line) - 1) ELSE line

\* Lines that are empty once stripped are skipped.
Kept(file) == {n \in DOMAIN file : Strip(file[n]) # <<Empty>>}
readAll(file) == Selected([n \in DOMAIN file |-> Split(Strip(file[n]))], Kept(file))

\* The first row is the header; rows with too few fields are skipped; a field that is
\* not a number throws.  The result is the timestamps of the events.
LongRows(rows, arity) == {n \in 2 .. Len(rows) : Len(rows[n]) >= arity}
buildEvents(file, arity) ==
    LET data == Selected(readAll(file), LongRows(readAll(file), arity))
    IN  [ok |-> \A n \in DOMAIN data : \A i \in 1 .. arity : data[n][i] \in Int,
         log |-> [n \in DOMAIN data |-> data[n][1]]]
=============================================================================
