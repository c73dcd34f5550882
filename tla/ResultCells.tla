----------------------------- MODULE ResultCells -----------------------------
(* A value of a result on its way from the driver to the answer of the API:    *)
(* convertCell in the executor, the JSON in Redis, decodeCachedResult.         *)
(*                                                                             *)
(* Numbers are counted in halves: 3 stands for 1.5, and a whole number is      *)
(* even.  MaxInt takes the place of 2^63 - 1; MaxExact that of 2^53, up to     *)
(* which a float64 holds every whole number.  The strings of a user's tables   *)
(* are opaque; those that are not valid UTF-8 (BLOB, BINARY and BIT columns    *)
(* may hold them) are told from the others.                                    *)
EXTENDS Integers

CONSTANTS MaxInt, MaxExact,
          Text,       \* strings
          Malformed,  \* those that are not valid UTF-8
          Repaired    \* what json.Marshal makes of these, with U+FFFD

ASSUME WidthAssumption == MaxInt \in Nat /\ MaxExact \in Nat
ASSUME TextAssumption ==
    /\ Text \cap Int = {}
    /\ Malformed \subseteq Text
    /\ Repaired \in [Malformed -> Text \ Malformed]

Whole(v) == v % 2 = 0
FitsInt64(v) == Whole(v) /\ -2 * MaxInt - 2 <= v /\ v <= 2 * MaxInt
Exact(v) == -2 * MaxExact <= v /\ v <= 2 * MaxExact

\* The float64 nearest to v.  Above MaxExact there is one for every other whole
\* number; of two that are as near, it is the one with the even mantissa.
Float64(v) ==
    LET r == v % 8
    IN  IF Exact(v) THEN v ELSE v - r + (IF r <= 2 THEN 0 ELSE IF r < 6 THEN 4 ELSE 8)

\* BIGINT stands for the integer columns, signed or not, FLOAT for DOUBLE too, and
\* TEXT for every type that is passed on as a string, DECIMAL and BLOB among them.
Cell(v) ==
    { c \in [type : {"NULL", "TEXT", "BIGINT", "FLOAT"}, val : {v}] :
        /\ c.type = "TEXT" => v \in Text
        /\ c.type = "BIGINT" => v \in Int /\ Whole(v)
        /\ c.type = "FLOAT" => v \in Int /\ Float64(v) = v }

\* The string of an integer that is too large is the integer itself: its digits.
convertCell(c) ==
    CASE c.type = "NULL" -> [go |-> "nil", val |-> 0]
      [] c.type = "BIGINT" /\ FitsInt64(c.val) -> [go |-> "int64", val |-> c.val]
      [] c.type = "FLOAT" -> [go |-> "float64", val |-> Float64(c.val)]
      [] OTHER -> [go |-> "string", val |-> c.val]

\* The whole number json.Marshal writes for a float64 that is whole: the shortest
\* digits that no other float64 is nearer to, and then zeros.  Above MaxExact that
\* may be any whole number that rounds to f.
Digits(f) == IF Exact(f) THEN {f} ELSE { d \in (f - 2)..(f + 2) : Whole(d) /\ Float64(d) = f }

\* json.Marshal: a float64 that is whole is written without a decimal point, and
\* then nothing tells it from an integer; what is not UTF-8 in a string is replaced.
Kind(g) ==
    IF g.go = "float64" /\ ~Whole(g.val) THEN "decimal"
    ELSE IF g.go \in {"int64", "float64"} THEN "whole" ELSE g.go
Written(g) ==
    IF g.go = "float64" /\ Whole(g.val) THEN Digits(g.val)
    ELSE IF g.go = "string" /\ g.val \in Malformed THEN {Repaired[g.val]} ELSE {g.val}
Marshal(g) == { [json |-> Kind(g), val |-> d] : d \in Written(g) }

\* Mutant of normalizeNumber: the JSON is decoded without UseNumber.
normalizeNumber_Float(j) == [go |-> "float64", val |-> Float64(j.val)]

normalizeNumber(j) ==
    IF j.json = "whole" /\ FitsInt64(j.val) THEN [go |-> "int64", val |-> j.val]
                                    ELSE [go |-> "float64", val |-> Float64(j.val)]

\* UseNumber: a number reaches normalizeNumber as it is written.
decodeCachedResult(j) ==
    IF j.json \in {"whole", "decimal"} THEN normalizeNumber(j) ELSE [go |-> j.json, val |-> j.val]

\* What the API may answer for a cell.
Answers(c) == { decodeCachedResult(j) : j \in Marshal(convertCell(c)) }
-----------------------------------------------------------------------------
\* What survives Redis for a cell of value v: NULL is null and only NULL is; a
\* string that is UTF-8 stays the same string, any other becomes some string; an
\* integer never loses its last digits in a float64, also when it is too large for
\* an int64; a floating-point number stays the same number up to MaxExact, and
\* beyond is answered as a number with the same float64, not always the same
\* number.  (convertCell, Marshal, decodeCachedResult, normalizeNumber.)
Faithful(v) ==
    \A c \in Cell(v) : \A a \in Answers(c) :
        /\ c.type = "NULL" <=> a.go = "nil"
        /\ c.type = "TEXT" => a.go = "string" /\ (v \notin Malformed => a.val = v)
        /\ c.type = "BIGINT" => a.val = v
        /\ c.type = "FLOAT" => Float64(a.val) = v /\ (Exact(v) => a.val = v)
=============================================================================
