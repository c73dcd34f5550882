------------------------- MODULE ResultCells_proofs -------------------------
(* Proofs about ResultCells, for any widths and any strings.                  *)
EXTENDS ResultCells, TLAPS

\* An answer is decoded from one of the values that may be written for the cell.
\* (Marshal, decodeCachedResult.)
LEMMA AnswerIsWritten ==
    ASSUME NEW c, NEW a \in Answers(c)
    PROVE  \E d \in Written(convertCell(c)) :
              a = decodeCachedResult([json |-> Kind(convertCell(c)), val |-> d])
  BY DEF Answers, Marshal

\* What is not a number is decoded as it is.  (decodeCachedResult.)
LEMMA PassedOn ==
    ASSUME NEW k \in {"nil", "string"}, NEW d
    PROVE  decodeCachedResult([json |-> k, val |-> d]) = [go |-> k, val |-> d]
  BY DEF decodeCachedResult

\* NULL comes back as null.  (convertCell, Marshal, decodeCachedResult.)
LEMMA NullSurvives ==
    ASSUME NEW c, c.type = "NULL", NEW a \in Answers(c)
    PROVE  a.go = "nil"
  <1>1. convertCell(c).go = "nil"
    BY DEF convertCell
  <1>2. Kind(convertCell(c)) = "nil"
    BY <1>1 DEF Kind
  <1>3. PICK d : a = decodeCachedResult([json |-> "nil", val |-> d])
    BY <1>2, AnswerIsWritten
  <1>4. a = [go |-> "nil", val |-> d]
    BY <1>3, PassedOn
  <1> QED
    BY <1>4

\* A string comes back as a string, the same one if it is UTF-8.  (convertCell,
\* Marshal, decodeCachedResult.)
LEMMA StringSurvives ==
    ASSUME NEW c, convertCell(c) = [go |-> "string", val |-> c.val], NEW a \in Answers(c)
    PROVE  /\ a.go = "string"
           /\ c.val \notin Malformed => a.val = c.val
  <1>1. Kind(convertCell(c)) = "string"
    BY DEF Kind
  <1>2. c.val \notin Malformed => Written(convertCell(c)) = {c.val}
    BY DEF Written
  <1>3. PICK d \in Written(convertCell(c)) :
          a = decodeCachedResult([json |-> "string", val |-> d])
    BY <1>1, AnswerIsWritten
  <1>4. a = [go |-> "string", val |-> d]
    BY <1>3, PassedOn
  <1> QED
    BY <1>2, <1>3, <1>4

\* An integer comes back as an int64 or, beyond that, as a string; never as another
\* number.  (convertCell, normalizeNumber.)
LEMMA IntegerSurvives ==
    ASSUME NEW c, c.type = "BIGINT", c.val \in Int, NEW a \in Answers(c)
    PROVE  /\ a.go = IF FitsInt64(c.val) THEN "int64" ELSE "string"
           /\ a.val = c.val
  <1>1. CASE FitsInt64(c.val)
    <2>1. convertCell(c) = [go |-> "int64", val |-> c.val]
      BY <1>1 DEF convertCell
    <2>2. Kind(convertCell(c)) = "whole" /\ Written(convertCell(c)) = {c.val}
      BY <2>1 DEF Kind, Written
    <2>3. a = decodeCachedResult([json |-> "whole", val |-> c.val])
      BY <2>2, AnswerIsWritten
    <2> QED
      BY <1>1, <2>3 DEF decodeCachedResult, normalizeNumber
  <1>2. CASE ~FitsInt64(c.val)
    <2>1. convertCell(c) = [go |-> "string", val |-> c.val]
      BY <1>2 DEF convertCell
    <2>2. c.val \notin Malformed
      BY TextAssumption
    <2> QED
      BY <1>2, <2>1, <2>2, StringSurvives
  <1> QED
    BY <1>1, <1>2

\* What Marshal writes for a float64 denotes that float64, and is the same number
\* up to MaxExact.  (Marshal.)
LEMMA FloatWritten ==
    ASSUME NEW f \in Int, Float64(f) = f, NEW d \in Written([go |-> "float64", val |-> f])
    PROVE  /\ d \in Int
           /\ Float64(d) = f
           /\ Exact(f) => d = f
  <1>1. d \in Digits(f) \/ d = f
    BY DEF Written
  <1> QED
    BY <1>1 DEF Digits

\* A float comes back as a number with the same float64, the same number up to
\* MaxExact.  (convertCell, Marshal, normalizeNumber.)
LEMMA FloatSurvives ==
    ASSUME NEW c, c.type = "FLOAT", c.val \in Int, Float64(c.val) = c.val,
           NEW a \in Answers(c)
    PROVE  /\ a.go \in {"int64", "float64"}
           /\ Float64(a.val) = c.val
           /\ Exact(c.val) => a.val = c.val
  <1>1. convertCell(c) = [go |-> "float64", val |-> c.val]
    BY DEF convertCell
  <1>2. Kind(convertCell(c)) \in {"whole", "decimal"}
    BY <1>1 DEF Kind
  <1>3. PICK d \in Written(convertCell(c)) :
          a = normalizeNumber([json |-> Kind(convertCell(c)), val |-> d])
    BY <1>2, AnswerIsWritten DEF decodeCachedResult
  <1>4. /\ Float64(d) = c.val
        /\ Exact(c.val) => d = c.val
    BY <1>1, <1>3, FloatWritten
  <1>5. /\ a.go \in {"int64", "float64"}
        /\ a.val \in {d, Float64(d)}
    BY <1>3 DEF normalizeNumber
  <1> QED
    BY <1>4, <1>5

\* Every cell is answered, so that what is said of all its answers is said of some.
\* (convertCell, Marshal.)
LEMMA IsAnswered ==
    ASSUME NEW v, NEW c \in Cell(v)
    PROVE  Answers(c) # {}
  <1> DEFINE g == convertCell(c)
  <1>1. c.type = "FLOAT" => c.val \in Int /\ Float64(c.val) = c.val
    BY DEF Cell
  <1>2. g.go = "float64" => g.val \in Int /\ Float64(g.val) = g.val
    BY <1>1 DEF convertCell
  <1> HIDE DEF g
  <1>3. ASSUME g.val \in Int, Float64(g.val) = g.val PROVE g.val \in (g.val - 2)..(g.val + 2)
    BY <1>3
  <1>4. Written(g) # {}
    BY <1>2, <1>3 DEF Written, Digits
  <1>5. PICK d : d \in Written(g)
    BY <1>4
  <1> QED
    BY <1>5 DEF Answers, Marshal, g

\* Every cell of every value is answered, and every answer is one Faithful allows,
\* for any widths and any strings: integers, NULLs and UTF-8 strings exactly, floats
\* up to their float64.  (convertCell, Marshal, decodeCachedResult.)
THEOREM CellsCorrect ==
    \A v \in Int \union Text : Faithful(v) /\ \A c \in Cell(v) : Answers(c) # {}
  <1> SUFFICES ASSUME NEW v \in Int \union Text, NEW c \in Cell(v), NEW a \in Answers(c)
               PROVE  /\ c.type = "NULL" <=> a.go = "nil"
                      /\ c.type = "TEXT" => a.go = "string" /\ (v \notin Malformed => a.val = v)
                      /\ c.type = "BIGINT" => a.val = v
                      /\ c.type = "FLOAT" => Float64(a.val) = v /\ (Exact(v) => a.val = v)
    BY IsAnswered DEF Faithful
  <1>1. /\ c.type \in {"NULL", "TEXT", "BIGINT", "FLOAT"}
        /\ c.val = v
        /\ c.type = "BIGINT" => v \in Int /\ Whole(v)
        /\ c.type = "FLOAT" => v \in Int /\ Float64(v) = v
    BY DEF Cell
  <1>2. CASE c.type = "NULL"
    BY <1>2, NullSurvives
  <1>3. CASE c.type = "TEXT"
    <2>1. convertCell(c) = [go |-> "string", val |-> c.val]
      BY <1>3 DEF convertCell
    <2> QED
      BY <1>1, <1>3, <2>1, StringSurvives
  <1>4. CASE c.type = "BIGINT"
    BY <1>1, <1>4, IntegerSurvives
  <1>5. CASE c.type = "FLOAT"
    BY <1>1, <1>5, FloatSurvives
  <1> QED
    BY <1>1, <1>2, <1>3, <1>4, <1>5
=============================================================================
