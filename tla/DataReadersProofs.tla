-------------------------- MODULE DataReadersProofs --------------------------
(***************************************************************************)
(* The caret of a reader and the place it reads from, for files of every   *)
(* size and every sequence of calls.                                       *)
(***************************************************************************)
EXTENDS DataReaders, TLAPS

\* What is known of the place besides: a stored file's is the caret, a file's is
\* at or behind the end once the caret is, and no further than the caret.
PlaceKnown ==
  /\ class = "stored" => pos = caret
  /\ class = "file" =>
       IF caret <= size THEN pos = caret ELSE pos \in size..caret

Inv ==
  /\ ReaderTypeOK
  /\ PlaceKnown
  /\ LossOnlyAtEnd
  /\ inString => class # "stored"

LEMMA InitInv == ReaderInit => Inv
<1> SUFFICES ASSUME ReaderInit
             PROVE  Inv
  OBVIOUS
<1>1. /\ class \in {"loaded", "file", "stored"} /\ size \in Nat
      /\ caret = 0 /\ pos = 0 /\ outside = FALSE
      /\ inString = FALSE /\ dropped = {}
  BY ReaderAssumption DEF ReaderInit
<1>2. zeros \subseteq 0..(size - 1)
  BY DEF ReaderInit
<1>3. ReaderTypeOK
  <2>1. {size, caret, pos} \subseteq Nat
    BY <1>1
  <2>2. /\ dropped \subseteq 0..(size - 1)
        /\ inString \in BOOLEAN /\ outside \in BOOLEAN
    BY <1>1
  <2> QED
    BY <1>1, <1>2, <2>1, <2>2 DEF ReaderTypeOK
<1>4. PlaceKnown
  BY <1>1 DEF PlaceKnown
<1>5. LossOnlyAtEnd /\ ~inString
  BY <1>1 DEF LossOnlyAtEnd
<1> QED
  BY <1>3, <1>4, <1>5 DEF Inv

\* What a read does to the place.
LEMMA MovedKnown ==
  ASSUME ReaderTypeOK, PlaceKnown, NEW n \in Nat
  PROVE  /\ Moved(n) \in Nat
         /\ class = "stored" => Moved(n) = caret + n
         /\ class = "file" =>
              IF caret + n <= size THEN Moved(n) = caret + n
              ELSE Moved(n) \in size..(caret + n)
  BY DEF ReaderTypeOK, PlaceKnown, Moved

\* Reading outside or not: no action leaves it open.
LEMMA OutsideType == ASSUME NEW n PROVE ReadsOutside(n) \in BOOLEAN
  BY DEF ReadsOutside

LEMMA NextInv == Inv /\ [ReaderNext]_readerVars => Inv'
<1> SUFFICES ASSUME Inv, [ReaderNext]_readerVars
             PROVE  Inv'
  OBVIOUS
<1> USE DEF Inv
<1>1. ASSUME NEW n \in Amounts, ReadNumber(n)
      PROVE  Inv'
  <2>1. n \in Nat
    BY ReaderAssumption
  <2>2. caret' = caret + n /\ pos' = Moved(n)
          /\ UNCHANGED <<dataVars, inString, dropped>>
    BY <1>1 DEF ReadNumber
  <2>3. outside' \in BOOLEAN
    BY <1>1, OutsideType DEF ReadNumber
  <2> QED
    BY <2>1, <2>2, <2>3, MovedKnown
    DEF ReaderTypeOK, PlaceKnown, LossOnlyAtEnd, dataVars
<1>2. ASSUME NEW n \in Amounts, ReadText(n)
      PROVE  Inv'
  <2>1. n \in Nat
    BY ReaderAssumption
  <2>2. /\ caret' = caret + n
        /\ pos' = IF class = "loaded" THEN pos ELSE Moved(n)
        /\ UNCHANGED <<dataVars, inString, dropped>>
    BY <1>2 DEF ReadText
  <2>3. outside' \in BOOLEAN
    BY <1>2, OutsideType DEF ReadText
  <2> QED
    BY <2>1, <2>2, <2>3, MovedKnown
    DEF ReaderTypeOK, PlaceKnown, LossOnlyAtEnd, dataVars
<1>3. ASSUME NEW n \in Amounts, Skip(n)
      PROVE  Inv'
  <2>1. n \in Nat
    BY ReaderAssumption
  <2> QED
    BY <2>1, <1>3
    DEF Skip, ReaderTypeOK, PlaceKnown, LossOnlyAtEnd, dataVars
<1>4. ASSUME NEW p \in 0..MaxCaret, ResetCaretTo(p)
      PROVE  Inv'
  BY <1>4, ReaderAssumption
  DEF ResetCaretTo, ReaderTypeOK, PlaceKnown, LossOnlyAtEnd, dataVars
<1>5. CASE BeginString
  BY <1>5 DEF BeginString, ReaderTypeOK, PlaceKnown, LossOnlyAtEnd, dataVars
<1>6. CASE ReadChar
  <2>1. class # "stored"
    BY <1>6 DEF ReadChar
  <2>2. caret' = caret + 1 /\ pos' = Moved(1) /\ UNCHANGED dataVars
    BY <1>6 DEF ReadChar
  <2>3. PICK isZero \in BOOLEAN :
          /\ inString' = (~isZero /\ caret' < FileSize)
          /\ dropped' = IF isZero \/ inString' \/ pos >= size THEN dropped
                        ELSE dropped \cup {pos}
    BY <1>6 DEF ReadChar
  <2>4. ReaderTypeOK' /\ PlaceKnown'
    <3>1. inString' \in BOOLEAN /\ outside' \in BOOLEAN
      <4>1. outside' \in BOOLEAN
        BY <1>6, OutsideType DEF ReadChar
      <4> QED
        BY <2>3, <4>1
    <3>2. dropped' \subseteq 0..(size - 1)
      <4>1. CASE dropped' = dropped
        BY <4>1 DEF ReaderTypeOK
      <4>2. CASE dropped' # dropped
        <5>1. dropped' = dropped \cup {pos} /\ ~(pos >= size)
          BY <4>2, <2>3
        <5>2. pos \in 0..(size - 1)
          BY <5>1 DEF ReaderTypeOK
        <5> QED
          BY <5>1, <5>2 DEF ReaderTypeOK
      <4> QED
        BY <4>1, <4>2
    <3> QED
      BY <3>1, <3>2, <2>2, <2>1, MovedKnown
      DEF ReaderTypeOK, PlaceKnown, dataVars
  <2>5. LossOnlyAtEnd'
    <3>1. CASE class = "file" /\ dropped' # dropped
      <4>1. pos < size /\ caret + 1 >= size /\ dropped' = dropped \cup {pos}
        <5>1. ~isZero /\ ~inString' /\ ~(pos >= size)
                /\ dropped' = dropped \cup {pos}
          BY <3>1, <2>3
        <5>2. ~(caret + 1 < size)
          BY <5>1, <3>1, <2>2, <2>3 DEF FileSize
        <5> QED
          BY <5>1, <5>2 DEF ReaderTypeOK
      <4>2. pos = size - 1
        BY <4>1, <3>1 DEF PlaceKnown, ReaderTypeOK
      <4> QED
        BY <4>1, <4>2, <2>2 DEF LossOnlyAtEnd, dataVars
    <3> QED
      BY <3>1, <2>1, <2>2 DEF LossOnlyAtEnd, ReaderTypeOK, dataVars
  <2> QED
    BY <2>1, <2>2, <2>4, <2>5 DEF dataVars
<1>7. CASE UNCHANGED readerVars
  BY <1>7 DEF readerVars, dataVars, ReaderTypeOK, PlaceKnown, LossOnlyAtEnd
<1> QED
  BY <1>1, <1>2, <1>3, <1>4, <1>5, <1>6, <1>7 DEF ReaderNext

LEMMA ReaderInv == ReaderSpec => []Inv
  BY InitInv, NextInv, PTL DEF ReaderSpec

\* Every variable keeps its type.
THEOREM ReaderTypes == ReaderSpec => []ReaderTypeOK
  BY ReaderInv, PTL DEF Inv

\* For files of every size and any calls, within the file and beyond: a
\* FileReader's caret within the file is where its next read starts, and its
\* isEndOfFile is exact.
THEOREM CaretTellsPosition == ReaderSpec => []PositionKnown
<1>1. Inv => PositionKnown
  BY DEF Inv, ReaderTypeOK, PlaceKnown, PositionKnown, IsEndOfFile, FileSize
<1> QED
  BY <1>1, ReaderInv, PTL

\* readString() of a FileInputReader leaves out no byte of a file but the last.
THEOREM StringKeepsBytes == ReaderSpec => []LossOnlyAtEnd
  BY ReaderInv, PTL DEF Inv
=============================================================================
