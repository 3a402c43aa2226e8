---------------------------- MODULE DataReaders ----------------------------
(***************************************************************************)
(* The readers behind the interface DataReader: LoadedDataReader over      *)
(* memory, FileInputReader over a file and FileStoredReader over a file    *)
(* read into memory.  Each keeps, beside the caret of DataReader, a place  *)
(* of its own to read from, which every operation has to move along.       *)
(*                                                                         *)
(* The bytes are positions 0 .. size - 1, of which zeros hold 0.  None of  *)
(* the readers compares its place with the end.  Skips and resets beyond   *)
(* it only move the place; a read there gets less than it asked for from a *)
(* file, and from memory bytes that are not the reader's, after which the  *)
(* model claims nothing.  A reader of a file that did not open is left     *)
(* out, isValid tells.                                                     *)
(***************************************************************************)
EXTENDS Integers

CONSTANTS
  Classes,   \* "loaded", "file", "stored"
  MaxSize,   \* bound on the number of bytes
  Amounts,   \* bytes of a number, a text, a skip
  MaxCaret   \* bound on the caret

ASSUME ReaderAssumption ==
  /\ Classes \subseteq {"loaded", "file", "stored"}
  /\ MaxSize \in Nat /\ MaxCaret \in Nat
  /\ Amounts \subseteq Nat

VARIABLES
  class,     \* the reader's class
  size,      \* bytes there are
  zeros,     \* those that are 0
  caret,     \* DataReader::caret
  pos,       \* dataHolder, the position of fileHandle, iterator
  inString,  \* readString() is in its loop
  dropped,   \* bytes other than 0 it read and left out of its result
  outside    \* memory was read that is not the reader's

dataVars == <<class, size, zeros>>
readerVars == <<class, size, zeros, caret, pos, inString, dropped, outside>>

ReaderInit ==
  /\ class \in Classes
  /\ size \in 0..MaxSize
  /\ zeros \in SUBSET (0..(size - 1))
  /\ caret = 0 /\ pos = 0
  /\ inString = FALSE /\ dropped = {} /\ outside = FALSE

\* A LoadedDataReader is not told the size.
FileSize == IF class = "loaded" THEN 0 ELSE size

\* isEndOfFile; LoadedDataReader has DataReader's, which is always true.
IsEndOfFile == class = "loaded" \/ caret >= FileSize

\* The bytes from pos on are read though they are not all the reader's: the ones
\* given to a LoadedDataReader, or a stored file and the 0 that readString(bytes)
\* put behind it.
ReadsOutside(n) ==
  \/ class = "loaded" /\ pos + n > size
  \/ class = "stored" /\ pos + n > size + 1

\* Where a read of n bytes leads: fread stops at the end.
Moved(n) == IF class # "file" \/ pos + n <= size THEN pos + n
            ELSE IF pos < size THEN size ELSE pos

Ready(n) == ~inString /\ ~outside /\ caret + n <= MaxCaret

\* readUInt, readUShort, readByte, readFloat, readDouble
ReadNumber(n) ==
  /\ Ready(n)
  /\ caret' = caret + n
  /\ pos' = Moved(n)
  /\ outside' = ReadsOutside(n)
  /\ UNCHANGED <<dataVars, inString, dropped>>

\* readString(bytes).  LoadedDataReader's adds to the caret only: the next read
\* gets the same bytes again.  Mutant: FileStoredReader's does the same.
ReadTextUnmoved(n) ==
  /\ Ready(n)
  /\ caret' = caret + n
  /\ pos' = IF class = "file" THEN Moved(n) ELSE pos
  /\ outside' = ReadsOutside(n)
  /\ UNCHANGED <<dataVars, inString, dropped>>
ReadText(n) ==
  /\ Ready(n)
  /\ caret' = caret + n
  /\ pos' = IF class = "loaded" THEN pos ELSE Moved(n)
  /\ outside' = ReadsOutside(n)
  /\ UNCHANGED <<dataVars, inString, dropped>>

\* skipBytes
Skip(n) ==
  /\ Ready(n)
  /\ caret' = caret + n
  /\ pos' = pos + n
  /\ UNCHANGED <<dataVars, inString, dropped, outside>>

\* resetCaretTo of a FileReader, forward, back, or beyond the end.
ResetCaretTo(p) ==
  /\ ~inString /\ ~outside /\ class # "loaded"
  /\ caret' = p /\ pos' = p
  /\ UNCHANGED <<dataVars, inString, dropped, outside>>

\* readString(), which FileStoredReader does not have: DataReader's returns
\* nullptr.
BeginString ==
  /\ ~inString /\ ~outside /\ class # "stored"
  /\ inString' = TRUE
  /\ UNCHANGED <<dataVars, caret, pos, dropped, outside>>

\* One round of its loop.  The byte is what was left on the stack when fread got
\* none, and anything when it is not the reader's.  It ends at a 0, and at the end whether or not the last byte is one.
\* Mutant: the caret is compared before the byte is counted.
ReadCharEarly ==
  /\ inString /\ ~outside /\ caret < MaxCaret
  /\ caret' = caret + 1
  /\ pos' = Moved(1)
  /\ outside' = ReadsOutside(1)
  /\ \E isZero \in IF pos < size THEN {pos \in zeros} ELSE BOOLEAN :
       /\ inString' = (~isZero /\ caret + 2 < FileSize)
       /\ dropped' = IF isZero \/ inString' \/ pos >= size THEN dropped
                     ELSE dropped \cup {pos}
  /\ UNCHANGED dataVars
ReadChar ==
  /\ inString /\ ~outside /\ caret < MaxCaret
  /\ caret' = caret + 1
  /\ pos' = Moved(1)
  /\ outside' = ReadsOutside(1)
  /\ \E isZero \in IF pos < size THEN {pos \in zeros} ELSE BOOLEAN :
       /\ inString' = (~isZero /\ caret' < FileSize)
       /\ dropped' = IF isZero \/ inString' \/ pos >= size THEN dropped
                     ELSE dropped \cup {pos}
  /\ UNCHANGED dataVars

ReaderNext ==
  \/ \E n \in Amounts : ReadNumber(n) \/ ReadText(n) \/ Skip(n)
  \/ \E p \in 0..MaxCaret : ResetCaretTo(p)
  \/ BeginString
  \/ ReadChar

ReaderSpec == ReaderInit /\ [][ReaderNext]_readerVars
-----------------------------------------------------------------------------
\* Every variable has a value of its range.
ReaderTypeOK ==
  /\ class \in {"loaded", "file", "stored"}
  /\ {size, caret, pos} \subseteq Nat
  /\ zeros \subseteq 0..(size - 1) /\ dropped \subseteq 0..(size - 1)
  /\ inString \in BOOLEAN /\ outside \in BOOLEAN

\* After any calls the caret of a FileInputReader or FileStoredReader, when it is
\* within the file, is the place the next read starts at, and isEndOfFile is true
\* exactly when no byte of the file is left there: fread stops at the end and the
\* caret does not, a skip moves the two from different places, and a reset brings
\* them together again.  (Not so in a LoadedDataReader, whose readString(bytes)
\* moves one of the two and whose isEndOfFile is always true.)
PositionKnown ==
  class # "loaded" =>
    /\ caret <= size => pos = caret
    /\ IsEndOfFile <=> pos >= size

\* FileInputReader's readString() loses no byte of a file but the last one, when
\* it is not 0.
LossOnlyAtEnd == class = "file" => dropped \subseteq {size - 1}
=============================================================================
