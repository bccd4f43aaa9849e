------------------------------ MODULE Keyboard ------------------------------
(***************************************************************************)
(* The keyboard: its interrupt handler, which appends to stdin, getchar,   *)
(* which polls two indices with interrupts on, and getline on top of it,   *)
(* in the kernel shell and in libc alike.  One program reads at a time     *)
(* (OneReader of Launch); the handler may come between any two of its      *)
(* steps.                                                                  *)
(*                                                                         *)
(* A plain key, letter, gives one character or, shifted, another; space    *)
(* shifted gives NUL (' ' - 32).  stdin is appended to as a string, at     *)
(* its first NUL, but read by an index that counts keys.                   *)
(***************************************************************************)
EXTENDS Integers, Sequences, SequencesExt

CONSTANT MAX_STDIN_LENGTH   \* size of stdin, and of the callers' lines

ASSUME StdinAssumption == MAX_STDIN_LENGTH \in Nat /\ MAX_STDIN_LENGTH >= 2

VARIABLES
    stdin,          \* the buffer of the driver
    stdinIndex,     \* keys put into it
    readIndex,      \* keys taken out of it
    shiftPressed,   \* toggled by shift, down and up, and by caps lock
    at,             \* where the reader is in getchar and getline
    ascii,          \* the character getchar took
    lineptr,        \* the buffer of getline's caller
    pos,            \* where getline writes, the wrapped values as negative
    seen            \* history: what getline has read of this line

driver == <<stdin, stdinIndex, shiftPressed>>
reader == <<readIndex, at, ascii, lineptr, pos, seen>>
vars   == <<driver, reader>>

Keys  == {"letter", "space", "ENTER", "BACKSPACE", "unlisted"}
Chars == {"a", "A", " ", "NL", "BS"}
Bytes == Chars \union {"NUL"}
Cells == 0 .. MAX_STDIN_LENGTH - 1

\* What a key may make.  Unlisted keys, those above SC_MAX, are looked up
\* behind the table: any byte.
Ascii(key) ==
    CASE key = "letter"    -> IF shiftPressed THEN {"A"} ELSE {"a"}
      [] key = "space"     -> IF shiftPressed THEN {"NUL"} ELSE {" "}
      [] key = "ENTER"     -> {"NL"}
      [] key = "BACKSPACE" -> {"BS"}
      [] key = "unlisted"  -> Bytes

\* n is the length of the string in buffer s.
IsStrlen(s, n) == s[n] = "NUL" /\ \A i \in Cells : i < n => s[i] # "NUL"

Init ==
    /\ stdin = [i \in Cells |-> "NUL"]
    /\ stdinIndex = 0 /\ readIndex = 0
    /\ shiftPressed = FALSE
    /\ at = "poll"
    /\ ascii = "NUL"
    /\ lineptr = [i \in Cells |-> "NUL"]
    /\ pos = 0
    /\ seen = <<>>

-----------------------------------------------------------------------------
(* The interrupt handler.                                                  *)

toggleShift ==
    /\ shiftPressed' = ~shiftPressed
    /\ UNCHANGED <<stdin, stdinIndex, reader>>

\* append goes by strlen.  The model ends when stdin is full: the code then
\* writes behind it, as nothing ever empties it.
kbd_irq(key) ==
    /\ stdinIndex < MAX_STDIN_LENGTH - 1
    /\ \E n \in Cells, c \in Ascii(key) :
         /\ IsStrlen(stdin, n)
         /\ stdin' = [stdin EXCEPT ![n] = c, ![n + 1] = "NUL"]
    /\ stdinIndex' = stdinIndex + 1
    /\ UNCHANGED <<shiftPressed, reader>>

-----------------------------------------------------------------------------
(* getchar.                                                                *)

\* Fault: the poll ends one key late.
PollLate ==
    /\ at = "poll" /\ stdinIndex > readIndex + 1
    /\ at' = "take"
    /\ UNCHANGED <<driver, readIndex, ascii, lineptr, pos, seen>>

\* Fault: the poll compares with < where the code has <=.
PollEqual ==
    /\ at = "poll" /\ stdinIndex >= readIndex
    /\ at' = "take"
    /\ UNCHANGED <<driver, readIndex, ascii, lineptr, pos, seen>>

\* while (stdinIndex <= readIndex);
Poll ==
    /\ at = "poll" /\ stdinIndex > readIndex
    /\ at' = "take"
    /\ UNCHANGED <<driver, readIndex, ascii, lineptr, pos, seen>>

Take ==
    /\ at = "take"
    /\ ascii' = stdin[readIndex]
    /\ at' = "advance"
    /\ UNCHANGED <<driver, readIndex, lineptr, pos, seen>>

\* Fault: the read index jumps to the write index.
AdvanceToEnd ==
    /\ at = "advance"
    /\ readIndex' = stdinIndex
    /\ at' = "edit"
    /\ UNCHANGED <<driver, ascii, lineptr, pos, seen>>

Advance ==
    /\ at = "advance"
    /\ readIndex' = readIndex + 1
    /\ at' = "edit"
    /\ UNCHANGED <<driver, ascii, lineptr, pos, seen>>

-----------------------------------------------------------------------------
(* getline: what it does with the character it got.                        *)

\* A write in front of the buffer (pos < 0) goes to memory of the caller's
\* that is not in the model.
Put(i, c) ==
    lineptr' = IF i \in Cells THEN [lineptr EXCEPT ![i] = c] ELSE lineptr

\* Fault: a backspace moves the position back by two in all, not by one.
EraseTwo ==
    /\ at = "edit" /\ ascii = "BS"
    /\ Put(pos - 1, " ")
    /\ pos' = pos - 2
    /\ seen' = Append(seen, ascii)
    /\ at' = "poll"
    /\ UNCHANGED <<driver, readIndex, ascii>>

\* pos - 2, and the increment at the end of the loop.
Erase ==
    /\ at = "edit" /\ ascii = "BS"
    /\ Put(pos - 1, " ")
    /\ pos' = pos - 1
    /\ seen' = Append(seen, ascii)
    /\ at' = "poll"
    /\ UNCHANGED <<driver, readIndex, ascii>>

EndLine ==
    /\ at = "edit" /\ ascii = "NL"
    /\ Put(pos, "NUL")
    /\ at' = "returned"
    /\ UNCHANGED <<driver, readIndex, ascii, pos, seen>>

Store ==
    /\ at = "edit" /\ ascii \notin {"BS", "NL"}
    /\ Put(pos, ascii)
    /\ pos' = pos + 1
    /\ seen' = Append(seen, ascii)
    /\ at' = "poll"
    /\ UNCHANGED <<driver, readIndex, ascii>>

\* The caller has done with its line and asks for the next.
getline ==
    /\ at = "returned"
    /\ lineptr' = [i \in Cells |-> "NUL"]
    /\ pos' = 0
    /\ seen' = <<>>
    /\ at' = "poll"
    /\ UNCHANGED <<driver, readIndex, ascii>>

-----------------------------------------------------------------------------
Read == Poll \/ Take \/ Advance \/ Erase \/ EndLine \/ Store \/ getline

Full == stdinIndex = MAX_STDIN_LENGTH - 1

Next ==
    \/ \E key \in Keys : kbd_irq(key)
    \/ ~Full /\ toggleShift
    \/ Read
    \/ Full /\ at = "poll" /\ readIndex = stdinIndex /\ UNCHANGED vars

\* Nobody has to type; a reader gets on.
Spec == Init /\ [][Next]_vars /\ WF_vars(Read)

-----------------------------------------------------------------------------
(* Properties.                                                             *)

KbdTypeOK ==
    /\ stdin \in [Cells -> Bytes]
    /\ stdinIndex \in Cells /\ readIndex \in 0 .. stdinIndex
    /\ shiftPressed \in BOOLEAN
    /\ at \in {"poll", "take", "advance", "edit", "returned"}
    /\ ascii \in Bytes
    /\ lineptr \in [Cells -> Bytes]
    /\ pos \in -MAX_STDIN_LENGTH .. MAX_STDIN_LENGTH - 1
    /\ seen \in Seq(Bytes) /\ Len(seen) < MAX_STDIN_LENGTH

\* The string's end and the index of keys agree, until a NUL was typed.
InStep == IsStrlen(stdin, stdinIndex)

\* What is typed and not taken yet; the key between Take and Advance is taken.
Waiting ==
    LET first == IF at = "advance" THEN readIndex + 1 ELSE readIndex
    IN  [i \in 1 .. stdinIndex - first |-> stdin[first + i - 1]]

Q == INSTANCE KeyQueue WITH queue <- Waiting, void <- ~InStep

\* Whenever keys arrive, between any steps of a reader, they reach it all and
\* in order, until a NUL is typed.
ImplementsKeyQueue == Q!Spec

\* The line as it should be: a backspace takes back the last character, if
\* there is one.
Edit(line, c) == IF c # "BS" THEN Append(line, c) ELSE IF line = <<>> THEN line ELSE Front(line)
Edited(s) ==
    LET line[i \in 0 .. Len(s)] == IF i = 0 THEN <<>> ELSE Edit(line[i - 1], s[i])
    IN  line[Len(s)]

\* No backspace came when there was nothing to take back, and no NUL.
Ordinary(s) ==
    /\ \A i \in 1 .. Len(s) : s[i] # "NUL"
    /\ \A i \in 1 .. Len(s) : s[i] = "BS" => Edited(SubSeq(s, 1, i - 1)) # <<>>

\* getline returns the line as edited.
LineAsEdited ==
    at = "returned" /\ Ordinary(seen) =>
      /\ IsStrlen(lineptr, Len(Edited(seen)))
      /\ \A i \in 1 .. Len(Edited(seen)) : lineptr[i - 1] = Edited(seen)[i]

\* Every key is read, the last one included.
KeysRead == \A n \in Cells : (stdinIndex = n) ~> (readIndex >= n)
=============================================================================
