--------------------------- MODULE KeyboardProofs ---------------------------
(***************************************************************************)
(* Proofs about Keyboard for every size of its buffer: types, that the     *)
(* driver with a reader is a queue of keys until a NUL is typed, and that  *)
(* getline returns the line as edited.                                     *)
(***************************************************************************)
EXTENDS Keyboard, SequenceTheorems, WellFoundedInduction, TLAPS

\* Behind the keys there are only NULs.
NothingBehind == \A i \in Cells : i >= stdinIndex => stdin[i] = "NUL"

\* A reader past its poll has a key to take.
Counted == at \in {"take", "advance"} => readIndex < stdinIndex

\* getline has moved by no more than the keys it has seen, each read before.
Reach ==
    /\ pos <= Len(seen) /\ -Len(seen) <= pos
    /\ Len(seen) <= readIndex
    /\ at = "edit" => Len(seen) < readIndex

KInv == KbdTypeOK /\ NothingBehind /\ Counted /\ Reach

LEMMA KInvInit == Init => KInv
<1> SUFFICES ASSUME Init PROVE KInv
  OBVIOUS
<1>1. /\ stdin = [i \in Cells |-> "NUL"] /\ lineptr = [i \in Cells |-> "NUL"]
      /\ stdinIndex = 0 /\ readIndex = 0 /\ shiftPressed = FALSE
      /\ at = "poll" /\ ascii = "NUL" /\ pos = 0 /\ seen = <<>>
  BY DEF Init
<1>2. Len(seen) = 0 /\ seen \in Seq(Bytes)
  BY <1>1, EmptySeq
<1>3. KbdTypeOK
  <2>1. 0 \in Cells /\ 0 \in 0 .. 0 /\ "NUL" \in Bytes
          /\ 0 \in -MAX_STDIN_LENGTH .. MAX_STDIN_LENGTH - 1
          /\ 0 < MAX_STDIN_LENGTH
    BY StdinAssumption DEF Cells, Bytes
  <2>. QED  BY <1>1, <1>2, <2>1 DEF KbdTypeOK
<1>4. NothingBehind /\ Counted /\ Reach
  BY <1>1, <1>2 DEF NothingBehind, Counted, Reach
<1>. QED  BY <1>3, <1>4 DEF KInv

\* What a key does to the buffer.
LEMMA KeyTyped ==
    ASSUME KInv, NEW key \in Keys, kbd_irq(key)
    PROVE  \E n \in Cells, c \in Bytes :
             /\ IsStrlen(stdin, n) /\ n <= stdinIndex
             /\ n + 1 \in Cells /\ stdinIndex + 1 \in Cells
             /\ stdin' = [stdin EXCEPT ![n] = c, ![n + 1] = "NUL"]
             /\ stdinIndex' = stdinIndex + 1
<1>1. stdinIndex \in Cells /\ stdinIndex < MAX_STDIN_LENGTH - 1
        /\ stdinIndex' = stdinIndex + 1
  BY DEF KInv, KbdTypeOK, kbd_irq
<1>2. Ascii(key) \subseteq Bytes
  BY DEF Ascii, Keys, Bytes, Chars
<1>3. PICK n \in Cells, c \in Bytes :
        /\ IsStrlen(stdin, n)
        /\ stdin' = [stdin EXCEPT ![n] = c, ![n + 1] = "NUL"]
  BY <1>2 DEF kbd_irq
<1>4. stdin[stdinIndex] = "NUL"
  BY <1>1 DEF KInv, NothingBehind, Cells
<1>5. n <= stdinIndex
  BY <1>1, <1>3, <1>4, StdinAssumption DEF IsStrlen, Cells
<1>6. n + 1 \in Cells /\ stdinIndex + 1 \in Cells
  BY <1>1, <1>5, StdinAssumption DEF Cells
<1>. QED  BY <1>1, <1>3, <1>5, <1>6

LEMMA KInvNext == KInv /\ [Next]_vars => KInv'
<1> SUFFICES ASSUME KInv, [Next]_vars PROVE KInv'
  OBVIOUS
<1>a. /\ stdin \in [Cells -> Bytes] /\ lineptr \in [Cells -> Bytes]
      /\ stdinIndex \in Cells /\ readIndex \in 0 .. stdinIndex
      /\ ascii \in Bytes /\ pos \in Int /\ shiftPressed \in BOOLEAN
      /\ seen \in Seq(Bytes) /\ Len(seen) \in Nat /\ MAX_STDIN_LENGTH \in Nat
  BY StdinAssumption, LenProperties DEF KInv, KbdTypeOK
<1>b. ASSUME NEW i \in Int, NEW c \in Bytes, Put(i, c)
      PROVE  lineptr' \in [Cells -> Bytes]
  BY <1>a, <1>b DEF Put
<1>c. "NUL" \in Bytes /\ " " \in Bytes
  BY DEF Bytes, Chars
<1>d. /\ Append(seen, ascii) \in Seq(Bytes)
      /\ Len(Append(seen, ascii)) = Len(seen) + 1
  BY <1>a, AppendProperties
<1>1. CASE UNCHANGED vars
  BY <1>1
  DEF vars, driver, reader, KInv, KbdTypeOK, NothingBehind, Counted, Reach
<1>2. ASSUME NEW key \in Keys, kbd_irq(key) PROVE KInv'
  <2>1. PICK n \in Cells, c \in Bytes :
          /\ n <= stdinIndex
          /\ n + 1 \in Cells /\ stdinIndex + 1 \in Cells
          /\ stdin' = [stdin EXCEPT ![n] = c, ![n + 1] = "NUL"]
          /\ stdinIndex' = stdinIndex + 1
    BY <1>2, KeyTyped
  <2>2. UNCHANGED <<shiftPressed, readIndex, at, ascii, lineptr, pos, seen>>
    BY <1>2 DEF kbd_irq, reader
  <2>3. stdin' \in [Cells -> Bytes]
    BY <1>a, <1>c, <2>1
  <2>4. KbdTypeOK'
    BY <1>a, <2>1, <2>2, <2>3 DEF KInv, KbdTypeOK, Cells
  <2>5. NothingBehind'
    BY <1>a, <2>1 DEF KInv, NothingBehind, Cells
  <2>6. Counted' /\ Reach'
    BY <1>a, <2>1, <2>2 DEF KInv, Counted, Reach, Cells
  <2>. QED  BY <2>4, <2>5, <2>6 DEF KInv
<1>3. CASE toggleShift
  BY <1>3
  DEF toggleShift, reader, KInv, KbdTypeOK, NothingBehind, Counted, Reach
<1>4. CASE Poll \/ Take \/ Advance
  <2>1. UNCHANGED <<stdin, stdinIndex, shiftPressed, lineptr, pos, seen>>
    BY <1>4 DEF Poll, Take, Advance, driver
  <2>2. stdin[readIndex] \in Bytes
    BY <1>a DEF Cells
  <2>3. KbdTypeOK'
    BY <1>4, <1>a, <2>1, <2>2
    DEF Poll, Take, Advance, KInv, KbdTypeOK, Counted, Cells
  <2>4. NothingBehind' /\ Counted' /\ Reach'
    BY <1>4, <1>a, <2>1
    DEF Poll, Take, Advance, KInv, NothingBehind, Counted, Reach, Cells
  <2>. QED  BY <2>3, <2>4 DEF KInv
<1>5. CASE Erase \/ Store
  <2>1. /\ at = "edit" /\ at' = "poll" /\ seen' = Append(seen, ascii)
        /\ UNCHANGED <<stdin, stdinIndex, shiftPressed, readIndex, ascii>>
        /\ pos' = pos - 1 \/ pos' = pos + 1
    BY <1>5 DEF Erase, Store, driver
  <2>2. lineptr' \in [Cells -> Bytes]
    <3>1. CASE Erase
      <4>1. Put(pos - 1, " ")
        BY <3>1 DEF Erase
      <4>2. pos - 1 \in Int
        BY <1>a
      <4>. QED  BY <4>1, <4>2, <1>b, <1>c
    <3>2. CASE Store
      <4>1. Put(pos, ascii)
        BY <3>2 DEF Store
      <4>. QED  BY <4>1, <1>a, <1>b
    <3>. QED  BY <1>5, <3>1, <3>2
  <2>3. Len(seen) < readIndex /\ pos <= Len(seen) /\ -Len(seen) <= pos
    BY <2>1 DEF KInv, Reach
  <2>4. Reach' /\ Counted' /\ NothingBehind'
    BY <1>a, <1>d, <2>1, <2>3 DEF KInv, Reach, Counted, NothingBehind
  <2>5. /\ pos' \in -MAX_STDIN_LENGTH .. MAX_STDIN_LENGTH - 1
        /\ Len(seen) + 1 < MAX_STDIN_LENGTH
    BY <1>a, <2>1, <2>3 DEF Cells
  <2>6. KbdTypeOK'
    BY <1>a, <1>d, <2>1, <2>2, <2>5 DEF KbdTypeOK
  <2>. QED  BY <2>4, <2>6 DEF KInv
<1>6. CASE EndLine
  <2>1. lineptr' \in [Cells -> Bytes]
    BY <1>6, <1>a, <1>b, <1>c DEF EndLine
  <2>. QED
    BY <1>6, <1>a, <2>1
    DEF EndLine, driver, KInv, KbdTypeOK, NothingBehind, Counted, Reach
<1>7. CASE getline
  <2>1. /\ lineptr' \in [Cells -> Bytes] /\ pos' = 0 /\ at' = "poll"
        /\ UNCHANGED <<stdin, stdinIndex, shiftPressed, readIndex, ascii>>
    BY <1>7, <1>c DEF getline, driver
  <2>2. seen' \in Seq(Bytes) /\ Len(seen') = 0
    BY <1>7, EmptySeq DEF getline
  <2>. QED
    BY <1>a, <2>1, <2>2, StdinAssumption
    DEF KInv, KbdTypeOK, NothingBehind, Counted, Reach, Cells
<1>. QED
  BY <1>1, <1>2, <1>3, <1>4, <1>5, <1>6, <1>7 DEF Next, Read

LEMMA KInvariance == Spec => []KInv
<1>. QED  BY KInvInit, KInvNext, PTL DEF Spec

\* The variables of Keyboard keep their types: no reader takes a key that was
\* not typed, and getline stays within its buffer, but for backspaces.
THEOREM KbdTypeCorrect == Spec => []KbdTypeOK
<1>1. KInv => KbdTypeOK
  BY DEF KInv
<1>. QED  BY <1>1, KInvariance, PTL

-----------------------------------------------------------------------------
(* The driver is a queue.                                                  *)

\* The first key that a reader has not taken.
First == IF at = "advance" THEN readIndex + 1 ELSE readIndex

\* Waiting is a sequence, and its items are where they should be.
Queued ==
    /\ First \in 0 .. stdinIndex /\ stdinIndex \in Cells
    /\ Waiting \in Seq(Bytes) /\ Len(Waiting) = stdinIndex - First
    /\ \A i \in 1 .. Len(Waiting) : Waiting[i] = stdin[First + i - 1]

LEMMA WaitingIsSeq == KInv => Queued
<1> SUFFICES ASSUME KInv PROVE Queued
  OBVIOUS
<1>1. /\ stdinIndex \in Cells /\ readIndex \in 0 .. stdinIndex
      /\ stdin \in [Cells -> Bytes]
  BY DEF KInv, KbdTypeOK
<1>2. First \in 0 .. stdinIndex
  BY <1>1 DEF First, KInv, Counted, Cells
<1>3. Waiting = [i \in 1 .. stdinIndex - First |-> stdin[First + i - 1]]
  BY DEF Waiting, First
<1>4. stdinIndex - First \in Nat
  BY <1>1, <1>2 DEF Cells
<1>5. \A i \in 1 .. stdinIndex - First : First + i - 1 \in Cells
  BY <1>1, <1>2, StdinAssumption DEF Cells
<1>6. \A i \in 1 .. stdinIndex - First : stdin[First + i - 1] \in Bytes
  BY <1>1, <1>5
<1>7. Waiting \in [1 .. stdinIndex - First -> Bytes]
  BY <1>3, <1>6
<1>8. Waiting \in Seq(Bytes) /\ Len(Waiting) = stdinIndex - First
  BY <1>4, <1>7
<1>. QED  BY <1>1, <1>2, <1>3, <1>8 DEF Queued

LEMMA WaitingStaysSeq == KInv' => Queued'
<1>. QED  BY WaitingIsSeq, PTL

\* A key that leaves the string and the index in step is put at the end.
LEMMA KeyIsQueued ==
    ASSUME KInv, KInv', NEW key \in Keys, kbd_irq(key), InStep'
    PROVE  InStep /\ \E c \in Chars : Waiting' = Append(Waiting, c)
<1>1. PICK n \in Cells, c \in Bytes :
        /\ IsStrlen(stdin, n) /\ n <= stdinIndex
        /\ n + 1 \in Cells /\ stdinIndex + 1 \in Cells
        /\ stdin' = [stdin EXCEPT ![n] = c, ![n + 1] = "NUL"]
        /\ stdinIndex' = stdinIndex + 1
  BY KeyTyped
<1>2. stdin \in [Cells -> Bytes] /\ stdinIndex \in Nat /\ n \in Nat
  BY DEF KInv, KbdTypeOK, Cells
<1>3. \A i \in Cells : i < stdinIndex + 1 => stdin'[i] # "NUL"
  BY <1>1 DEF InStep, IsStrlen
<1>4. n = stdinIndex
  <2>1. stdin'[n + 1] = "NUL"
    BY <1>1, <1>2
  <2>. QED  BY <1>1, <1>2, <1>3, <2>1
<1>5. InStep
  BY <1>1, <1>4 DEF InStep
<1>6. stdin'[n] = c
  BY <1>1, <1>2
<1>7. c \in Chars
  BY <1>1, <1>2, <1>3, <1>4, <1>6 DEF Bytes
<1>8. First' = First
  BY DEF First, kbd_irq, reader
<1>9. /\ Waiting' \in Seq(Bytes) /\ Len(Waiting') = stdinIndex + 1 - First
      /\ \A i \in 1 .. Len(Waiting') : Waiting'[i] = stdin'[First + i - 1]
  <2>1. Queued'
    BY WaitingStaysSeq
  <2>2. stdinIndex' = stdinIndex + 1
    BY <1>1
  <2>3. /\ Waiting' \in Seq(Bytes) /\ Len(Waiting') = stdinIndex' - First'
        /\ \A i \in 1 .. Len(Waiting') : Waiting'[i] = stdin'[First' + i - 1]
    BY <2>1 DEF Queued
  <2>4. Len(Waiting') = stdinIndex + 1 - First
    <3>1. First \in Nat
      BY <1>2, WaitingIsSeq DEF Queued
    <3>. QED  BY <1>2, <1>8, <2>2, <2>3, <3>1
  <2>5. \A i \in 1 .. Len(Waiting') : Waiting'[i] = stdin'[First + i - 1]
    BY <1>8, <2>3
  <2>. QED  BY <2>3, <2>4, <2>5
<1>10. /\ Append(Waiting, c) \in Seq(Bytes)
       /\ Len(Append(Waiting, c)) = Len(Waiting) + 1
       /\ \A i \in 1 .. Len(Waiting) : Append(Waiting, c)[i] = Waiting[i]
       /\ Append(Waiting, c)[Len(Waiting) + 1] = c
  BY WaitingIsSeq, AppendProperties DEF Queued
<1>11. Len(Waiting') = Len(Append(Waiting, c)) /\ First \in Nat
         /\ Len(Waiting) = stdinIndex - First /\ First <= stdinIndex
  BY <1>2, <1>9, <1>10, WaitingIsSeq DEF Queued, Cells
<1>12. ASSUME NEW i \in 1 .. Len(Waiting')
       PROVE  Waiting'[i] = Append(Waiting, c)[i]
  <2>1. CASE i = Len(Waiting) + 1
    <3>1. First + i - 1 = n
      BY <1>2, <1>4, <1>11, <2>1
    <3>. QED  BY <1>6, <1>9, <1>10, <1>12, <2>1, <3>1
  <2>2. CASE i \in 1 .. Len(Waiting)
    <3>1. First + i - 1 \in Cells /\ First + i - 1 < n
      BY <1>1, <1>2, <1>4, <1>11, <2>2, StdinAssumption DEF Cells
    <3>2. \A j \in Cells : j < n => stdin'[j] = stdin[j]
      BY <1>1, <1>2 DEF Cells
    <3>4. stdin'[First + i - 1] = stdin[First + i - 1]
      BY <3>1, <3>2
    <3>3. Waiting[i] = stdin[First + i - 1]
      BY <2>2, WaitingIsSeq DEF Queued
    <3>. QED  BY <1>9, <1>10, <1>12, <2>2, <3>3, <3>4
  <2>. QED  BY <1>2, <1>9, <1>11, <1>12, <2>1, <2>2
<1>13. Waiting' = Append(Waiting, c)
  BY <1>9, <1>10, <1>11, <1>12, SeqEqual
<1>. QED  BY <1>5, <1>7, <1>13

\* Take takes the head.
LEMMA TakeIsHead ==
    ASSUME KInv, KInv', Take
    PROVE  /\ Waiting # <<>>
           /\ ascii' = Head(Waiting) /\ Waiting' = Tail(Waiting)
<1>1. /\ at = "take" /\ at' = "advance" /\ ascii' = stdin[readIndex]
      /\ UNCHANGED <<stdin, stdinIndex, readIndex>>
  BY DEF Take, driver
<1>2. readIndex < stdinIndex /\ First = readIndex /\ First' = readIndex + 1
        /\ stdinIndex \in Nat /\ readIndex \in Nat
  BY <1>1 DEF KInv, KbdTypeOK, Counted, First, Cells
<1>3. /\ Waiting \in Seq(Bytes) /\ Len(Waiting) = stdinIndex - readIndex
      /\ \A i \in 1 .. Len(Waiting) : Waiting[i] = stdin[readIndex + i - 1]
  BY <1>2, WaitingIsSeq DEF Queued
<1>4. /\ Waiting' \in Seq(Bytes) /\ Len(Waiting') = stdinIndex - (readIndex + 1)
      /\ \A i \in 1 .. Len(Waiting') : Waiting'[i] = stdin[readIndex + 1 + i - 1]
  BY <1>1, <1>2, WaitingStaysSeq DEF Queued
<1>5. Waiting # <<>>
  BY <1>2, <1>3
<1>6. Head(Waiting) = stdin[readIndex]
  <2>1. Head(Waiting) = Waiting[1] /\ 1 \in 1 .. Len(Waiting)
    BY <1>2, <1>3
  <2>. QED  BY <1>2, <1>3, <2>1
<1>7. Waiting' = Tail(Waiting)
  <2>1. /\ Tail(Waiting) \in Seq(Bytes) /\ Len(Tail(Waiting)) = Len(Waiting) - 1
        /\ \A i \in 1 .. Len(Tail(Waiting)) : Tail(Waiting)[i] = Waiting[i + 1]
    BY <1>3, <1>5, HeadTailProperties
  <2>2. Len(Waiting') = Len(Tail(Waiting))
    BY <1>2, <1>3, <1>4, <2>1
  <2>3. ASSUME NEW i \in 1 .. Len(Waiting')
        PROVE  Waiting'[i] = Tail(Waiting)[i]
    <3>1. i + 1 \in 1 .. Len(Waiting) /\ readIndex + (i + 1) - 1 = readIndex + 1 + i - 1
      BY <1>2, <1>3, <1>4, <2>3
    <3>. QED  BY <1>3, <1>4, <2>1, <2>2, <2>3, <3>1
  <2>. QED  BY <1>4, <2>1, <2>2, <2>3, SeqEqual
<1>. QED  BY <1>1, <1>5, <1>6, <1>7

LEMMA StepIsQueueStep ==
    KInv /\ KInv' /\ [Next]_vars => [Q!Next]_(Q!KeyVars)
<1> SUFFICES ASSUME KInv, KInv', [Next]_vars
             PROVE  [Q!Next]_(Q!KeyVars)
  OBVIOUS
<1>1. ASSUME NEW key \in Keys, kbd_irq(key) PROVE [Q!Next]_(Q!KeyVars)
  <2>1. CASE InStep'
    BY <1>1, <2>1, KeyIsQueued DEF Q!Next, Q!Type, kbd_irq, reader
  <2>2. CASE ~InStep'
    BY <2>2 DEF Q!Next
  <2>. QED  BY <2>1, <2>2
<1>2. CASE Take
  <2>1. InStep' = InStep
    BY <1>2 DEF Take, driver, InStep, IsStrlen
  <2>2. CASE InStep
    BY <1>2, <2>1, <2>2, TakeIsHead DEF Q!Next, Q!Take
  <2>3. CASE ~InStep
    BY <2>1, <2>3 DEF Q!Next
  <2>. QED  BY <2>2, <2>3
<1>3. CASE Advance
  <2>1. UNCHANGED <<stdin, stdinIndex, ascii>> /\ at = "advance" /\ at' = "edit"
          /\ readIndex' = readIndex + 1
    BY <1>3 DEF Advance, driver
  <2>. QED
    BY <2>1 DEF Q!KeyVars, Waiting, InStep, IsStrlen
<1>4. CASE Poll \/ Erase \/ EndLine \/ Store \/ getline \/ toggleShift
             \/ UNCHANGED vars
  <2>1. UNCHANGED <<stdin, stdinIndex, readIndex, ascii>>
          /\ (at = "advance" <=> at' = "advance")
    BY <1>4
    DEF Poll, Erase, EndLine, Store, getline, toggleShift, vars, driver, reader
  <2>. QED
    BY <2>1 DEF Q!KeyVars, Waiting, InStep, IsStrlen
<1>. QED  BY <1>1, <1>2, <1>3, <1>4 DEF Next, Read

\* The interrupt handler with getchar is a queue of keys, whichever of its
\* steps the keys come between, until one of them makes a NUL.
THEOREM RefinesKeyQueue == Spec => ImplementsKeyQueue
<1>1. Init => Q!Init
  <2> SUFFICES ASSUME Init PROVE Q!Init
    OBVIOUS
  <2>1. stdinIndex = 0 /\ readIndex = 0 /\ at = "poll" /\ ascii = "NUL"
          /\ stdin = [i \in Cells |-> "NUL"] /\ 0 \in Cells
    BY StdinAssumption DEF Init, Cells
  <2>2. Waiting = <<>>
    <3>1. Len(Waiting) = 0 /\ Waiting \in Seq(Bytes)
      BY <2>1, KInvInit, WaitingIsSeq DEF Queued, First
    <3>. QED  BY <3>1, EmptySeq
  <2>3. InStep
    BY <2>1 DEF InStep, IsStrlen, Cells
  <2>. QED  BY <2>1, <2>2, <2>3 DEF Q!Init
<1>. QED
  BY <1>1, StepIsQueueStep, KInvariance, PTL DEF Spec, ImplementsKeyQueue, Q!Spec

-----------------------------------------------------------------------------
(* The line as edited.                                                     *)

LEMMA LeastNatural ==
    ASSUME NEW S \in SUBSET Nat, S # {}
    PROVE  \E n \in S : \A m \in S : n <= m
<1> DEFINE R == {ss \in Nat \X Nat : ss[1] < ss[2]}
<1>1. IsWellFoundedOn(R, Nat)
  BY NatLessThanWellFounded DEF OpToRel
<1>2. \E n \in S : \A m \in S : ~(<<m, n>> \in R)
  <2> HIDE DEF R
  <2>. QED  BY <1>1, WFMin
<1>3. PICK n \in S : \A m \in S : ~(<<m, n>> \in R)
  BY <1>2
<1>4. \A m \in S : ~(m < n)
  BY <1>3
<1>. QED  BY <1>4

\* Induction: a set of numbers that has 0 and with each number the next one
\* has them all.
LEMMA AllNaturals ==
    ASSUME NEW S \in SUBSET Nat, 0 \in S, \A n \in S : n + 1 \in S
    PROVE  S = Nat
<1> SUFFICES ASSUME S # Nat PROVE FALSE
  OBVIOUS
<1> DEFINE T == Nat \ S
<1>1. PICK n \in T : \A m \in T : n <= m
  BY LeastNatural
<1>2. n # 0 /\ n - 1 \in Nat /\ n - 1 \notin T
  BY <1>1
<1>. QED  BY <1>1, <1>2

\* f[i] is the line that the first i characters of s make.
IsLine(s, f) == f = [i \in 0 .. Len(s) |-> IF i = 0 THEN <<>> ELSE Edit(f[i - 1], s[i])]

LEMMA FrontOfLine ==
    ASSUME NEW line \in Seq(Bytes), line # <<>>
    PROVE  /\ Front(line) \in Seq(Bytes) /\ Len(Front(line)) = Len(line) - 1
           /\ \A i \in 1 .. Len(line) - 1 : Front(line)[i] = line[i]
<1>1. Front(line) = SubSeq(line, 1, Len(line) - 1) /\ Len(line) \in Nat \ {0}
  BY EmptySeq, LenProperties DEF Front
<1>2. \A i \in 1 .. Len(line) - 1 : line[i] \in Bytes
  BY <1>1, ElementOfSeq
<1>3. /\ SubSeq(line, 1, Len(line) - 1) \in Seq(Bytes)
      /\ Len(SubSeq(line, 1, Len(line) - 1)) = Len(line) - 1
      /\ \A i \in 1 .. Len(line) - 1 : SubSeq(line, 1, Len(line) - 1)[i] = line[1 + i - 1]
  <2> DEFINE n == Len(line) - 1
  <2>1. n \in Nat /\ \A i \in 1 .. n : line[i] \in Bytes
    BY <1>1, <1>2
  <2> HIDE DEF n
  <2>2. /\ SubSeq(line, 1, n) \in Seq(Bytes) /\ Len(SubSeq(line, 1, n)) = IF 1 <= n THEN n - 1 + 1 ELSE 0
        /\ \A i \in 1 .. n - 1 + 1 : SubSeq(line, 1, n)[i] = line[1 + i - 1]
    BY <2>1, SubSeqProperties
  <2>3. /\ SubSeq(line, 1, n) \in Seq(Bytes) /\ Len(SubSeq(line, 1, n)) = n
        /\ \A i \in 1 .. n : SubSeq(line, 1, n)[i] = line[1 + i - 1]
    BY <2>1, <2>2
  <2>. QED  BY <2>3 DEF n
<1>. QED  BY <1>1, <1>3

LEMMA LineAt ==
    ASSUME NEW s \in Seq(Bytes), NEW f, IsLine(s, f)
    PROVE  /\ Len(s) \in Nat /\ f[0] = <<>>
           /\ \A i \in 1 .. Len(s) : f[i] = Edit(f[i - 1], s[i])
<1> DEFINE g == [i \in 0 .. Len(s) |-> IF i = 0 THEN <<>> ELSE Edit(f[i - 1], s[i])]
<1>1. Len(s) \in Nat
  BY LenProperties
<1>2. g[0] = <<>> /\ \A i \in 1 .. Len(s) : g[i] = Edit(f[i - 1], s[i])
  BY <1>1
<1>3. f = g
  BY DEF IsLine
<1> HIDE DEF g
<1>. QED  BY <1>1, <1>2, <1>3

\* Editing makes a line of a line.
LEMMA EditLine ==
    ASSUME NEW line \in Seq(Bytes), NEW c \in Bytes
    PROVE  Edit(line, c) \in Seq(Bytes)
<1>. QED  BY FrontOfLine, AppendProperties DEF Edit

\* There is one such function of a sequence.
LEMMA LineExists ==
    ASSUME NEW s \in Seq(Bytes)
    PROVE  \E f : IsLine(s, f)
<1> DEFINE G(n) == \E f : f = [i \in 0 .. n |-> IF i = 0 THEN <<>> ELSE Edit(f[i - 1], s[i])]
           S == {n \in Nat : G(n)}
<1>1. G(0)
  <2>1. [i \in 0 .. 0 |-> <<>>] =
          [i \in 0 .. 0 |-> IF i = 0 THEN <<>> ELSE Edit([j \in 0 .. 0 |-> <<>>][i - 1], s[i])]
    OBVIOUS
  <2>. QED  BY <2>1
<1>2. ASSUME NEW n \in Nat, G(n) PROVE G(n + 1)
  <2>1. PICK f : f = [i \in 0 .. n |-> IF i = 0 THEN <<>> ELSE Edit(f[i - 1], s[i])]
    BY <1>2
  <2> DEFINE g == [i \in 0 .. n + 1 |-> IF i <= n THEN f[i] ELSE Edit(f[n], s[n + 1])]
  <2>2. ASSUME NEW i \in 0 .. n + 1
        PROVE  g[i] = IF i = 0 THEN <<>> ELSE Edit(g[i - 1], s[i])
    BY <2>1
  <2>3. g = [i \in 0 .. n + 1 |-> IF i = 0 THEN <<>> ELSE Edit(g[i - 1], s[i])]
    <3> HIDE DEF G, S
    <3>. QED  BY <2>2
  <2> HIDE DEF g
  <2>. QED  BY <2>3
<1>3. S = Nat
  <2>1. 0 \in S /\ S \in SUBSET Nat /\ \A n \in S : n + 1 \in S
    <3> HIDE DEF G
    <3>. QED  BY <1>1, <1>2
  <2> HIDE DEF S
  <2>. QED  BY <2>1, AllNaturals
<1>4. Len(s) \in Nat
  BY LenProperties
<1>5. G(Len(s))
  <2> HIDE DEF G
  <2>. QED  BY <1>3, <1>4
<1>. QED  BY <1>5 DEF IsLine

\* The lines that s begins with are lines of characters, and two functions that
\* are such lines agree as far as both reach and their sequences do.
LEMMA LineUnique ==
    ASSUME NEW s \in Seq(Bytes), NEW t \in Seq(Bytes), NEW f, NEW g,
           IsLine(s, f), IsLine(t, g), NEW k \in Nat, k <= Len(s), k <= Len(t),
           \A i \in 1 .. k : s[i] = t[i]
    PROVE  f[k] = g[k] /\ f[k] \in Seq(Bytes)
<1>1. Len(s) \in Nat /\ Len(t) \in Nat
  BY LenProperties
<1> DEFINE S == {n \in Nat : n <= k => f[n] = g[n] /\ f[n] \in Seq(Bytes)}
<1>2. 0 \in S
  <2>1. f[0] = <<>> /\ g[0] = <<>>
    BY LineAt
  <2>. QED  BY <2>1, EmptySeq
<1>3. ASSUME NEW n \in S PROVE n + 1 \in S
  <2> SUFFICES ASSUME n + 1 <= k
               PROVE  f[n + 1] = g[n + 1] /\ f[n + 1] \in Seq(Bytes)
    BY <1>3
  <2>1. f[n + 1] = Edit(f[n], s[n + 1]) /\ g[n + 1] = Edit(g[n], t[n + 1])
    <3>1. n + 1 \in 1 .. Len(s) /\ n + 1 \in 1 .. Len(t) /\ (n + 1) - 1 = n
      BY <1>1
    <3>. QED  BY <3>1, LineAt
  <2>2. f[n] = g[n] /\ f[n] \in Seq(Bytes) /\ s[n + 1] = t[n + 1]
    OBVIOUS
  <2>3. s[n + 1] \in Bytes
    BY <1>1, ElementOfSeq
  <2>. QED  BY <2>1, <2>2, <2>3, EditLine
<1>4. S = Nat
  <2>1. S \in SUBSET Nat
    OBVIOUS
  <2> HIDE DEF S
  <2>. QED  BY <1>2, <1>3, <2>1, AllNaturals
<1>. QED  BY <1>4

\* What a line is after one character more.
LEMMA EditedGrows ==
    /\ Edited(<<>>) = <<>>
    /\ \A s \in Seq(Bytes), c \in Bytes :
         /\ Edited(s) \in Seq(Bytes)
         /\ Edited(Append(s, c)) = Edit(Edited(s), c)
<1> DEFINE Lines(s) == CHOOSE f : IsLine(s, f)
<1>1. ASSUME NEW s \in Seq(Bytes)
      PROVE  IsLine(s, Lines(s)) /\ Edited(s) = Lines(s)[Len(s)]
  BY LineExists DEF Edited, IsLine
<1> HIDE DEF Lines
<1>2. Edited(<<>>) = <<>>
  <2>1. <<>> \in Seq(Bytes) /\ Len(<<>>) = 0
    BY EmptySeq
  <2>2. Lines(<<>>)[0] = <<>>
    BY <1>1, <2>1, LineAt
  <2>. QED  BY <1>1, <2>1, <2>2
<1>3. ASSUME NEW s \in Seq(Bytes), NEW c \in Bytes
      PROVE  /\ Edited(s) \in Seq(Bytes)
             /\ Edited(Append(s, c)) = Edit(Edited(s), c)
  <2> DEFINE t == Append(s, c)
  <2>1. /\ t \in Seq(Bytes) /\ Len(t) = Len(s) + 1 /\ Len(s) \in Nat
        /\ \A i \in 1 .. Len(s) : s[i] = t[i]
        /\ t[Len(s) + 1] = c
    BY AppendProperties, LenProperties
  <2> HIDE DEF t
  <2>2. IsLine(s, Lines(s)) /\ IsLine(t, Lines(t))
    BY <1>1, <2>1
  <2>3. Lines(s)[Len(s)] = Lines(t)[Len(s)] /\ Lines(s)[Len(s)] \in Seq(Bytes)
    BY <2>1, <2>2, LineUnique
  <2>4. Lines(t)[Len(t)] = Edit(Lines(t)[Len(s)], c)
    <3>1. Len(t) \in 1 .. Len(t) /\ Len(t) - 1 = Len(s) /\ t[Len(t)] = c
      BY <2>1
    <3>. QED  BY <2>1, <2>2, <3>1, LineAt
  <2>5. Edited(s) = Lines(s)[Len(s)] /\ Edited(t) = Lines(t)[Len(t)]
    BY <1>1, <2>1
  <2>. QED  BY <2>3, <2>4, <2>5 DEF t
<1>. QED  BY <1>2, <1>3

\* What an ordinary line that goes on was before.
LEMMA OrdinaryBefore ==
    ASSUME NEW s \in Seq(Bytes), NEW c \in Bytes, Ordinary(Append(s, c))
    PROVE  Ordinary(s) /\ c # "NUL" /\ (c = "BS" => Edited(s) # <<>>)
<1> DEFINE t == Append(s, c)
<1>1. /\ t \in Seq(Bytes) /\ Len(t) = Len(s) + 1 /\ Len(s) \in Nat
      /\ \A i \in 1 .. Len(s) : s[i] = t[i]
      /\ t[Len(s) + 1] = c
  BY AppendProperties, LenProperties
<1>2. ASSUME NEW n \in 0 .. Len(s)
      PROVE  SubSeq(t, 1, n) = SubSeq(s, 1, n)
  <2> HIDE DEF t
  <2>1. /\ SubSeq(t, 1, n) \in Seq(Bytes) /\ Len(SubSeq(t, 1, n)) = n
        /\ \A i \in 1 .. n : SubSeq(t, 1, n)[i] = t[i]
    BY <1>1, SubSeqProperties
  <2>2. /\ SubSeq(s, 1, n) \in Seq(Bytes) /\ Len(SubSeq(s, 1, n)) = n
        /\ \A i \in 1 .. n : SubSeq(s, 1, n)[i] = s[i]
    BY <1>1, SubSeqProperties
  <2>. QED  BY <1>1, <2>1, <2>2, SeqEqual
<1>3. SubSeq(s, 1, Len(s)) = s
  <2>1. /\ SubSeq(s, 1, Len(s)) \in Seq(Bytes) /\ Len(SubSeq(s, 1, Len(s))) = Len(s)
        /\ \A i \in 1 .. Len(s) : SubSeq(s, 1, Len(s))[i] = s[i]
    BY <1>1, SubSeqProperties
  <2>. QED  BY <2>1, SeqEqual
<1>4. Ordinary(t)
  OBVIOUS
<1> HIDE DEF t
<1>5. ASSUME NEW i \in 1 .. Len(s), s[i] = "BS" PROVE Edited(SubSeq(s, 1, i - 1)) # <<>>
  <2>1. t[i] = "BS" /\ i \in 1 .. Len(t) /\ i - 1 \in 0 .. Len(s)
    BY <1>1, <1>5
  <2>. QED  BY <1>2, <1>4, <2>1 DEF Ordinary
<1>6. Ordinary(s)
  BY <1>1, <1>4, <1>5 DEF Ordinary
<1>7. ASSUME c = "BS" PROVE Edited(s) # <<>>
  <2>1. Len(s) + 1 \in 1 .. Len(t) /\ t[Len(s) + 1] = "BS" /\ (Len(s) + 1) - 1 = Len(s)
    BY <1>1, <1>7
  <2>2. Edited(SubSeq(t, 1, Len(s))) # <<>>
    BY <1>4, <2>1 DEF Ordinary
  <2>3. SubSeq(t, 1, Len(s)) = s
    BY <1>1, <1>2, <1>3
  <2>. QED  BY <2>2, <2>3
<1>8. c # "NUL"
  BY <1>1, <1>4 DEF Ordinary
<1>. QED  BY <1>6, <1>7, <1>8

\* The caller's buffer has the line so far, and after getline its end.
LineKept ==
    Ordinary(seen) =>
      /\ pos = Len(Edited(seen))
      /\ \A i \in 1 .. pos : lineptr[i - 1] = Edited(seen)[i] /\ lineptr[i - 1] # "NUL"
      /\ at = "returned" => lineptr[pos] = "NUL"

LEMMA LineKeptNext == KInv /\ KInv' /\ LineKept /\ [Next]_vars => LineKept'
<1> SUFFICES ASSUME KInv, KInv', LineKept, [Next]_vars PROVE LineKept'
  OBVIOUS
<1>a. /\ lineptr \in [Cells -> Bytes] /\ ascii \in Bytes
      /\ seen \in Seq(Bytes) /\ Len(seen) \in Nat /\ Len(seen) < MAX_STDIN_LENGTH
      /\ pos \in Int /\ pos <= Len(seen) /\ MAX_STDIN_LENGTH \in Nat
  BY StdinAssumption, LenProperties DEF KInv, KbdTypeOK, Reach
<1>b. Edited(seen) \in Seq(Bytes) /\ Len(Edited(seen)) \in Nat
  BY <1>a, EditedGrows, LenProperties
<1>1. CASE UNCHANGED <<lineptr, pos, seen>> /\ (at' = "returned" => at = "returned")
  BY <1>1 DEF LineKept
<1>2. CASE Erase
  <2> SUFFICES ASSUME Ordinary(seen')
               PROVE  /\ pos' = Len(Edited(seen')) /\ at' # "returned"
                      /\ \A i \in 1 .. pos' : lineptr'[i - 1] = Edited(seen')[i]
                                              /\ lineptr'[i - 1] # "NUL"
    BY DEF LineKept
  <2>1. /\ seen' = Append(seen, ascii) /\ ascii = "BS" /\ pos' = pos - 1
        /\ at' = "poll"
    BY <1>2 DEF Erase
  <2>2. Ordinary(seen) /\ Edited(seen) # <<>>
    BY <1>a, <2>1, OrdinaryBefore
  <2>3. Edited(seen') = Front(Edited(seen))
    BY <1>a, <2>1, <2>2, EditedGrows DEF Edit
  <2>4. /\ pos' = Len(Edited(seen'))
        /\ \A i \in 1 .. pos' : Edited(seen')[i] = Edited(seen)[i]
    BY <1>b, <2>1, <2>2, <2>3, FrontOfLine DEF LineKept
  <2>a. \E c : Put(pos - 1, c)
    BY <1>2 DEF Erase
  <2>5. \A j \in Int : j # pos - 1 => lineptr'[j] = lineptr[j]
    BY <1>a, <2>a DEF Put, Cells
  <2>6. \A i \in 1 .. pos - 1 : i \in 1 .. pos /\ i - 1 # pos - 1 /\ i - 1 \in Int
    BY <1>a
  <2>. QED  BY <2>1, <2>2, <2>4, <2>5, <2>6 DEF LineKept
<1>3. CASE Store
  <2> SUFFICES ASSUME Ordinary(seen')
               PROVE  /\ pos' = Len(Edited(seen')) /\ at' # "returned"
                      /\ \A i \in 1 .. pos' : lineptr'[i - 1] = Edited(seen')[i]
                                              /\ lineptr'[i - 1] # "NUL"
    BY DEF LineKept
  <2>1. /\ seen' = Append(seen, ascii) /\ ascii # "BS" /\ pos' = pos + 1
        /\ at' = "poll" /\ Put(pos, ascii)
    BY <1>3 DEF Store
  <2>2. Ordinary(seen) /\ ascii # "NUL"
    BY <1>a, <2>1, OrdinaryBefore
  <2>3. Edited(seen') = Append(Edited(seen), ascii)
    BY <1>a, <2>1, <2>2, EditedGrows DEF Edit
  <2>4. /\ pos' = Len(Edited(seen')) /\ pos = Len(Edited(seen))
        /\ \A i \in 1 .. pos : Edited(seen')[i] = Edited(seen)[i]
        /\ Edited(seen')[pos + 1] = ascii
    BY <1>a, <1>b, <2>1, <2>2, <2>3, AppendProperties DEF LineKept
  <2>5. pos \in Cells
    BY <1>a, <1>b, <2>4 DEF Cells
  <2>6. lineptr'[pos] = ascii /\ \A i \in 1 .. pos : lineptr'[i - 1] = lineptr[i - 1]
    BY <1>a, <2>1, <2>5 DEF Put, Cells
  <2>7. ASSUME NEW i \in 1 .. pos'
        PROVE  lineptr'[i - 1] = Edited(seen')[i] /\ lineptr'[i - 1] # "NUL"
    <3>1. CASE i \in 1 .. pos
      BY <2>2, <2>4, <2>6, <3>1 DEF LineKept
    <3>2. CASE i = pos + 1
      BY <1>a, <2>2, <2>4, <2>6, <3>2
    <3>. QED  BY <1>a, <2>1, <3>1, <3>2
  <2>. QED  BY <2>1, <2>4, <2>7
<1>4. CASE EndLine
  <2> SUFFICES ASSUME Ordinary(seen')
               PROVE  /\ pos' = Len(Edited(seen')) /\ lineptr'[pos'] = "NUL"
                      /\ \A i \in 1 .. pos' : lineptr'[i - 1] = Edited(seen')[i]
                                              /\ lineptr'[i - 1] # "NUL"
    BY DEF LineKept
  <2>1. UNCHANGED <<pos, seen>> /\ Put(pos, "NUL") /\ Ordinary(seen)
    BY <1>4 DEF EndLine
  <2>2. pos \in Cells
    BY <1>a, <1>b, <2>1 DEF LineKept, Cells
  <2>3. lineptr'[pos] = "NUL" /\ \A i \in 1 .. pos : lineptr'[i - 1] = lineptr[i - 1]
    BY <1>a, <2>1, <2>2 DEF Put, Cells
  <2>. QED  BY <2>1, <2>3 DEF LineKept
<1>5. CASE getline
  <2>1. pos' = 0 /\ seen' = <<>> /\ at' = "poll"
    BY <1>5 DEF getline
  <2>. QED  BY <2>1, EditedGrows, EmptySeq DEF LineKept
<1>6. ASSUME NEW key \in Keys, kbd_irq(key) PROVE LineKept'
  BY <1>1, <1>6 DEF kbd_irq, reader
<1>7. CASE toggleShift \/ Poll \/ Take \/ Advance \/ UNCHANGED vars
  BY <1>1, <1>7 DEF toggleShift, Poll, Take, Advance, reader, vars
<1>. QED
  BY <1>2, <1>3, <1>4, <1>5, <1>6, <1>7 DEF Next, Read

\* getline returns the line as edited, however the keys come between its steps,
\* unless a backspace came on an empty line or a key made a NUL.
THEOREM LineAsEditedInvariant == Spec => []LineAsEdited
<1>1. Init => LineKept
  <2> SUFFICES ASSUME Init PROVE LineKept
    OBVIOUS
  <2>1. seen = <<>> /\ pos = 0 /\ at = "poll"
    BY DEF Init
  <2>. QED  BY <2>1, EditedGrows, EmptySeq DEF LineKept
<1>2. KInv /\ LineKept => LineAsEdited
  <2> SUFFICES ASSUME KInv, LineKept, at = "returned", Ordinary(seen)
               PROVE  /\ IsStrlen(lineptr, Len(Edited(seen)))
                      /\ \A i \in 1 .. Len(Edited(seen)) : lineptr[i - 1] = Edited(seen)[i]
    BY DEF LineAsEdited
  <2>1. /\ pos = Len(Edited(seen)) /\ lineptr[pos] = "NUL" /\ pos \in Int
        /\ \A i \in 1 .. pos : lineptr[i - 1] = Edited(seen)[i] /\ lineptr[i - 1] # "NUL"
    BY DEF LineKept, KInv, KbdTypeOK
  <2>2. ASSUME NEW i \in Cells, i < pos PROVE lineptr[i] # "NUL"
    <3>1. i + 1 \in 1 .. pos /\ (i + 1) - 1 = i
      BY <2>1, <2>2 DEF Cells
    <3>. QED  BY <2>1, <3>1
  <2>. QED  BY <2>1, <2>2 DEF IsStrlen
<1>. QED  BY <1>1, <1>2, LineKeptNext, KInvariance, PTL DEF Spec
=============================================================================
