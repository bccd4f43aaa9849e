------------------------------ MODULE KeyQueue ------------------------------
(***************************************************************************)
(* What the keyboard promises a program that reads it: a queue.  Keys go   *)
(* in at one end, getchar takes them at the other, none is lost, repeated  *)
(* or overtaken.  The promise ends when a key makes a NUL.                 *)
(***************************************************************************)
EXTENDS Sequences

CONSTANT Chars      \* the characters keys make, but NUL

VARIABLES
    queue,  \* what was typed and not taken yet
    ascii,  \* the last character getchar took
    void    \* the promise has ended

KeyVars == <<queue, ascii, void>>

Init == queue = <<>> /\ ascii \in Chars \union {"NUL"} /\ void = FALSE

Type(c) ==
    /\ queue' = Append(queue, c)
    /\ UNCHANGED <<ascii, void>>

Take ==
    /\ queue # <<>>
    /\ ascii' = Head(queue)
    /\ queue' = Tail(queue)
    /\ UNCHANGED void

Next ==
    \/ ~void /\ (Take \/ \E c \in Chars : Type(c))
    \/ void'

Spec == Init /\ [][Next]_KeyVars
=============================================================================
