----------------------------- MODULE BlockDevice -----------------------------
(***************************************************************************)
(* What a caller of the disk driver (src/kernel/arch/x86/drivers/ata.c)    *)
(* relies on: true means that the sectors asked for have moved, in order;  *)
(* false, of a request that was started, that the drive failed or did not  *)
(* answer in time, or that another interrupt was taken for its answer.  An *)
(* excused request promises nothing.                                       *)
(***************************************************************************)
EXTENDS Integers, Sequences

CONSTANT Requests \* records with the fields unit, lba and n

VARIABLES request, moved, answer, trouble, excused

vars == <<request, moved, answer, trouble, excused>>

NoAnswer == "none"
Pending == "pending"

\* The sectors a request is for.
Sectors(r) == [i \in 1 .. r.n |-> <<r.unit, r.lba + i - 1>>]

Init ==
    /\ request \in Requests
    /\ moved = <<>>
    /\ answer = NoAnswer
    /\ trouble = FALSE
    /\ excused \in BOOLEAN

Ask ==
    /\ answer # Pending
    /\ request' \in Requests
    /\ answer' = Pending
    /\ moved' = <<>>
    /\ trouble' = FALSE
    /\ excused' \in BOOLEAN

\* A request that no drive can serve is turned down at once.
Refuse ==
    /\ answer # Pending
    /\ request' \in Requests
    /\ answer' = "refused"
    /\ moved' = <<>>
    /\ trouble' = FALSE
    /\ excused' \in BOOLEAN

\* The drive errs, a wait for it runs out, or an interrupt comes that is not
\* its; that may cost the promise too.
Trouble ==
    /\ answer = Pending
    /\ trouble' = TRUE
    /\ excused => excused'
    /\ excused' \in BOOLEAN
    /\ UNCHANGED <<request, moved, answer>>

Succeed ==
    /\ answer = Pending
    /\ answer' = "true"
    /\ excused \/ moved' = Sectors(request)
    /\ UNCHANGED <<request, trouble, excused>>

Fail ==
    /\ answer = Pending
    /\ answer' = "false"
    /\ trouble' \/ excused
    /\ trouble => trouble'
    /\ moved' = <<>>
    /\ UNCHANGED <<request, excused>>

Next == Ask \/ Refuse \/ Trouble \/ Succeed \/ Fail

Spec == Init /\ [][Next]_vars
=============================================================================
