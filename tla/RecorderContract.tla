-------------------------- MODULE RecorderContract --------------------------
(***************************************************************************)
(* What AsyncRecorderProxy promises to the user interface: write_row never *)
(* waits, the rows it accepts reach the wrapped recorder one by one and in *)
(* their order, a row is dropped only when the queue is full, and "close() *)
(* drains the queue before closing the wrapped recorder".                  *)
(***************************************************************************)
EXTENDS Naturals

CONSTANT Capacity   \* max_queue

VARIABLES
    open,           \* there is a proxy
    accepted,       \* rows taken by write_row so far
    handed,         \* rows given to the wrapped recorder so far
    dropped         \* rows not taken

vars == <<open, accepted, handed, dropped>>

Init == open = FALSE /\ accepted = 0 /\ handed = 0 /\ dropped = 0

Create == ~open /\ open' = TRUE /\ UNCHANGED <<accepted, handed, dropped>>

Accept == open /\ accepted' = accepted + 1 /\ UNCHANGED <<open, handed, dropped>>

Drop == /\ open /\ accepted - handed >= Capacity
        /\ dropped' = dropped + 1
        /\ UNCHANGED <<open, accepted, handed>>

Hand == /\ open /\ handed < accepted
        /\ handed' = handed + 1
        /\ UNCHANGED <<open, accepted, dropped>>

Close == /\ open /\ handed = accepted
         /\ open' = FALSE
         /\ UNCHANGED <<accepted, handed, dropped>>

Next == Create \/ Accept \/ Drop \/ Hand \/ Close

Spec == Init /\ [][Next]_vars
=============================================================================
