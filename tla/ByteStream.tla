---------------------------- MODULE ByteStream ----------------------------
(***************************************************************************)
(* What a DVB ring buffer promises to its reader, without pointers, copies *)
(* or split writes.  The transport stream is an endless sequence of bytes  *)
(* numbered 0, 1, 2, ...; the bytes lo .. hi-1 are in transit.             *)
(***************************************************************************)
EXTENDS Integers

CONSTANT Capacity       \* the most bytes that are ever in transit

VARIABLES
    lo,         \* number of the next byte the reader takes
    hi,         \* number of the next byte the writer appends
    next,       \* number of the next byte the demux offers
    overrun     \* bytes have been lost since the reader last resynchronised

vars == <<lo, hi, next, overrun>>

Init == lo = 0 /\ hi = 0 /\ next = 0 /\ overrun = FALSE

(* The writer appends bytes that continue the stream.                      *)
Put ==
    /\ ~overrun /\ hi = next
    /\ hi' > hi /\ hi' - lo <= Capacity
    /\ next' = hi'
    /\ UNCHANGED <<lo, overrun>>

(* Bytes are dropped: everything after them is behind a gap.               *)
Lose ==
    /\ next' > next
    /\ overrun' = TRUE
    /\ UNCHANGED <<lo, hi>>

(* The reader takes the oldest bytes.                                      *)
Take ==
    /\ lo' > lo /\ lo' <= hi
    /\ UNCHANGED <<hi, next, overrun>>

(* After an overrun the reader throws away what is in transit ...          *)
Drop ==
    /\ overrun
    /\ lo' = hi
    /\ UNCHANGED <<hi, next, overrun>>

(* ... and resynchronises: the stream continues behind the gap.            *)
Resync ==
    /\ lo' = next /\ hi' = next
    /\ overrun' = FALSE
    /\ next' = next

Next == Put \/ Lose \/ Take \/ Drop \/ Resync

Spec == Init /\ [][Next]_vars
===========================================================================
