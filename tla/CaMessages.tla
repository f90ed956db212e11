---------------------------- MODULE CaMessages ----------------------------
(***************************************************************************)
(* What read(2) on a ca device promises, without a ring, packet headers or *)
(* disposed packets: the fragments of all connections wait, numbered as    *)
(* they came, and a read takes the first message, which is the fragments   *)
(* of the connection of the oldest one, up to one that ends a message.     *)
(***************************************************************************)
EXTENDS Integers

CONSTANT Conns

VARIABLES
    arrived,    \* how many fragments have come
    waiting     \* the fragments not yet read: n, conn, more

vars == <<arrived, waiting>>

Init == arrived = 0 /\ waiting = {}

Put ==
    /\ arrived' = arrived + 1
    /\ \E c \in Conns, more \in BOOLEAN :
         waiting' = waiting \cup {[n |-> arrived + 1, conn |-> c, more |-> more]}

Oldest == CHOOSE f \in waiting : \A g \in waiting : f.n <= g.n

(* The fragments that end a message of the first connection.               *)
Ends == {f \in waiting : f.conn = Oldest.conn /\ ~f.more}

Message == {f \in waiting : f.conn = Oldest.conn /\ \A e \in Ends : f.n <= e.n}

(* A read takes the first message whole, and nothing else.                 *)
Get ==
    /\ waiting # {} /\ Ends # {}
    /\ waiting' = waiting \ Message
    /\ UNCHANGED arrived

(* A read whose buffer cannot be written loses a beginning of it.          *)
Spoil ==
    /\ waiting # {} /\ Ends # {}
    /\ \E e \in Message : waiting' = waiting \ {f \in Message : f.n < e.n}
    /\ UNCHANGED arrived

Next == Put \/ Get \/ Spoil

Spec == Init /\ [][Next]_vars
===========================================================================
