---------------------------- MODULE FrameChannel ----------------------------
(***************************************************************************)
(* What libuvc's streaming promises the user of a stream: a place with     *)
(* room for one frame.  The producer overwrites it at any time; the        *)
(* consumer copies it in one piece, each frame at most once, and misses    *)
(* those it is too slow for.  A frame with a fault mark is seen but not    *)
(* copied.                                                                 *)
(***************************************************************************)
EXTENDS Naturals

CONSTANT Contents  \* what a frame can hold

VARIABLES
    count,   \* frames published
    latest,  \* number, content and fault mark of the frame in the place
    last,    \* number of the frame the consumer saw last
    copy     \* what the consumer has copied

Init ==
    /\ count = 0
    /\ latest = [seq |-> 0, content |-> {}, faulty |-> FALSE]
    /\ last = 0 /\ copy = {}

Publish ==
    /\ latest' \in [seq : {count}, content : Contents, faulty : BOOLEAN]
    /\ count' = count + 1
    /\ UNCHANGED <<last, copy>>

\* Frame 0 looks like one already seen.
Take ==
    /\ latest.seq # last
    /\ last' = latest.seq
    /\ copy' = IF latest.faulty THEN copy ELSE latest.content
    /\ UNCHANGED <<count, latest>>

Next == Publish \/ Take

Spec == Init /\ [][Next]_<<count, latest, last, copy>>
=============================================================================
