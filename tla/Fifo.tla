-------------------------------- MODULE Fifo --------------------------------
(***************************************************************************)
(* What a wMessageQueue promises: messages leave it in the order in which  *)
(* they came, each once; after WMQ_QUIT it accepts nothing until it is     *)
(* cleared.                                                                *)
(***************************************************************************)
EXTENDS Sequences

CONSTANTS Message, Quit     \* all messages, and those with id WMQ_QUIT

VARIABLES
    items,      \* the messages in the queue
    closed,     \* WMQ_QUIT was accepted
    taken       \* the messages handed out

Init == items = <<>> /\ closed = FALSE /\ taken = <<>>

Post(m) ==
    /\ ~ closed
    /\ items' = Append(items, m)
    /\ closed' = (m \in Quit)
    /\ UNCHANGED taken

Take ==
    /\ items # <<>>
    /\ items' = Tail(items)
    /\ taken' = Append(taken, Head(items))
    /\ UNCHANGED closed

Clear ==
    /\ items' = <<>>
    /\ closed' = FALSE
    /\ UNCHANGED taken

Next == (\E m \in Message : Post(m)) \/ Take \/ Clear

Spec == Init /\ [][Next]_<<items, closed, taken>>
=============================================================================
