------------------------------ MODULE MCRxRing ------------------------------
EXTENDS RxRing

\* A socket with its ring and a receive queue, and one without a ring.
BothModes == {[use_mmap |-> TRUE, rcvbuf |-> 2], [use_mmap |-> FALSE, rcvbuf |-> 3]}

\* One more, for whose messages the kernel always finds a frame.
AllSockets == BothModes \cup {[use_mmap |-> TRUE, rcvbuf |-> 0]}
=============================================================================
