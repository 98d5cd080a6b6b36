------------------------------ MODULE MCStream ------------------------------
(* UvStream on a small instance: a server, its client, datagram sockets.    *)
EXTENDS UvStream, TLC

Symmetry == Permutations(Streams \ Datagrams) \cup Permutations(Slots)
=============================================================================
