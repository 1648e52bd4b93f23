---------------------------- MODULE MCSocketLife ----------------------------
EXTENDS SocketLife, TLC

AddrSymmetry == Permutations(Addrs)
=============================================================================
