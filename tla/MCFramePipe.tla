---------------------------- MODULE MCFramePipe ----------------------------
(* FramePipe for TLC: frames are interchangeable addresses. *)
EXTENDS FramePipe, TLC

ArpBroadcast == [ethertype |-> "ARP", dest |-> "broadcast"]
Ipv6Unicast == [ethertype |-> "IPV6", dest |-> "unicast"]
IpUnicast == [ethertype |-> "IP", dest |-> "unicast"]

NoisyHeaders == {ArpBroadcast, Ipv6Unicast}
QuietHeaders == {IpUnicast}

Symmetry == Permutations(Pointers)

=============================================================================
