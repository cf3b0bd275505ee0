----------------------------- MODULE MCZkReveal -----------------------------
(* Instances of ZkReveal for TLC.                                            *)
EXTENDS ZkReveal

CONSTANTS MaxPackets, PacketLen

ZkPackets ==
  UNION {{[reveal |-> "zk", len |-> PacketLen, given |-> given, hidden |-> hidden] :
            hidden \in SUBSET (0 .. given - 1)} : given \in PacketLen - 1 .. PacketLen + 1}

OtherPackets ==
  {[reveal |-> r, len |-> PacketLen, given |-> 0, hidden |-> {}] : r \in {"none", "complete"}}

AllTranscripts ==
  UNION {[1 .. n -> ZkPackets \cup OtherPackets] : n \in 1 .. MaxPackets}
=============================================================================
