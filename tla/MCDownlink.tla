----------------------------- MODULE MCDownlink -----------------------------
(* TLC instance of Downlink: all strings over two letters up to one letter   *)
(* more than a field holds, and ids whose bytes differ when swapped.         *)
EXTENDS Downlink, SequencesExt

MCUsers == SeqOf({65, 66}, kAuthUserLen + 1)
MCPasses == SeqOf({65, 66}, kAuthPassLen + 1)
MCNids == {0, 20002, 16909060, 67305985}
MCCmds == {779}
MCSeqs == {<<0, 7>>, <<7, 0>>}
MCBodies == {<< >>, <<200>>}
MCShortPayloads == {<< >>, HostToBe32(779) \o HostToBe32(20002) \o Zeros(40), Zeros(51)}
=============================================================================
