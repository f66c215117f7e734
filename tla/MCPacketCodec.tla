--------------------------- MODULE MCPacketCodec ---------------------------
(* Small instance of PacketCodec: one command code, one handle value      *)
(* (TPM_RH_OWNER), empty and one-byte nonces, HMACs and parameter areas, and *)
(* auth areas of up to four auths, one more than the parsers accept.       *)
EXTENDS PacketCodec

MCCommandCodes == {350}          \* TPM_CC_Unseal
MCHandleValues == {1073741825}   \* TPM_RH_OWNER, 0x40000001
MCBufferValues == {<< >>, <<7>>}
MCParamValues  == {<< >>, <<5>>}
=============================================================================
