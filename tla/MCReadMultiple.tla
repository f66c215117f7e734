--------------------------- MODULE MCReadMultiple ---------------------------
EXTENDS ReadMultiple

\* A plain HMAC session and a policy session.
MCSessions == {"hmac", "policy"}
MCPolicySessions == {"policy"}

\* Three bytes of NV data, read in pieces of one or two bytes.
MCNVData == <<7, 8, 9>>
MCMaxSizes == {1, 2}
=============================================================================
