------------------------------ MODULE MCNVRead ------------------------------
EXTENDS NVRead

\* A TPM whose NV buffer limit may be 0 (not reported), 1, or too large
\* for a uint16 (65537, rejected by the range check).
MCValues == {0, 1, 65537}
MCSessions == {"hmac", "policy"}
MCPolicySessions == {"policy"}
MCNVData == <<7, 8, 9>>
=============================================================================
