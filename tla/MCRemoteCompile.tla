---------------------------- MODULE MCRemoteCompile ---------------------------
\* Two calls of compile_step, of all kinds, that share a header and a builder,
\* two contents of the header and one fault anywhere: a rewritten header, a
\* restart, an eviction or a short write.  The fault may be the eviction by which
\* an upload meets the temporary file of another one.  The contents are alike, so
\* one of them may stand for what the header holds at first.
\*
\* The code's is_valid_sha256 asks for 64 bytes and refuses every hash, which
\* hides the upload protocol; the passing run has this length and the one it
\* must ask for, 32.
EXTENDS RemoteCompile

CONSTANTS c1, c2, v1, v2

===============================================================================
