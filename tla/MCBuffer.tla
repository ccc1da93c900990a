----------------------------- MODULE MCBuffer -----------------------------
(* The Buffer at a scale where both makeSpace branches, readFd's extrabuf  *)
(* spill and shrink happen within a few calls.                              *)
EXTENDS Buffer

\* '\r' and '\n', the bytes findCRLF and findEOL look for.
MCBytes == {13, 10}

\* 0x0D0A and 0x0A0D: their network-order bytes are '\r' and '\n', so
\* integers mix with the strings without new byte values, and either one
\* read in host order would be the other.  As int8_t they are 10 and 13.
MCInts == {3338, 2573}
MCIntWidths == {1, 2}
==========================================================================
