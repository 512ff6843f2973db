----------------------------- MODULE MCDistFrames -----------------------------
\* Three frames, a receiver with a smaller limit than the sender's, and chunks
\* smaller and larger than a header.
EXTENDS DistFrames
==============================================================================
