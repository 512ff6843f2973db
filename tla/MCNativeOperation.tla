-------------------------- MODULE MCNativeOperation --------------------------
\* One caller runs two operations in turn; the first may still be retiring, or
\* sending its late result, while the second runs.
EXTENDS NativeOperation
==============================================================================
