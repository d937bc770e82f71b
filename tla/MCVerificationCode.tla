------------------------- MODULE MCVerificationCode -------------------------
EXTENDS VerificationCode, TLC

\* Per minute and per day. With two calls the second limit is reached once the
\* first window has ended.
Limits == <<1>>
Symmetry == Permutations(SendCall) \cup Permutations(Verifier)
=============================================================================
