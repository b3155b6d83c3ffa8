----------------------------- MODULE FrameRate ------------------------------
(***************************************************************************)
(* Which frames amlvconv keeps when the output rate is the lower one       *)
(* (gst_aml_vconv_transform_frame), for rates that are whole numbers.      *)
(***************************************************************************)
EXTENDS Integers

\* 1.0 > fmod(n, p / q), n being the count of frames and p and q the input and
\* the output rate: by zero it is not a number, and a zero q makes it infinite.
\* A quotient that is rounded up leaves a little less than exact division would,
\* and almost the whole divisor instead of nothing; but the first frame is less
\* than the divisor and left as it is.
KeptByRate(n, p, q, up) ==
  IF p = 0 THEN TRUE
  ELSE IF up /\ n > 1
       THEN (IF (n * q) % p = 0 THEN p ELSE (n * q) % p) <= q
       ELSE (n * q) % p < q
=============================================================================
