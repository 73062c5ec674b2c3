------------------------------ MODULE MCClient ------------------------------
(* ESLClient with the smallest frame cap ESLConfig lets through: what a      *)
(* setting of 0 is clamped to.  Of the two sizes one fits beside the other,  *)
(* but not beside itself.                                                    *)
EXTENDS ESLClient

Config == INSTANCE ESLConfig

mcMaxFrame == Config!normalize_max_frame_bytes(Config!Number(0))
mcSizes == {mcMaxFrame \div 3, (mcMaxFrame \div 3) * 2}
=============================================================================
