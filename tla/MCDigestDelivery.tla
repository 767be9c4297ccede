--------------------------- MODULE MCDigestDelivery ---------------------------
(***************************************************************************)
(* Instances of DigestDelivery for TLC.  One unit of time is about four    *)
(* seconds: the attempt (20 s), the lease (30 s) and the permit (5 s) keep *)
(* their order, the backoffs are cut down to two units.                    *)
(***************************************************************************)
EXTENDS DigestDelivery, TLC

MCDelays == <<1>>
MCRetryAfters == {0, 2}

ServerSymmetry == Permutations(Servers)
=============================================================================
