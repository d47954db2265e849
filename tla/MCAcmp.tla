------------------------------- MODULE MCAcmp -------------------------------
(* Instances of Acmp for TLC: two talkers with a stream output each, whose
   entity ids differ in the bytes that dest_or_eid_match compares. *)
EXTENDS Acmp, TLC

CONSTANTS s1, s2, t1, t2, m1, m2, c1, c2

MC_OwnerOf == s1 :> t1 @@ s2 :> t2
MC_DestOf  == s1 :> m1 @@ s2 :> m2
MC_EidSame == {<<t1, t1>>, <<t2, t2>>}
=============================================================================
