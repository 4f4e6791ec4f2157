----------------------------- MODULE MCStorage -----------------------------
(* The two halves of the storage, config claim and media folder, one at a     *)
(* time: they share a pass, and nothing else. The second export is used with  *)
(* a provisioned volume, where changing it matters.                           *)
EXTENDS Storage

MCStorages ==
  {s \in JellyfinStorage :
     IF s.own THEN ~s.provision /\ ~s.options
     ELSE s.size = 1 /\ (s.src # NoVolume.src => s.provision /\ ~s.options)}
=============================================================================
