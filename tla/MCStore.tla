------------------------------ MODULE MCStore ------------------------------
(***************************************************************************)
(* Store on small members.                                                 *)
(***************************************************************************)
EXTENDS Store

T(k, n) == [kind |-> k, size |-> n]
End == <<T("eot", 0), T("crc", 0)>>
Body(n) == [k \in 1..n |-> T("body", 0)]
Artifact(n) == <<T("file", n)>> \o Body(n)

\* No artifact, an empty one, and two of which the first is the longer.
SmallMembers ==
  {<<T("dir", 0)>> \o End,
   <<T("dir", 0)>> \o Artifact(0) \o End,
   <<T("dir", 0)>> \o Artifact(2) \o Artifact(1) \o End}

\* Unlimited, too small for every member, for the bundle only, for nothing.
SmallMaxSizes == {0, 1, 3, 8}
=============================================================================
