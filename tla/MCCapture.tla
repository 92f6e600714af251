----------------------------- MODULE MCCapture -----------------------------
(***************************************************************************)
(* Capture on small members, redacted and not.                             *)
(***************************************************************************)
EXTENDS Capture

T(k, n) == [kind |-> k, size |-> n]
End == <<T("eot", 0), T("crc", 0)>>

\* No artifact, one of one chunk, and one of one chunk beside an empty one.
SmallMembers ==
  {<<T("dir", 0)>> \o End,
   <<T("dir", 0), T("file", 1), T("body", 0)>> \o End,
   <<T("file", 1), T("body", 0), T("file", 0)>> \o End}

SmallMaxSizes == {0, 2}
=============================================================================
