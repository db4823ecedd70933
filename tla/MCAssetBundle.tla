---------------------------- MODULE MCAssetBundle ----------------------------
(***************************************************************************)
(* Small instances of AssetBundle: three versions of a file, the third of  *)
(* the length of the first.                                                *)
(***************************************************************************)
EXTENDS AssetBundle

Lengths == <<4, 3, 4>>
AssetSetup(call, encrypted, cors, tag, ranges, ifRange, from, to, count, fails) ==
  [call |-> call, encrypted |-> encrypted, corsSafe |-> cors, etag |-> tag,
   ranges |-> ranges, ifRange |-> ifRange, from |-> from, to |-> to,
   calls |-> count, fails |-> fails]
Tags == {"strong", "weak", "none", "once"}

\* Downloads in three calls of which two may fail, ranges, and a plain read;
\* encrypted ones also from a host that does not honour If-Range.
Assets ==
  {AssetSetup("download", e, c, t, r, TRUE, 0, 9, 3, 2) :
     e \in BOOLEAN, c \in BOOLEAN, t \in Tags, r \in BOOLEAN} \cup
  {AssetSetup("download", TRUE, c, t, TRUE, FALSE, 0, 9, 3, 2) :
     c \in BOOLEAN, t \in {"strong", "weak"}} \cup
  {AssetSetup("range", e, c, t, TRUE, TRUE, f, f + 2, 1, 1) :
     e \in BOOLEAN, c \in BOOLEAN, t \in Tags, f \in {0, 2, 5}} \cup
  {AssetSetup("read", FALSE, FALSE, "strong", TRUE, TRUE, 0, 9, 1, 0)}

\* A plain download that is resumed from a host that does not honour If-Range.
PlainResumes == {AssetSetup("download", FALSE, FALSE, "strong", TRUE, FALSE, 0, 9, 3, 2)}
=============================================================================
