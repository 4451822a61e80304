------------------------------ MODULE MCResume ------------------------------
(* Three versions served with an ETag, one of them shorter, and two with   *)
(* none; each with a Last-Modified of its own.                             *)
EXTENDS Resume

MCVersions == {"v1", "v2", "v3", "v4", "short"}
MCFileLen  == [v \in MCVersions |-> IF v = "short" THEN 3 ELSE 4]
MCETag     == [v \in MCVersions |->
                 CASE v = "v1" -> "a" [] v = "v2" -> "b" [] v = "short" -> "c"
                   [] OTHER -> None]
MCLastModified == [v \in MCVersions |-> v]
MCForeignSizes == {0, 3}
=============================================================================
