----------------------------- MODULE MCOtaImage -----------------------------
(* Instances of OtaImage for TLC: two builds of the firmware with the same    *)
(* secure version, as the build system makes them, a user interface and a   *)
(* wrong file, which is no file system.                                       *)
EXTENDS OtaImage

Files == {"old", "new", "page", "junk"}
SentFor(p) == IF p = "storage" THEN {"page", "junk"} ELSE {"old", "new"}
KindOf(i) == CASE i \in {"old", "new"} -> "app"
               [] i = "page" -> "ui"
               [] OTHER -> "other"
BuildDate(i) == IF i = "old" THEN 1 ELSE 2
SecureVersion(i) == 0
=============================================================================
