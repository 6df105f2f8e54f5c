----------------------------- MODULE MCDirParse -----------------------------
(***************************************************************************)
(* Folder "A" holds the folder "B", two films in no order, a subtitle and its   *)
(* own ".."; "B" holds a film and a subtitle.                              *)
(***************************************************************************)
EXTENDS DirParse

MCFolder  == {"A", "B"}
MCEntries == [d \in MCFolder |-> IF d = "A" THEN <<"f2", "..", "s1", "B", "f1">> ELSE <<"f3", "s3">>]
MCAbove   == [d \in MCFolder |-> IF d = "B" THEN {"A"} ELSE {}]
MCRank    == [n \in Names |-> CASE n = ".." -> 0 [] n = "B" -> 1 [] n = "f1" -> 2 [] n = "f2" -> 3 [] OTHER -> 4]
=============================================================================
