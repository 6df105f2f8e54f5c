-------------------------- MODULE MCMusicPlaylist --------------------------
(***************************************************************************)
(* A small drive: folder "A" holds the songs s3 and s1, folder "B" holds A,  *)
(* the song s2 and the playlist file "P", which names s2 and s3.  The path   *)
(* of s1 is a beginning of the path of s3.                                  *)
(***************************************************************************)
EXTENDS MusicPlaylist

MCEntry == {"s1", "s2", "s3"}
MCName  == [n \in MCEntry |-> CASE n = "s1" -> 1 [] n = "s2" -> 2 [] OTHER -> 3]
MCItems == [f \in {"P"} |-> <<"s2", "s3">>]
MCSubs  == [d \in {"A", "B"} |-> IF d = "B" THEN <<"A">> ELSE <<>>]
MCFiles == [d \in {"A", "B"} |-> IF d = "B" THEN <<"s2", "P">> ELSE <<"s3", "s1">>]
MCBelow == [x \in MCEntry \union {"A", "B"} |->
              CASE x = "A" -> {"s1", "s3"} [] x = "B" -> MCEntry
                [] x = "s1" -> {"s1", "s3"} [] OTHER -> {x}]
=============================================================================
