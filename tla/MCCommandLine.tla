--------------------------- MODULE MCCommandLine ----------------------------
(* An instance of CommandLine for TLC: names that a link or a request      *)
(* takes for a shorter one.                                                *)
EXTENDS CommandLine

CONSTANTS c1, c2

MCNames == {"a", "a&b", "a c"}

MCLinkOf == [n \in MCNames |->
    CASE n = "a" -> "a.torrent" [] n = "a&b" -> "a&b.torrent"
      [] n = "a c" -> "a c.torrent"]

MCInLink == [n \in MCNames |-> IF n = "a&b" THEN "a" ELSE n]

MCInRequest == [n \in MCNames |-> IF n = "a c" THEN "a" ELSE n]

(* What the user has under the three names.                                *)
Three(u, v, w) == [n \in MCNames |-> CASE n = "a" -> u [] n = "a&b" -> v
                                       [] n = "a c" -> w]

MCUserFiles == {Three(c1, Absent, Directory)}
=============================================================================
