------------------------------- MODULE MCLadder -------------------------------
(* TLC instances of Ladder.                                                *)
EXTENDS Ladder

\* Five attack classes, two of one lineage, and a raw label that is excluded.
SmallTaxonomy ==
  [classes |-> {"BENIGN", "Bot", "DoS", "FTP", "SSH"},
   label |-> [r \in {"benign", "bot", "dos", "ftp", "ssh", "rare"} |->
                CASE r = "benign" -> "BENIGN" [] r = "bot" -> "Bot"
                  [] r = "dos" -> "DoS" [] r = "ftp" -> "FTP"
                  [] r = "ssh" -> "SSH" [] r = "rare" -> Excluded],
   parent |-> [c \in {"BENIGN", "Bot", "DoS", "FTP", "SSH"} |->
                 IF c \in {"FTP", "SSH"} THEN "Brute Force" ELSE c],
   version |-> 1]

SortedClasses == <<"BENIGN", "Bot", "Brute Force", "DoS", "FTP", "SSH">>

SmallRows == [r \in {"benign", "bot", "dos", "ftp", "ssh", "rare"} |->
                IF r = "rare" THEN 1 ELSE IF r = "dos" THEN 4 ELSE 3]

Labels == {"benign", "bot", "dos", "ftp", "ssh"}
===============================================================================
