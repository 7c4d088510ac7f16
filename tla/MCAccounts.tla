------------------------------ MODULE MCAccounts ------------------------------
(* Accounts with three nodes, and with a file written by hand that has two *)
(* accounts.  In texts a tilde stands for a character that is not in       *)
(* ASCII, and two tildes for the characters that it was mistaken for, once *)
(* or again and again.                                                     *)
EXTENDS Accounts

CONSTANTS p1, p2, p3

MCNode == {p1, p2, p3}
MCLevel == {"LOG_DEBUG", "LOG_INFO", "LOG_MESSAGE", "LOG_WARNING", "LOG_ERROR",
            "LOG_FAILURE"}
MCShort == {"0", "60", "5065", "7777", "123456789"}
MCDecimal == MCShort \cup {"1234567890"}
MCAscii == MCDecimal \cup MCLevel \cup UNION {DOMAIN Attributes[e] : e \in DOMAIN Attributes}
           \cup {"", "true", "false", "yes", "many", "1", "-1", None}
MCText == MCAscii \cup {"~", "~~"}
MCPrinted == [t \in MCText |-> IF t \in MCDecimal /\ Len(t) > 9 THEN SubSeq(t, 1, 9) ELSE t]
MCRecoded == [t \in MCText |-> IF t \in {"~", "~~"} THEN "~~" ELSE t]

HandWritten ==
  [s \in Setting |->
     CASE TypeOf(s) = "bool" -> IF s[2] = "verbose" THEN "false" ELSE "true"
       [] TypeOf(s) = "level" -> "LOG_WARNING"
       [] TypeOf(s) = "int" -> IF s[2] # "port" THEN "60"
                               ELSE IF s[1] = "xmlrpcserver" THEN "7777" ELSE "5065"
       [] TypeOf(s) = "string" -> s[2]]

\* A flag, two numbers, a level and a text that the writer has no form for.
Odd == [HandWritten EXCEPT ![<<"file", "withtime">>] = "yes",
                           ![<<"file", "filename">>] = "~",
                           ![<<"console", "loglevel">>] = "many",
                           ![<<"dispatcher", "maxevents">>] = "1234567890",
                           ![<<"threads", "maxamount">>] = "many"]

MCFiles ==
  {[text |-> HandWritten, accounts |-> <<[id |-> 2, name |-> "~~"], [id |-> 1, name |-> ""]>>],
   [text |-> Odd, accounts |-> <<[id |-> 2, name |-> "~"], [id |-> 1, name |-> ""]>>]}

\* Readers care neither for settings nor for characters: they work only where
\* these are plain.
ReadersApart ==
  \/ \A r \in Reader : reader[r] = Resting
  \/ /\ config = NoConfig \/ config[<<"dispatcher", "maxevents">>] = "60"
     /\ \A p \in Allocated : heap[p].name # "~"

MCSymmetry == Permutations(MCNode)
=============================================================================
