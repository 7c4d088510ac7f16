----------------------------- MODULE AccountTable -----------------------------
(* What the account management promises to the GUI and to the core: a      *)
(* table of accounts in the order of their creation, each under an id that *)
(* no other has, until the GUI itself overwrites an id.                    *)
EXTENDS Integers, FiniteSets, Sequences, SequencesExt

CONSTANTS Id,     \* the ids of accounts
          Name,   \* values of the attribute that stands for all texts
          Unset   \* an attribute that has no value yet

VARIABLES table,    \* the accounts: records of an id and a name
          renamed   \* the GUI has set the attribute "id" of an account

vars == <<table, renamed>>

Ids == {a.id : a \in Range(table)}
\* The one of several accounts with an id that requests with this id reach.
First(n) == SelectInSeq(table, LAMBDA a : a.id = n)

Init == table = <<>> /\ renamed = FALSE

\* The accounts of the file appear when the program starts.
Load ==
  /\ table = <<>>
  /\ table' \in Seq([id : Id, name : Name])
  /\ renamed \/ Cardinality(Ids') = Len(table')
  /\ UNCHANGED renamed

Lose == table' = <<>> /\ UNCHANGED renamed

\* What an action says first spares TLC the rest of it in most steps.
Create ==
  /\ UNCHANGED renamed /\ Len(table') = Len(table) + 1
  /\ \E n \in Id : /\ table' = Append(table, [id |-> n, name |-> Unset])
                   /\ n \in Ids => renamed

Delete ==
  /\ UNCHANGED renamed /\ Len(table') = Len(table) - 1
  /\ \E n \in Ids : table' = RemoveAt(table, First(n))

SetName ==
  /\ UNCHANGED renamed /\ Len(table') = Len(table)
  /\ \E n \in Ids, v \in Name : table' = [table EXCEPT ![First(n)].name = v]

SetId ==
  /\ renamed' = TRUE /\ Len(table') = Len(table)
  /\ \E n \in Ids, m \in Id : table' = [table EXCEPT ![First(n)].id = m]

Next == Load \/ Lose \/ Create \/ Delete \/ SetName \/ SetId

Spec == Init /\ [][Next]_vars
=============================================================================
