----------------------------- MODULE MCItemCustody -----------------------------
\* Logs stack to two and chests do not.  One guest's pack is full; the other has two logs in
\* its grid; the chest holds two.
EXTENDS ItemCustody

MCMaxStack == ("log" :> 2) @@ ("chest" :> 1)
MCLogs     == [kind |-> "log", count |-> 2]
MCStart    == ("g1" :> [pack |-> <<None>>, cursor |-> None, grid |-> <<MCLogs>>])
              @@ ("g2" :> [pack |-> <<Some("chest", 1)>>, cursor |-> None, grid |-> <<None>>])
              @@ ("chest" :> <<MCLogs>>)
MCLookers  == {{"g2"}, {"g1", "g2"}}
=================================================================================
