---------------------------- MODULE MCKeyRanges -----------------------------
(* Key paths for the instances of KeyRanges that TLC checks: an entity,    *)
(* its child, two more ids whose order is that of numbers, and a name.     *)
EXTENDS KeyRanges

Id(n)   == [app |-> 1, kind |-> 1, id |-> n, name |-> 0]
Name(n) == [app |-> 1, kind |-> 1, id |-> 0, name |-> n]

SomePaths ==
  <<  <<Id(3)>>, <<Id(3), Name(2)>>, <<Id(9)>>, <<Id(10)>>, <<Name(1)>>  >>

PathsOfKeys == [k \in Key |-> SomePaths[k]]

=============================================================================
