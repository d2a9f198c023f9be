----------------------- MODULE MCConfigurationVolumes -----------------------
(* Two configured effects that share an allocation and two cleanups.       *)
EXTENDS ConfigurationVolumes, TLC

CONSTANTS a, b, s1, s2, c1, c2

TwoSelections == (s1 :> <<a, b>>) @@ (s2 :> <<a>>)
TwoCleanups == (c1 :> <<a, b>>) @@ (c2 :> <<a>>)

(* Everything under reservations; without them, one cleanup.               *)
Dispatched ==
    {[effects |-> {s1, s2, c1, c2}, reserved |-> TRUE],
     [effects |-> {s1, s2, c1}, reserved |-> FALSE]}

Vol(owner, local, content) ==
    [inc |-> 0, owner |-> owner, local |-> local, content |-> content]

(* Nothing, a complete or half-written allocation, someone else's volume   *)
(* and one on other than plain local storage.                              *)
AnyVolume ==
    {[r \in Refs |-> IF r = a THEN x ELSE y] :
        x \in {NoVolume, Vol("exact", TRUE, "match"), Vol("exact", TRUE, "other"),
               Vol("other", TRUE, "match"), Vol("exact", FALSE, "match")},
        y \in {NoVolume, Vol("exact", TRUE, "match")}}
=============================================================================
