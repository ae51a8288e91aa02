------------------------------ MODULE MCSearch ------------------------------
(* Three chunks of one section, two of them of one manual and two of one   *)
(* topic.  The point ids leave gaps, as those of the store do.             *)
EXTENDS Search

MCChunk == {2, 4, 6}
MCManualOf == [c \in MCChunk |-> IF c = 6 THEN "b" ELSE "a"]
MCTopicOf == [c \in MCChunk |-> IF c = 4 THEN 2 ELSE 1]
MCSectionOf == [c \in MCChunk |-> 1]
MCFilter == {{}, {"a"}}
=============================================================================
