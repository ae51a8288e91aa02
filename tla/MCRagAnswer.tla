----------------------------- MODULE MCRagAnswer -----------------------------
(* Four chunks: two of one topic, two with the same content in different   *)
(* topics, and one that conflicts with none.                               *)
EXTENDS RagAnswer

MCChunk == 1..4
MCTopicOf == <<"charging", "charging", "wipers", "seats">>
MCHashOf == <<"h1", "h2", "h1", "h3">>
MCScore == 0..2
=============================================================================
