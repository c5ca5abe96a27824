--------------------------- MODULE MCAlgorithms ---------------------------
EXTENDS Algorithms

(* Three names, an agent that may see every level and one that may not.     *)
MCTasks ==
    LET ids == {"t1", "t2", "t3"}
    IN  [id : ids, agent : {"analyst", "researcher"},
         deps : {<<>>} \cup {<<x>> : x \in ids} \cup {<<x, y>> : x, y \in ids}, urls : {FALSE}]

(* No overlap, some, and an overlap longer than half the window.            *)
MCChunkOptions ==
    {[size |-> 4, overlap |-> 0], [size |-> 4, overlap |-> 1], [size |-> 5, overlap |-> 4],
     [size |-> 2, overlap |-> 2]}

CONSTANTS cpu, gpu

(* The bounds of the bands; the probe of either metric may fail, and that   *)
(* of one may give no number.                                               *)
MCPolls == {[x \in {cpu, gpu} |-> IF x = cpu THEN u ELSE v] :
                u \in {Guard!Unavailable, Guard!NotFinite, 69, 70, 98, 99},
                v \in {Guard!Unavailable, 84, 95}}
=============================================================================
