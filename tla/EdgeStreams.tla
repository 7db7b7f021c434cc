------------------------------ MODULE EdgeStreams ------------------------------
(***************************************************************************)
(* How an edge's two measurement streams make up what a value function     *)
(* sees of it. A stream is {} as long as none was allocated, or a set of   *)
(* one record; a score of None in it is a stream without an observation, 0 *)
(* one measured and found dead. The traits (src/src/graph/traits.rs) leave *)
(* this to the graph; the one implementation in the repository is that of  *)
(* the tests of src/src/graph/function.rs, which follows their contract.   *)
(***************************************************************************)
EXTENDS EdgeValue

Immediate(is_connected, score, ack_rate) ==
    {[is_connected |-> is_connected, score |-> score, ack_rate |-> ack_rate]}

Intermediate(balance, score) == {[balance |-> balance, score |-> score]}

\* A field of a stream, none if there is no stream.
Field(stream, f, none) == IF stream = {} THEN none ELSE (CHOOSE s \in stream : TRUE)[f]

\* The average of the scores that there are.
Combined(x, y) == IF x = None THEN y ELSE IF y = None THEN x ELSE (x + y) \div 2

Observed(imm, int, health) ==
    LET imm_score == Field(imm, "score", None)
        int_score == Field(int, "score", None)
    IN [immediate |-> imm # {}, is_connected |-> Field(imm, "is_connected", "unknown"),
        immediate_score |-> imm_score, ack_rate |-> Field(imm, "ack_rate", None),
        intermediate |-> int # {}, balance |-> Field(int, "balance", None),
        intermediate_score |-> int_score,
        score |-> Combined(imm_score, int_score), health |-> health]
================================================================================
