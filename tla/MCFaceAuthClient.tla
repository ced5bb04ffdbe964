--------------------------- MODULE MCFaceAuthClient ---------------------------
(* Instances of FaceAuthClient.                                            *)
EXTENDS FaceAuthClient

CONSTANTS t1, t2, a, b

(* The settings application, an application that is not a system one, a    *)
(* native process without the permission.                                  *)
MCTokens == {[hap |-> TRUE, system |-> TRUE, permitted |-> TRUE],
             [hap |-> TRUE, system |-> FALSE, permitted |-> TRUE],
             [hap |-> FALSE, system |-> FALSE, permitted |-> FALSE]}

Number(id, cut) == [kind |-> "number", id |-> id, cut |-> cut]

MCInputs == {Number("0", "0"), Number(a, a), Number(b, "unknown"), [kind |-> "empty"],
             [kind |-> "letters"], [kind |-> "overflow"], [kind |-> "no text"]}
===============================================================================
