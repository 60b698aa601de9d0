----------------------------- MODULE MCControl -----------------------------
(***************************************************************************)
(* Two instances of Control, told apart by what is configured: a player    *)
(* with a source zone or a station, two handlers and no Companion module;  *)
(* and one that starts with nothing configured, with a Companion module    *)
(* and one handler that adds and removes one station.                      *)
(***************************************************************************)
EXTENDS Control

CONSTANT First   \* the handler that runs in both

MCDeclared == {<<>>, <<[id |-> "a", custom |-> FALSE]>>}

\* Nothing, a prebuffer alone, and both, the buffer too short.
MCStated ==
    {[prebuffer |-> 0, buffer |-> 0],
     [prebuffer |-> 30, buffer |-> 0],
     [prebuffer |-> 40, buffer |-> 20]}

MCEnvs ==
    {[prebuffer |-> 0, buffer |-> 0],
     [prebuffer |-> 200, buffer |-> 60]}

MCWatchable == {<<>>, <<[id |-> "a", custom |-> TRUE]>>}

Watched == disk["other"] = Blank

\* Bounds of the two instances.
MCNext ==
    /\ CNext
    /\ IF Watched
       THEN /\ \A h \in Handlers \ {First} : pc'[h] = "idle"
            /\ stations' \in MCWatchable \cup {<<[id |-> "a", custom |-> FALSE]>>}
       ELSE UNCHANGED client

MCSpec == CInit /\ [][MCNext]_cvars /\ Client!ClientFairness
=============================================================================
