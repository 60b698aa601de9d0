------------------------------- MODULE StateFeed -------------------------------
(***************************************************************************)
(* What the live status promises a browser, whatever carries it: the parts *)
(* of the program (zones, tuner, soundboard) change, and a page shows for  *)
(* each part a state it really had, never older than the one shown before. *)
(* Parts are read one by one, so a page may combine states that never were *)
(* at the same time.                                                       *)
(***************************************************************************)
EXTENDS Naturals

CONSTANTS Pages, Parts

VARIABLES
    world,  \* how often each part has changed
    open,   \* the pages that are open
    view    \* for each page and part, the state that is shown

\* A page that has just been loaded shows no state yet.
Blank == [q \in Parts |-> 0]

AtLeast(v, w) == \A q \in Parts : v[q] >= w[q]

Init == world = Blank /\ open = {} /\ view = [p \in Pages |-> Blank]

Change ==
    /\ world' \in [Parts -> Nat] /\ AtLeast(world', world)
    /\ UNCHANGED <<open, view>>

\* An open page goes from what it shows to something at least as new.
Refresh(p) ==
    /\ p \in open
    /\ \A other \in Pages \ {p} : view'[other] = view[other]
    /\ AtLeast(view'[p], view[p]) /\ AtLeast(world, view'[p])
    /\ UNCHANGED <<world, open>>

Load(p) ==
    /\ p \notin open /\ open' = open \cup {p}
    /\ view' = [view EXCEPT ![p] = Blank]
    /\ UNCHANGED world

Unload(p) ==
    /\ open' = open \ {p}
    /\ UNCHANGED <<world, view>>

Next == Change \/ \E p \in Pages : Refresh(p) \/ Load(p) \/ Unload(p)

Spec == Init /\ [][Next]_<<world, open, view>>
=============================================================================
