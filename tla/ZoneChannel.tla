----------------------------- MODULE ZoneChannel -----------------------------
(***************************************************************************)
(* What a zone promises to whoever presses its buttons, one request at a   *)
(* time, and to whoever listens: only the stream it shows is heard.  A     *)
(* stream that was stopped may owe the one chunk it had already read, and  *)
(* nothing of what it sent before is left when Stop returns.               *)
(***************************************************************************)
EXTENDS Naturals, Sequences

CONSTANTS Streams, None, Capacity

VARIABLES
    current,   \* the stream that is shown
    used,      \* the streams that were ever started
    owed,      \* the stopped streams that may still send a chunk
    coming,    \* what is about to be heard, each chunk by its stream
    stopping   \* a Stop has not returned

channel == <<current, used, owed, coming, stopping>>

\* A source zone is started with its stream; any other shows none.
Init ==
    /\ current \in Streams \cup {None}
    /\ used = {current} \ {None}
    /\ owed = {} /\ coming = <<>> /\ stopping = FALSE

\* What is shown goes, and may have a chunk in its hands.
Stop ==
    /\ ~stopping /\ stopping' = TRUE
    /\ current' = None
    /\ owed' \in {owed, owed \cup ({current} \ {None})}
    /\ UNCHANGED <<used, coming>>

\* Stop returns at a moment when nothing is left.
Stopped ==
    /\ stopping /\ stopping' = FALSE
    /\ coming = <<>>
    /\ UNCHANGED <<current, used, owed, coming>>

\* Only a zone that shows nothing starts a stream.
Play(s) ==
    /\ ~stopping /\ current = None
    /\ s \notin used /\ used' = used \cup {s}
    /\ current' = s
    /\ UNCHANGED <<owed, coming, stopping>>

Send(s) ==
    /\ s = current \/ s \in owed
    /\ Len(coming) < Capacity
    /\ coming' = Append(coming, s)
    /\ owed' = owed \ {s}
    /\ UNCHANGED <<current, used, stopping>>

\* A stopped stream ends without its chunk.
Forgo(s) ==
    /\ s \in owed /\ owed' = owed \ {s}
    /\ UNCHANGED <<current, used, coming, stopping>>

\* The oldest chunk is heard, or dropped.
Take ==
    /\ coming # <<>> /\ coming' = Tail(coming)
    /\ UNCHANGED <<current, used, owed, stopping>>

Next ==
    \/ Stop \/ Stopped \/ Take
    \/ \E s \in Streams : Play(s) \/ Send(s) \/ Forgo(s)

Spec == Init /\ [][Next]_channel
=============================================================================
