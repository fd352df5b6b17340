--------------------------- MODULE EvidenceLedger ---------------------------
(***************************************************************************)
(* What the PAPER runtime promises of its forward evidence, whatever       *)
(* crashes: a sequence of closed windows that never change again and one   *)
(* open window that only grows, by one market event at a time.  An event   *)
(* counts in one window only, unless the source replays its events after a *)
(* restart.  Abstracts paper_session.py, paper_archive.py and the rotation *)
(* code of runtime_factory.py and execution_runtime.py.                    *)
(***************************************************************************)
EXTENDS Naturals, Sequences

CONSTANTS Events, Strategies

VARIABLES
    closed,      \* the finalized windows, oldest first
    open,        \* the window evidence is being gathered in
    repeatable   \* the market source replays events it delivered before

ledgerVars == <<closed, open, repeatable>>

Windows == [events : SUBSET Events, trades : [Strategies -> SUBSET Events]]

EmptyWindow == [events |-> {}, trades |-> [strategy \in Strategies |-> {}]]

Counted == open.events \cup UNION {closed[i].events : i \in 1..Len(closed)}

Init ==
    /\ closed = <<>>
    /\ open = EmptyWindow
    /\ repeatable \in BOOLEAN

\* A market event is counted, with the trades it closed.
Count(event) ==
    /\ event \notin open.events
    /\ repeatable \/ event \notin Counted
    /\ \E closing \in SUBSET Strategies :
          open' = [events |-> open.events \cup {event},
                   trades |-> [strategy \in Strategies |->
                                 IF strategy \in closing
                                 THEN open.trades[strategy] \cup {event}
                                 ELSE open.trades[strategy]]]
    /\ UNCHANGED <<closed, repeatable>>

\* The open window is closed as it stands; gathering goes on in an empty one.
Close ==
    /\ closed' = Append(closed, open)
    /\ open' = EmptyWindow
    /\ UNCHANGED repeatable

Next == Close \/ \E event \in Events : Count(event)

Spec == Init /\ [][Next]_ledgerVars

=============================================================================
