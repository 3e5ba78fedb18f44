-------------------------- MODULE MCWebShellSessions --------------------------
(* WebShellSessions with the bounds that make two sessions affordable. *)
EXTENDS WebShellSessions

CONSTANT FirstSession

Dialled == {s \in Sessions : once[s] # "unused"}

\* Sessions are alike: FirstSession is dialled first.
InOrder == Dialled = {} \/ FirstSession \in Dialled

\* With a second session dialled, the process stays up, the assets print nothing
\* and rows are saved: what broadcast, the writers, a crash and a failed update
\* do is looked at with one session.
Quiet ==
    Cardinality(Dialled) > 1 =>
        /\ ~crashed
        /\ \A s \in Sessions : pump[s] # "send"
        /\ \A c \in Conns : chan[c] = 0 /\ writer[c] # "send"
        /\ \A s \in Sessions : row[s] = "allocated" => once[s] \in {"fresh", "dead"}
        /\ unsaved = {}

\* Nobody comes back after a crash.
Over == crashed \/ panicked => \A c \in Conns : pc[c] \in {"idle", "gone"}

=============================================================================
