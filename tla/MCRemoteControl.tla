-------------------------- MODULE MCRemoteControl --------------------------
(* Requests of one friend: two consoles, a harmless command and one that    *)
(* stops the server, the closing of a console, and a stop.  Several small   *)
(* instances in one run, each with room for another part of the system.     *)
EXTENDS RemoteControl

CONSTANTS rOpen, rOther, rExec, rHalt, rClose, rStop

MCReq == {rOpen, rOther, rExec, rHalt, rClose, rStop}
MCOp == [r \in MCReq |-> CASE r \in {rOpen, rOther} -> "open"
                           [] r \in {rExec, rHalt} -> "exec"
                           [] r = rClose -> "close"
                           [] r = rStop -> "stop"]
MCSid == [r \in MCReq |-> IF r = rOther THEN rOther ELSE rOpen]
MCHalts == {rHalt}
MCGrants == {{}, {"console", "exec"}, {"console", "stop"}}

At(clk, n, m, chans, reqs) == [clock |-> clk, lines |-> n, fails |-> FALSE, changes |-> m,
                               channels |-> chans, reqs |-> reqs]
Failing(bounds) == [bounds EXCEPT !.fails = TRUE]

MCLimits == {
    At(3, 0, 0, {1}, {rStop}),              \* late and repeated commands
    At(2, 1, 0, {1}, {rOpen}),              \* a console over a channel
    At(1, 0, 0, {1, 2}, {rOpen, rClose}),   \* channels that replace each other
    At(1, 1, 0, {1, 2}, {rOpen}),
    At(1, 3, 0, {}, {rOpen}),               \* lines against flushers
    Failing(At(1, 2, 0, {}, {rOpen})),      \* and against starts that fail
    At(1, 2, 1, {}, {rOpen}),
    At(3, 1, 2, {}, {rOpen}),               \* rights and friendship
    At(1, 0, 1, {}, {rOpen, rExec, rHalt}), \* commands typed into the console
    At(1, 0, 2, {}, {rOpen, rHalt}),
    At(1, 0, 0, {}, {rOpen, rOther})}       \* more consoles than allowed
===========================================================================
