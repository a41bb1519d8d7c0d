---------------------------- MODULE MCSmLauncher ----------------------------
EXTENDS SmLauncher, TLC

CONSTANTS s1, s2, c

MCItemID == s1 :> "A" @@ s2 :> "A" @@ c :> "C"
Start2(a, b) == s1 :> a @@ s2 :> b @@ c :> None
\* Two instances of one service, to which the runtime adds its component: both in the
\* first version; an update of one and the end of the other; the end of one that leaves
\* the other out.
MCRequests == {
    [stop |-> {}, start |-> Start2(1, 1)],
    [stop |-> {s2}, start |-> Start2(2, None)],
    [stop |-> {s1}, start |-> Start2(None, None)]}
=============================================================================
