--------------------------- MODULE MCConnections ---------------------------
(***************************************************************************)
(* Instances for TLC of three components that hold connections: the pool   *)
(* of connections to a backend, the connections of the asynchronous mode,  *)
(* the sockets of the client library.  They do not interact: a behaviour   *)
(* is one of the component that part names, the variables of the others    *)
(* keep one of their initial values.                                       *)
(***************************************************************************)
EXTENDS PlatConnMgrEx, PlatConnMgrAsy, CliSockets, TLC

CONSTANTS t1, t2, t3, c1, c2

VARIABLE part

Symmetry == Permutations({t1, t2}) \cup Permutations({c1, c2})

Sizes == {<<2, 1>>, <<1, 2>>}

Init ==
    /\ part \in {"ex", "asy", "cli"}
    /\ ExInit /\ AsyInit /\ CliInit
    /\ part # "ex" => exSize = <<2, 1>> /\ \A c \in ExConns : exConn[c] = ExOpen

Next ==
    \/ part = "ex" /\ ExNext /\ UNCHANGED <<part, asyVars, cliVars>>
    \/ part = "asy" /\ AsyNext /\ UNCHANGED <<part, exVars, cliVars>>
    \/ part = "cli" /\ CliNext /\ UNCHANGED <<part, exVars, asyVars>>

Spec == Init /\ [][Next]_<<part, exVars, asyVars, cliVars>>

(* The variables of the component in question have their types.            *)
ConnectionsTypeOK ==
    /\ part = "ex" => ExTypeOK
    /\ part = "asy" => AsyTypeOK
    /\ part = "cli" => CliTypeOK
=============================================================================
