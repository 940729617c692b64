-------------------------- MODULE MCRemoteTransaction --------------------------
(* Instances of RemoteTransaction for TLC.                                 *)
EXTENDS RemoteTransaction, TLC

Attach(mode, max, readOnly, streams) ==
  [mode |-> mode, max |-> max, readOnly |-> readOnly, streams |-> streams]

\* The default mode with a small pool and with pooling disabled, and the modes that keep
\* to the limit: one that leaves a spare connection to the last session, and the smallest.
EveryMode ==
  {Attach("force", 1, FALSE, TRUE), Attach("force", 0, TRUE, FALSE),
   Attach("wait", 1 + Cardinality(Sessions), FALSE, FALSE), Attach("try", 1, FALSE, FALSE)}

Default      == {Attach("force", 1, FALSE, FALSE)}
OnePerSession == {Attach("wait", Cardinality(Sessions), FALSE, FALSE)}

\* Sessions and connections are interchangeable.
Symmetry == Permutations(Sessions) \cup Permutations(Conns)
===============================================================================
