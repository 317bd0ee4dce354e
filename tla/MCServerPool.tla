---------------------------- MODULE MCServerPool ----------------------------
(* Instances of ServerPool for TLC: three servers with two points each (16   *)
(* in the code), up to renaming the servers.                                 *)
EXTENDS ServerPool, TLC

CONSTANTS c1, c2, u1

\* Spread evenly, and so that libgearman's chain cycles between two
\* servers and never comes to the third.
SomeRings == {<<0, 1, 2, 0, 1, 2>>, <<0, 1, 0, 2, 2, 1>>}

\* Two tasks that share the cursor; one that names a unique id, or does not.
SomeAsk == ("round_robin" :> (c1 :> {NoUnique} @@ c2 :> {NoUnique}))
           @@ ("by_unique" :> (c1 :> {u1, NoUnique} @@ c2 :> {}))
=============================================================================
