----------------------------- MODULE MCDockerhost -----------------------------
EXTENDS Dockerhost, TLC

\* Two shapes of the network or size, an idle timeout that is off and one that
\* is set, the longest maximum age and a shorter one.
MCConfigs ==
    {[shape |-> "a", idle |-> 1, maxAge |-> 2],
     [shape |-> "a", idle |-> 2, maxAge |-> 2],
     [shape |-> "b", idle |-> 0, maxAge |-> 1]}

MCVerbs == ("s1" :> {"provision"}) @@ ("s2" :> {"teardown"})

MCSessions == {"s1", "s2"}

================================================================================
