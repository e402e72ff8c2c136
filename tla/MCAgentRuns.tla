----------------------------- MODULE MCAgentRuns -----------------------------
(* Small instances of AgentRuns for TLC. *)
EXTENDS AgentRuns, TLC

CONSTANTS r1, r2, i1, i2, dir, file, other

TwoRuns == {r1, r2}
Alone   == (r1 :> i1) @@ (r2 :> i2)
Shared  == (r1 :> i1) @@ (r2 :> i1)

W(k) == [key |-> k, access |-> "write"]
R(k) == [key |-> k, access |-> "read"]

Flat(G)   == {<<k, k>> : k \in G}
DirGround == {dir, file}
DirOverlaps == DirGround \X DirGround
DirScopes == {{W(dir)}, {W(file)}}
OneGround == {file}
OneOverlaps == Flat(OneGround)
OneScopes == {{W(file)}, {R(file)}}
WriteScopes == {{W(file)}}
TwoGround == {file, other}
TwoOverlaps == Flat(TwoGround)
TwoScopes == {{W(file), W(other)}, {W(other)}}
EmptyScope == {{}}
BothScope == {{W(file), W(other)}}
OnlyFile == {W(file)}
AgentOnly == {<<"planned", TRUE>>}
AgentAndHook == {<<"planned", TRUE>>, <<"observed", FALSE>>}
RunSymmetry == Permutations(TwoRuns) \cup Permutations({i1, i2})
==============================================================================
