------------------------------ MODULE MCMounts ------------------------------
\* Three slots: "/" and "/d" (for /dev) are mounted to begin with, "/d/e" lies inside.
EXTENDS Mounts, TLC

MCRoot == <<"/">>
MCDev == <<"/", "d">>
MCInner == <<"/", "d", "/", "e">>
MCPoints == {MCRoot, MCDev, MCInner}
\* "/", "/de", "/d/e/d"
MCPaths == {MCRoot, <<"/", "d", "e">>, MCInner \o MCDev}

\* Nothing tells the processes apart: neither Init nor a property names one
Symmetry == Permutations(Proc)
=============================================================================
