----------------------------- MODULE MCRollback ------------------------------
(***************************************************************************)
(* Rollback for a workspace of four packages: q uses p and both are        *)
(* mutated, r is tested against p, and s only switches features on.        *)
(***************************************************************************)
EXTENDS Rollback, TLC

CONSTANTS p, q, r, s

MCReach     == p :> {p} @@ q :> {p, q} @@ r :> {p, r} @@ s :> {s}
MCOracles   == {{p, q, r, s}, {r}, {r, s}}
MCStages    == <<{p}, {q}>>
MCPackageOf == <<p, p, p, q, q>>
MCItemOf    == <<1, 1, 2, 3, 3>>

\* The files of p come before those of q, or after them.
MCFilings   == {<<1, 1, 2, 3, 3>>, <<2, 2, 3, 1, 1>>}

Err(needs, names, in, kind, cure) ==
  [needs |-> needs, amid |-> {}, names |-> names, in |-> in, kind |-> kind, cure |-> cure]

\* What a mutant or two do to the package they are in, or to the one that uses it.
OfMutants == {Err(n, ns, p, k, {}) : n \in {{1}, {1, 2}, {1, 3}}, ns \in {{}, {1}},
                                     k \in {"lib", "test"}}
             \union {Err({2}, {2}, p, k, {}) : k \in {"lib", "test"}}
             \union {Err(n, ns, q, "lib", {}) : n \in {{4}, {1}, {3, 4}}, ns \in {{}, {4}}}

\* What is wrong before any mutant is applied.
OfTree == {Err({}, ns, p, k, c) : ns \in {{}, {1}}, k \in {"lib", "link"}, c \in {{q}, {s}}}
          \union {Err({}, ns, in, "test", c) : ns \in {{}, {1}}, in \in {p, r}, c \in {{}, {s}}}

\* What a mutant of p does where it is spliced into a file of q.
OfStrays == {[Err({}, ns, q, "lib", {}) EXCEPT !.amid = {<<2, 1>>}] : ns \in {{}, {2}}}

MCWorlds == {{e, f} : e \in OfMutants \union OfTree, f \in OfMutants} \union {{}}
            \union {{e, f} : e \in OfStrays, f \in OfMutants}
MCDependencies == {{}, {1, 2, 3}}
=============================================================================
