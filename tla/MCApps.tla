------------------------------- MODULE MCApps -------------------------------
(* A small instance of Apps for TLC.                                         *)
EXTENDS Apps

CONSTANTS a, b, p0, p1, p2, q, x, y, near, far, k, h1, h2

MCAppOf == (p0 :> a) @@ (p1 :> a) @@ (p2 :> a) @@ (q :> b)

\* Of app a: unsigned and asking to fetch; signed, asking for the same but for
\* another host; signed and asking for more.  Of app b: signed by the same,
\* asking for nothing.
MCAsks == (p0 :> {x}) @@ (p1 :> {x}) @@ (p2 :> {x, y}) @@ (q :> {})
MCHostsOf == (p0 :> {near}) @@ (p1 :> {far}) @@ (p2 :> {near, far}) @@ (q :> {})
MCPublisher == (p0 :> None) @@ (p1 :> k) @@ (p2 :> k) @@ (q :> k)

\* The handlers are interchangeable.
MCSymmetry == Permutations({h1, h2})
=============================================================================
