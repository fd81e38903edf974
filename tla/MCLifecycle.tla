----------------------------- MODULE MCLifecycle -----------------------------
(* Instances of Lifecycle. *)
EXTENDS Lifecycle, TLC

CONSTANTS j1, j2, j3

\* the installer's events do not mention the job
Anonymous == {}

\* the installer's events name the job they are about, and no other
Named == {<<j, j>> : j \in Jobs}

\* one of two profiles mentions the job
NamedFirst == {<<j1, j1>>}

\* handler threads are interchangeable
ThreadSymmetry == Permutations(Threads)
=============================================================================
