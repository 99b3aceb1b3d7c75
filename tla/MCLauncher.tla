----------------------------- MODULE MCLauncher -----------------------------
(* Two sections of up to two tests for one launcher plugin.                *)
EXTENDS Launcher

Opt(m, d, a, x) == [mw |-> m, deps |-> d, alloc |-> a, max |-> x]

\* Middleware on an allocated cluster, or dependencies and a limit of one test.
MCChoices == {Opt(TRUE, FALSE, TRUE, NoLimit), Opt(FALSE, TRUE, FALSE, 1)}
=============================================================================
