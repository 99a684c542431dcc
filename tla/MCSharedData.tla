---------------------------- MODULE MCSharedData ----------------------------
(* Small instances of SharedData.                                           *)
EXTENDS SharedData, TLC

CONSTANTS s1, s2, t1, t2, t3, d1, d2

\* Two threads of one server; a second server with one thread.
MCServerOf == (t1 :> s1) @@ (t2 :> s1) @@ (t3 :> s2)
MCServerOfOne == (t1 :> s1) @@ (t2 :> s1)
MCServerOfTwo == (t1 :> s1) @@ (t3 :> s2)
=============================================================================
