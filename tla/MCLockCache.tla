----------------------------- MODULE MCLockCache -----------------------------
(* Small instances of LockCache for TLC. *)
EXTENDS LockCache

CONSTANTS a, b, k1, k2

\* Two goroutines query one key; or one asks for two keys, which fill the shard,
\* and the other for one of them.
MCQueries == {<<"query", a, {k1}>>, <<"query", b, {k1}>>}
MCBatches == {<<"accounts", a, {k1, k2}>>, <<"accounts", b, {k1}>>}

\* Or a goroutine asks for two pools again and again.
MCPools == {<<"pools", a, {k1, k2}>>}

MCAll == MCQueries \union MCBatches \union MCPools
=============================================================================
