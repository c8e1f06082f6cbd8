--------------------------- MODULE MCAuthenticator ---------------------------
(* Two callers, and the directories that earlier processes may have left.    *)
EXTENDS Authenticator, TLC

CONSTANTS c1, c2, r1, r2, d1, p1, app, legacy, cli, shell

Left(access, cache, auto) ==
  [access |-> access, cache |-> cache, marker |-> FALSE, auto |-> auto]
LegacyToken == [account |-> legacy, born |-> 0]

\* A legacy login whose bearer is older than fingerprints, and the bearer of a
\* process that had the environment variable.  SignOut leaves the empty directory.
MCDisks == {
  Left(LegacyToken, [BearerOf(LegacyToken) EXCEPT !.fingerprint = None], FALSE),
  Left(None, BearerOf([account |-> shell, born |-> 0]), FALSE)}

\* A login by this version, whose bearer is cached; the CLI enabled.
MCWaitDisks == {Left(LegacyToken, BearerOf(LegacyToken), FALSE), Left(None, None, TRUE)}

Interchangeable == Permutations({c1, c2}) \cup Permutations({r1, r2})
=============================================================================
