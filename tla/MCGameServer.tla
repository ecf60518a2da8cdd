---------------------------- MODULE MCGameServer ----------------------------
(***************************************************************************)
(* The instances of GameServer and ClientView that TLC checks.             *)
(***************************************************************************)
EXTENDS ClientView

\* Two players who match at once and one who has to wait for them.
MCInitialElo == (1 :> 1000) @@ (2 :> 1010) @@ (3 :> 1200)

Symmetry == Permutations(Connections)

\* `sent` only feeds `view`: no handler reads it.
WithoutSent == <<connections, shutdown, sessions, queue, roomService, battles,
                 accountRepository, now, ticking, events, view>>

=============================================================================
